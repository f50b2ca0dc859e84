------------------------------ MODULE PetCache ------------------------------
(***************************************************************************)
(* The in-process read caches in front of table pet: Spring's @Cacheable   *)
(* methods, Helidon's two Caffeine caches, the TtlCache of Express and     *)
(* Fastify. Cache "pets" holds one pet (Spring, Helidon) or the list of    *)
(* one status (Express, Fastify); "inventory" holds the counts by status.  *)
(*                                                                         *)
(* The table is reduced to a version that every effective write advances;  *)
(* an entry is the version it was computed from and the time it expires.   *)
(* A stack is a program again: the steps of each operation in order, SQL   *)
(* statements and cache calls; steps of concurrent requests interleave.    *)
(* Each process (a Fastify cluster worker) has its caches to itself.       *)
(*                                                                         *)
(* Time is discrete. MaxDelay, the time a request may take, is an          *)
(* assumption about the environment: no stack sets a statement timeout.    *)
(***************************************************************************)
EXTENDS Naturals, Sequences

CONSTANTS
  Stacks,         \* the stacks under study: [operation -> steps]
  Workers,        \* requests that may be served at a time
  Processes,      \* processes of the stack, each with its caches
  TTL,            \* time to live of each cache
  MaxDelay,       \* how long a request may take
  MaxVersion,     \* bound on the writes
  MaxTime         \* bound on the clock

Caches == {"pets", "inventory"}
Operations == {"get", "inventory", "add", "update", "form", "delete"}
Versions == 1..MaxVersion

ASSUME CacheBounds ==
  /\ Processes # {}
  /\ TTL \in [Caches -> Nat]
  /\ MaxDelay \in Nat /\ MaxTime \in Nat /\ MaxVersion \in Nat \ {0}

Sql(statement) == [do |-> statement, caches |-> {}]
On(action, caches) == [do |-> action, caches |-> caches]
Steps == [do : {"lookup", "select", "selectPet", "insert", "upsert", "update",
                "form", "delete", "put", "evict"},
          caches : SUBSET Caches]

ASSUME StepsAssumption ==
  \A s \in Stacks : \A op \in Operations : s.steps[op] \in Seq(Steps) \ {<<>>}

NoEntry == [version |-> 0, expires |-> 0]

(* A request: the steps it has yet to take, its process, the version it    *)
(* has read or written (0: none yet), and when it came.                    *)
Requests == [todo : Seq(Steps), home : Processes, got : 0..MaxVersion, started : Nat]
NoRequest == [todo |-> <<>>, home |-> CHOOSE p \in Processes : TRUE, got |-> 0, started |-> 0]

VARIABLES
  stack,          \* the stack that runs
  now,            \* the time
  db,             \* the version of table pet
  exists,         \* is the pet in it?
  replaced,       \* when each version was replaced
  entry,          \* the entry of each cache of each process
  req             \* the request each worker serves

table == <<db, exists, replaced>>
vars == <<stack, now, table, entry, req>>

-----------------------------------------------------------------------------
Init ==
  /\ stack \in Stacks
  /\ now = 0
  /\ db = 1
  /\ exists \in BOOLEAN
  /\ replaced = [v \in Versions |-> 0]
  /\ entry = [p \in Processes |-> [c \in Caches |-> NoEntry]]
  /\ req = [w \in Workers |-> NoRequest]

Idle(w) == req[w] = NoRequest

Call(w, p, op) ==
  /\ Idle(w)
  /\ req' = [req EXCEPT ![w] =
       [todo |-> stack.steps[op], home |-> p, got |-> 0, started |-> now]]
  /\ UNCHANGED <<stack, now, table, entry>>

Does(w, actions) == ~Idle(w) /\ Head(req[w].todo).do \in actions

Answer(w) == req' = [req EXCEPT ![w] = NoRequest]

(* The request goes on with version v; after its last step it is answered. *)
Proceed(w, v) ==
  IF Len(req[w].todo) = 1 THEN Answer(w)
  ELSE req' = [req EXCEPT ![w].todo = Tail(@), ![w].got = v]

(* The entry is there and has not expired. *)
Live(e) == e.version # 0 /\ now <= e.expires

(* The caches of process p after its step, which acts on some, wrote e. *)
Stored(p, caches, e) ==
  [entry EXCEPT ![p] = [c \in Caches |-> IF c \in caches THEN e[c] ELSE entry[p][c]]]

(* Mutant: a hit renews the entry, as with expireAfterAccess. *)
Lookup_RenewsEntry(w) ==
  /\ Does(w, {"lookup"})
  /\ IF \E c \in Head(req[w].todo).caches : Live(entry[req[w].home][c])
     THEN /\ Answer(w)
          /\ entry' = Stored(req[w].home, Head(req[w].todo).caches,
                 [c \in Caches |-> [entry[req[w].home][c] EXCEPT !.expires = now + TTL[c]]])
     ELSE Proceed(w, req[w].got) /\ UNCHANGED entry
  /\ UNCHANGED <<stack, now, table>>

(* cache.get: a hit is the answer. *)
Lookup(w) ==
  /\ Does(w, {"lookup"})
  /\ IF \E c \in Head(req[w].todo).caches : Live(entry[req[w].home][c])
     THEN Answer(w) ELSE Proceed(w, req[w].got)
  /\ UNCHANGED <<stack, now, table, entry>>

(* The SELECT of a miss; of a pet that is not there nothing is cached. *)
Select(w) ==
  /\ Does(w, {"select", "selectPet"})
  /\ IF Head(req[w].todo).do = "selectPet" /\ ~exists THEN Answer(w) ELSE Proceed(w, db)
  /\ UNCHANGED <<stack, now, table, entry>>

(* Does the statement find what it needs to write? *)
Applies(do) ==
  CASE do = "upsert" -> TRUE
    [] do = "insert" -> ~exists
    [] do \in {"update", "form", "delete"} -> exists

(* Mutant: the entry is computed from a write that is then rolled back. *)
Write_RolledBack(w) ==
  LET do == Head(req[w].todo).do IN
  /\ Does(w, {"insert", "upsert", "update", "form", "delete"})
  /\ Applies(do)
  /\ Proceed(w, db + 1)
  /\ UNCHANGED <<stack, now, table, entry>>

Write(w) ==
  LET do == Head(req[w].todo).do IN
  /\ Does(w, {"insert", "upsert", "update", "form", "delete"})
  /\ Applies(do)
  /\ db < MaxVersion
  /\ db' = db + 1
  /\ replaced' = [replaced EXCEPT ![db] = now]
  /\ exists' = (do # "delete")
  /\ Proceed(w, db + 1)
  /\ UNCHANGED <<stack, now, entry>>

(* A form or a DELETE that finds no pet goes on, an INSERT or a PUT throws. *)
WriteNothing(w) ==
  LET do == Head(req[w].todo).do IN
  /\ Does(w, {"insert", "upsert", "update", "form", "delete"})
  /\ ~Applies(do)
  /\ IF do \in {"form", "delete"} THEN Proceed(w, req[w].got) ELSE Answer(w)
  /\ UNCHANGED <<stack, now, table, entry>>

(* cache.put, by a reader or by a writer: the entry lives from now on. *)
Put(w) ==
  /\ Does(w, {"put"})
  /\ entry' = Stored(req[w].home, Head(req[w].todo).caches,
                     [c \in Caches |-> [version |-> req[w].got, expires |-> now + TTL[c]]])
  /\ Proceed(w, req[w].got)
  /\ UNCHANGED <<stack, now, table>>

(* cache.invalidate. *)
Evict(w) ==
  /\ Does(w, {"evict"})
  /\ entry' = Stored(req[w].home, Head(req[w].todo).caches, [c \in Caches |-> NoEntry])
  /\ Proceed(w, req[w].got)
  /\ UNCHANGED <<stack, now, table>>

(* The database refuses the statement: what comes after it is not done. *)
StatementFails(w) ==
  /\ Does(w, {"select", "selectPet", "insert", "upsert", "update", "form", "delete"})
  /\ Answer(w)
  /\ UNCHANGED <<stack, now, table, entry>>

Tick ==
  /\ now < MaxTime
  /\ \A w \in Workers : Idle(w) \/ now < req[w].started + MaxDelay
  /\ now' = now + 1
  /\ UNCHANGED <<stack, table, entry, req>>

Next ==
  \/ Tick
  \/ \E w \in Workers :
       \/ \E p \in Processes, op \in Operations : Call(w, p, op)
       \/ Lookup(w) \/ Select(w) \/ Write(w) \/ WriteNothing(w)
       \/ Put(w) \/ Evict(w) \/ StatementFails(w)

Spec == Init /\ [][Next]_vars
-----------------------------------------------------------------------------
(* Every variable has its type; nothing lies in the future. *)
TypeOK ==
  /\ stack \in Stacks
  /\ now \in Nat
  /\ db \in Versions
  /\ exists \in BOOLEAN
  /\ replaced \in [Versions -> 0..now]
  /\ entry \in [Processes -> [Caches -> [version : 0..db, expires : Nat]]]
  /\ req \in [Workers -> Requests]
  /\ \A w \in Workers : /\ req[w].todo = <<>> <=> Idle(w)
                        /\ req[w].got <= db /\ req[w].started <= now

(* How long version v has been out of date. *)
Age(v) == IF v = db THEN 0 ELSE now - replaced[v]

(* Whatever races with whatever, and whichever process answers: a cache    *)
(* serves data that were true at most the time to live plus the duration   *)
(* of one request ago.                                                     *)
BoundedStaleness ==
  \A p \in Processes, c \in Caches :
    Live(entry[p][c]) => Age(entry[p][c].version) <= TTL[c] + MaxDelay

(* When no request is being served, the caches the stack keeps in step     *)
(* with the table hold what the table holds.                               *)
QuietMeansCurrent ==
  (\A w \in Workers : Idle(w)) =>
     \A p \in Processes : \A c \in stack.kept :
        Live(entry[p][c]) => entry[p][c].version = db
=============================================================================
