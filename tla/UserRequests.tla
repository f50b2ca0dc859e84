---------------------------- MODULE UserRequests ----------------------------
(***************************************************************************)
(* The user operations of a stack, as the SQL statements its repository    *)
(* sends (UserPrograms holds those of the seventeen stacks). The table has *)
(* one row per username; the column id is neither unique nor NOT NULL. Two *)
(* stacks write a list of users in one transaction: its rows stay locked,  *)
(* and unseen, until it commits or rolls back, and other statements wait.  *)
(*                                                                         *)
(* A user is its id and one profile, which stands for the other columns.   *)
(* Requests refused before any statement change nothing and are left out.  *)
(***************************************************************************)
EXTENDS Naturals, Sequences, SequencesExt

CONSTANTS
  Programs,       \* the stacks under study
  PostCreates,    \* those claimed to create users in POST alone,
  GiveIds,        \*   and those to leave no user without an id
  Workers,        \* requests that may be served at a time
  Usernames, Profiles,
  Lists,          \* the lists of usernames that may be posted
  MaxId,          \* the last id the sequence hands out
  ClientIds,      \* ids a client may send
  NoUser, NoRequest, Nobody

Null == 0         \* an id that is NULL or was not sent
Rows == [id : 0..MaxId, profile : Profiles]

Inserts == {"insert", "upsert", "upsertDrawing", "upsertButId", "upsertById"}
Updates == {"update", "updateAny", "updateButId"}
Deletes == {"delete", "deleteAny"}
Finds == {"find", "findId", "fetch"}
Draws == {"nextval", "nextvalAlways"}
Statements ==
  Inserts \cup Updates \cup Deletes \cup Finds \cup Draws \cup {"lockRow", "rename", "commit"}
Modes == {"sequence", "transaction", "skipping", "atOnce"}
Operations == {"create", "list", "update", "delete"}
Answers == {"none", "ok", "notFound", "refused", "error", "crash"}

Parts == {"create", "entry", "update", "delete"}
Without(s, statements) == \A i \in 1..Len(s) : s[i] \notin statements

(* What the operations send: "entry" for each user of a list, and "ending" *)
(* after the last; "mode" says how the entries belong together. A row is   *)
(* locked to be renamed, and a transaction holds upserts alone.            *)
WellFormed(p) ==
  /\ p.mode \in Modes
  /\ \A part \in Parts :
       /\ p[part] \in Seq(Statements \ {"commit"}) \ {<<>>} /\ Len(p[part]) <= 3
       /\ part # "update" => Without(p[part], {"lockRow", "rename"})
  /\ \A i \in 1..Len(p.update) :
       /\ p.update[i] = "rename" => i > 1 /\ p.update[i - 1] = "lockRow"
       /\ p.update[i] = "lockRow" => i < Len(p.update) /\ p.update[i + 1] = "rename"
  /\ IF p.mode = "transaction"
     THEN /\ Without(p.entry, Statements \ (Draws \cup {"upsert"})) /\ ~Without(p.entry, {"upsert"})
          /\ p.ending = <<"commit">>
     ELSE p.ending \in {<<>>, <<"fetch">>}

(* PUT and DELETE insert nothing, and nothing but DELETE deletes. *)
UpdatesInPlace(p) ==
  /\ \A part \in {"update", "delete"} : Without(p[part], Inserts)
  /\ \A part \in Parts \ {"delete"} : Without(p[part], Deletes)

(* Whatever writes an id has one, drawn, sent or read just before. *)
NeedsId == {"upsert", "lockRow", "rename"}
LeavesId == Draws \cup {"findId", "lockRow"}
GivesIds(p) ==
  /\ \A part \in Parts :
       /\ Without(p[part], {"insert", "update", "updateAny"})
       /\ \A i \in 1..Len(p[part]) :
            p[part][i] \in NeedsId => i > 1 /\ p[part][i - 1] \in LeavesId
  /\ p.mode \in {"skipping", "atOnce"} => Without(p.entry, NeedsId)

Requests ==
  [op : {"create"}, names : {<<n>> : n \in Usernames}, new : {NoUser},
   id : ClientIds \cup {Null}, profile : Profiles]
    \cup [op : {"list"}, names : Lists, new : {NoUser}, id : {Null}, profile : Profiles]
    \cup [op : {"update"}, names : {<<n>> : n \in Usernames}, new : Usernames,
          id : ClientIds \cup {Null}, profile : Profiles]
    \cup [op : {"delete"}, names : {<<n>> : n \in Usernames}, new : {NoUser},
          id : {Null}, profile : Profiles]

ASSUME UserBounds ==
  /\ MaxId \in Nat \ {0} /\ ClientIds \subseteq 1..MaxId
  /\ Lists \subseteq Seq(Usernames) \ {<<>>}
ASSUME UserProgramsAssumption == \A p \in Programs : WellFormed(p)
ASSUME UserModelValues ==
  /\ NoUser \notin Rows \cup Usernames /\ NoRequest \notin Requests /\ Nobody \notin Workers

VARIABLES
  program,        \* the stack that runs
  users,          \* table "user", as committed
  seq,            \* user_id_seq: the last id handed out
  locker,         \* who has locked the row or the key of each username
  draft,          \* what it has written there and not yet committed
  req,            \* the request each worker serves
  todo,           \* the statements it has yet to send
  rid,            \* the id it has in hand
  answer          \* its last answer

table == <<users, seq, locker, draft>>
vars == <<program, table, req, todo, rid, answer>>
-----------------------------------------------------------------------------
Init ==
  /\ program \in Programs
  /\ users = [n \in Usernames |-> NoUser]
  /\ seq = 0
  /\ locker = [n \in Usernames |-> Nobody]
  /\ draft = [n \in Usernames |-> NoUser]
  /\ req = [w \in Workers |-> NoRequest]
  /\ todo = [w \in Workers |-> <<>>]
  /\ rid = [w \in Workers |-> Null]
  /\ answer = [w \in Workers |-> "none"]

(* The statements of p for one user after the other. *)
Each(p, names) ==
  [i \in 1..(Len(p) * Len(names)) |->
     [do |-> p[((i - 1) % Len(p)) + 1], of |-> names[((i - 1) \div Len(p)) + 1]]]

Plan(r) ==
  IF r.op = "list"
  THEN Each(program.entry, r.names) \o Each(program.ending, <<Head(r.names)>>)
  ELSE Each(program[r.op], r.names)

(* A request reaches a handler. *)
Call(w, r) ==
  /\ req[w] = NoRequest
  /\ req' = [req EXCEPT ![w] = r]
  /\ todo' = [todo EXCEPT ![w] = Plan(r)]
  /\ rid' = [rid EXCEPT ![w] = r.id]
  /\ answer' = [answer EXCEPT ![w] = "none"]
  /\ UNCHANGED <<program, table>>

InList(w) == req[w] # NoRequest /\ req[w].op = "list"
InTransaction(w) == InList(w) /\ program.mode = "transaction"

(* Statements are sent in order, except those of Promise.all. *)
MaySend(w) == IF InList(w) /\ program.mode = "atOnce" THEN 1..Len(todo[w]) ELSE {1}
Sends(w, i, statements) ==
  req[w] # NoRequest /\ i \in MaySend(w) /\ todo[w][i].do \in statements

(* Statement i is dealt with; id is in hand for the next one. After the    *)
(* last one the handler answers 200, unless it has answered an error.      *)
Advance(w, i, id, told) ==
  LET rest == RemoveAt(todo[w], i)
  IN /\ todo' = [todo EXCEPT ![w] = rest]
     /\ rid' = [rid EXCEPT ![w] = IF rest = <<>> THEN Null ELSE id]
     /\ req' = [req EXCEPT ![w] = IF rest = <<>> THEN NoRequest ELSE @]
     /\ answer' = [answer EXCEPT ![w] = IF rest = <<>> /\ told = "none" THEN "ok" ELSE told]

Proceed(w, i, id) == Advance(w, i, id, answer[w])

(* Mutant: an error is answered without return, the handler runs on. *)
Answer_WithoutReturn(w, a) ==
  /\ rid' = [rid EXCEPT ![w] = Null]
  /\ req' = [req EXCEPT ![w] = NoRequest]
  /\ answer' = [answer EXCEPT ![w] = a]
  /\ UNCHANGED todo

(* The handler answers a and is done. *)
Answer(w, a) ==
  /\ todo' = [todo EXCEPT ![w] = <<>>]
  /\ rid' = [rid EXCEPT ![w] = Null]
  /\ req' = [req EXCEPT ![w] = NoRequest]
  /\ answer' = [answer EXCEPT ![w] = a]

(* Mutant: CreateUsers without defer tx.Rollback(), an error leaves the transaction open. *)
Release_Committed(w) ==
  IF todo[w] # <<>> /\ todo[w][1].do \in {"commit", "rename"}
  THEN /\ locker' = [n \in Usernames |-> IF locker[n] = w THEN Nobody ELSE locker[n]]
       /\ draft' = [n \in Usernames |-> IF locker[n] = w THEN NoUser ELSE draft[n]]
  ELSE UNCHANGED <<locker, draft>>

(* The locks of w are gone, and with them what it has not committed. *)
Release(w) ==
  /\ locker' = [n \in Usernames |-> IF locker[n] = w THEN Nobody ELSE locker[n]]
  /\ draft' = [n \in Usernames |-> IF locker[n] = w THEN NoUser ELSE draft[n]]

(* Statement i has failed: Promise.all answers and leaves the others under *)
(* way, Phoenix leaves the user out and goes on; all others end with an    *)
(* error, and a transaction is rolled back.                                *)
Fails(w, i, a) ==
  /\ CASE InList(w) /\ program.mode = "atOnce" ->
            Advance(w, i, Null, IF answer[w] = "none" THEN a ELSE answer[w])
       [] InList(w) /\ program.mode = "skipping" -> Proceed(w, i, Null)
       [] OTHER -> Answer(w, a)
  /\ Release(w)
  /\ UNCHANGED <<program, users, seq>>

(* PostgreSQL: a statement waits while another request holds the row or    *)
(* the key; a row that is not committed cannot be waited for by a WHERE.   *)
HeldByOther(w, n) == locker[n] \notin {Nobody, w}
WaitsAt(w, s) ==
  CASE s.do \in Inserts -> s.of
    [] s.do \in Updates \cup Deletes \cup {"lockRow"} /\ users[s.of] # NoUser -> s.of
    [] s.do = "rename" -> req[w].new
    [] OTHER -> NoUser
Waits(w, i) == LET n == WaitsAt(w, todo[w][i]) IN n # NoUser /\ HeldByOther(w, n)

(* Statement i of w is one of these, and has the locks it needs. *)
Runs(w, i, statements) == Sends(w, i, statements) /\ ~Waits(w, i)
-----------------------------------------------------------------------------
(* SELECT nextval('user_id_seq') for a user without an id, or for every    *)
(* user; the sequence has an end.                                          *)
Nextval(w, i) ==
  /\ Sends(w, i, Draws)
  /\ IF rid[w] # Null /\ todo[w][i].do = "nextval"
     THEN Proceed(w, i, rid[w]) /\ UNCHANGED <<program, table>>
     ELSE IF seq = MaxId THEN Fails(w, i, "error")
     ELSE /\ seq' = seq + 1
          /\ Proceed(w, i, IF rid[w] = Null THEN seq + 1 ELSE rid[w])
          /\ UNCHANGED <<program, users, locker, draft>>

(* Mutant: the upserts of a list are sent to s.db instead of tx. *)
Write_OutsideTransaction(w, n, row) ==
  users' = [users EXCEPT ![n] = row] /\ UNCHANGED <<locker, draft>>

(* The row is written: at once, or in the transaction, whose lock it takes.*)
Write(w, n, row) ==
  IF InTransaction(w)
  THEN /\ locker' = [locker EXCEPT ![n] = w]
       /\ draft' = [draft EXCEPT ![n] = row]
       /\ UNCHANGED users
  ELSE users' = [users EXCEPT ![n] = row] /\ UNCHANGED <<locker, draft>>

Row(w, id) == [id |-> id, profile |-> req[w].profile]

(* INSERT ... ON CONFLICT (username) DO UPDATE SET id = EXCLUDED.id, ...   *)
Upsert(w, i) ==
  /\ Runs(w, i, {"upsert"})
  /\ Write(w, todo[w][i].of, Row(w, rid[w]))
  /\ Proceed(w, i, Null)
  /\ UNCHANGED <<program, seq>>

(* The id is drawn in the statement itself: COALESCE(.., nextval(..)), or  *)
(* the column's default when id is not among the columns; an existing row  *)
(* then keeps its id.                                                      *)
UpsertDrawing(w, i) ==
  /\ Runs(w, i, {"upsertDrawing", "upsertButId"})
  /\ LET n == todo[w][i].of
         given == IF todo[w][i].do = "upsertDrawing" THEN rid[w] ELSE Null
         keeps == todo[w][i].do = "upsertButId" /\ users[n] # NoUser
     IN IF given = Null /\ seq = MaxId THEN Fails(w, i, "error")
        ELSE /\ seq' = IF given = Null THEN seq + 1 ELSE seq
             /\ Write(w, n, Row(w, IF keeps THEN users[n].id
                                   ELSE IF given = Null THEN seq + 1 ELSE given))
             /\ Proceed(w, i, Null)
             /\ UNCHANGED program

(* INSERT without ON CONFLICT: a username that is taken is an error. *)
Insert(w, i) ==
  /\ Runs(w, i, {"insert"})
  /\ IF users[todo[w][i].of] # NoUser THEN Fails(w, i, "refused")
     ELSE /\ Write(w, todo[w][i].of, Row(w, rid[w]))
          /\ Proceed(w, i, Null)
          /\ UNCHANGED <<program, seq>>

(* INSERT ... ON CONFLICT (id): "user" has no unique index on id, and      *)
(* PostgreSQL refuses the statement.                                       *)
UpsertById(w, i) ==
  /\ Runs(w, i, {"upsertById"})
  /\ Fails(w, i, "refused")

(* Mutant: UpdateUser without the lines that keep the existing id. *)
Find_IdNotKept(w, i) ==
  /\ Sends(w, i, Finds)
  /\ IF users[todo[w][i].of] = NoUser
     THEN Answer(w, IF todo[w][i].do = "fetch" THEN "crash" ELSE "notFound")
     ELSE Proceed(w, i, rid[w])
  /\ UNCHANGED <<program, table>>

(* SELECT ... WHERE username: 404 when there is no row. "findId" keeps its *)
(* id for a request that sent none; "fetch" dereferences the row.          *)
Find(w, i) ==
  /\ Sends(w, i, Finds)
  /\ LET n == todo[w][i].of
         kind == todo[w][i].do
     IN IF users[n] = NoUser
        THEN Answer(w, IF kind = "fetch" THEN "crash" ELSE "notFound")
        ELSE Proceed(w, i, IF kind = "findId" /\ rid[w] = Null THEN users[n].id ELSE rid[w])
  /\ UNCHANGED <<program, table>>

(* UPDATE ... WHERE username, with or without a look at the row count. *)
Update(w, i) ==
  /\ Runs(w, i, Updates)
  /\ LET n == todo[w][i].of
         kind == todo[w][i].do
     IN IF users[n] # NoUser
        THEN /\ Write(w, n, Row(w, IF kind = "updateButId" THEN users[n].id ELSE rid[w]))
             /\ Proceed(w, i, Null)
        ELSE /\ IF kind = "update" THEN Answer(w, "notFound") ELSE Proceed(w, i, Null)
             /\ UNCHANGED <<users, locker, draft>>
  /\ UNCHANGED <<program, seq>>

(* UPDATE ... SET username = .. WHERE username locks the row first ...     *)
LockRow(w, i) ==
  /\ Runs(w, i, {"lockRow"})
  /\ LET n == todo[w][i].of
     IN IF users[n] = NoUser THEN Answer(w, "ok") /\ UNCHANGED <<locker, draft>>
        ELSE /\ locker' = [locker EXCEPT ![n] = w]
             /\ draft' = [draft EXCEPT ![n] = users[n]]
             /\ Proceed(w, i, rid[w])
  /\ UNCHANGED <<program, users, seq>>

(* ... and then needs the new name to be free. *)
Rename(w, i) ==
  /\ Runs(w, i, {"rename"})
  /\ LET n == todo[w][i].of
         new == req[w].new
     IN IF new # n /\ users[new] # NoUser THEN Fails(w, i, "refused")
        ELSE /\ users' = [users EXCEPT ![n] = NoUser, ![new] = Row(w, rid[w])]
             /\ Proceed(w, i, Null)
             /\ Release(w)
             /\ UNCHANGED <<program, seq>>

(* DELETE ... WHERE username, with or without a look at the row count. *)
Delete(w, i) ==
  /\ Runs(w, i, Deletes)
  /\ LET n == todo[w][i].of
     IN /\ users' = [users EXCEPT ![n] = NoUser]
        /\ IF todo[w][i].do = "delete" /\ users[n] = NoUser
           THEN Answer(w, "notFound") ELSE Proceed(w, i, Null)
  /\ UNCHANGED <<program, seq, locker, draft>>

(* COMMIT: all rows of the transaction at once. *)
Commit(w, i) ==
  /\ Sends(w, i, {"commit"})
  /\ users' = [n \in Usernames |-> IF locker[n] = w THEN draft[n] ELSE users[n]]
  /\ Release(w)
  /\ Proceed(w, i, Null)
  /\ UNCHANGED <<program, seq>>

Statement(w, i) ==
  \/ Nextval(w, i) \/ Upsert(w, i) \/ UpsertDrawing(w, i) \/ Insert(w, i)
  \/ UpsertById(w, i) \/ Find(w, i) \/ Update(w, i) \/ LockRow(w, i)
  \/ Rename(w, i) \/ Delete(w, i) \/ Commit(w, i)

(* A statement fails for a reason of its own: no username in that entry,   *)
(* a value too long, a lost connection.                                    *)
StatementFails(w, i) ==
  /\ req[w] # NoRequest /\ i \in MaySend(w)
  /\ Fails(w, i, "error")

(* PostgreSQL finds requests that wait for each other in a circle and      *)
(* fails one of them.                                                      *)
InCircle(w) ==
  \E S \in SUBSET Workers :
    /\ w \in S
    /\ \A v \in S : req[v] # NoRequest /\ Waits(v, 1)
    /\ S = {locker[WaitsAt(v, todo[v][1])] : v \in S}

DeadlockDetected(w) ==
  /\ InCircle(w)
  /\ Fails(w, 1, "error")

Step(w) == DeadlockDetected(w) \/ \E i \in 1..Len(todo[w]) : Statement(w, i)

Next ==
  \E w \in Workers :
    \/ Step(w)
    \/ \E i \in 1..Len(todo[w]) : StatementFails(w, i)
    \/ \E r \in Requests : Call(w, r)

Spec == Init /\ [][Next]_vars

(* A statement is answered sooner or later, also one that has to wait:     *)
(* PostgreSQL grants a lock in the order of the waiting.                   *)
Fairness == \A w \in Workers : SF_vars(Step(w))
FairSpec == Spec /\ Fairness
-----------------------------------------------------------------------------
(* Every variable has its type, a worker has statements to send exactly    *)
(* while it serves a request, and what is drafted is locked.               *)
TypeOK ==
  /\ program \in Programs
  /\ users \in [Usernames -> Rows \cup {NoUser}]
  /\ seq \in 0..MaxId
  /\ locker \in [Usernames -> Workers \cup {Nobody}]
  /\ draft \in [Usernames -> Rows \cup {NoUser}]
  /\ \A n \in Usernames : draft[n] = NoUser <=> locker[n] = Nobody
  /\ req \in [Workers -> Requests \cup {NoRequest}]
  /\ todo \in [Workers -> Seq([do : Statements, of : Usernames])]
  /\ \A w \in Workers : todo[w] = <<>> <=> req[w] = NoRequest
  /\ rid \in [Workers -> 0..MaxId]
  /\ answer \in [Workers -> Answers]

Moves(w) == req[w] # NoRequest /\ todo'[w] # todo[w]
Appears(n) == users[n] = NoUser /\ users'[n] # NoUser
Vanishes(n) == users[n] # NoUser /\ users'[n] = NoUser

AppearsAsNamed(n) ==
  \E w \in Workers : /\ Moves(w)
                     /\ \/ req[w].op \in {"create", "list"} /\ n \in ToSet(req[w].names)
                        \/ req[w].op = "update" /\ req[w].new = n /\ Vanishes(Head(req[w].names))
VanishesAsNamed(n) ==
  \E w \in Workers : /\ Moves(w)
                     /\ n = Head(req[w].names)
                     /\ req[w].op = "delete" \/ (req[w].op = "update" /\ Appears(req[w].new))

(* A user appears only by a POST that names it, never by a PUT that found  *)
(* it before it was deleted, and vanishes only by a DELETE that names it;  *)
(* or else a PUT takes it from one name to another, which nobody has.      *)
UsersComeAndGoAsNamed ==
  [][\A n \in Usernames :
       program \in PostCreates =>
         (Appears(n) => AppearsAsNamed(n)) /\ (Vanishes(n) => VanishesAsNamed(n))]_vars

AllWritten(r) ==
  \A n \in ToSet(r.names) : users'[n] # NoUser /\ users'[n].profile = r.profile

(* A list in a transaction is all or nothing: the step in which it changes *)
(* the table writes all of its users, and it is answered with success.     *)
(* Errors in the middle, also those of a deadlock, leave nothing behind.   *)
ListsAreWhole ==
  [][\A w \in Workers :
       (program.mode = "transaction" /\ Moves(w) /\ req[w].op = "list" /\ users' # users) =>
         (answer'[w] = "ok" /\ AllWritten(req[w]))]_vars

(* A user that has been given an id never loses it, also when a PUT without*)
(* one writes the id it read before the user was deleted and created anew. *)
EveryUserHasAnId ==
  program \in GiveIds => \A n \in Usernames : users[n] # NoUser => users[n].id # Null

(* Every request is answered: no transaction leaves its rows locked, and   *)
(* lists that lock the same users in opposite orders do not wait forever.  *)
RequestsAreAnswered ==
  \A w \in Workers : req[w] # NoRequest ~> answer[w] # "none"
=============================================================================
