---------------------------- MODULE PetRequests ----------------------------
(***************************************************************************)
(* The pet operations of a stack, as the SQL statements its repository     *)
(* sends. A stack is a program: for each operation the statements, in the  *)
(* order the code awaits them (StackPrograms holds those of the seventeen  *)
(* stacks). Each statement is atomic in PostgreSQL and commits on its own; *)
(* the statements of concurrent requests interleave.                       *)
(*                                                                         *)
(* A pet is reduced to two columns, name and status: enough to tell which  *)
(* columns a write takes from the request and which from an earlier read.  *)
(* Requests the handlers refuse before any statement (no name, no id in a  *)
(* PUT) and forms with neither field change nothing and are left out.      *)
(***************************************************************************)
EXTENDS Naturals, Sequences

CONSTANTS
  Programs,       \* the stacks under study: [operation -> statements]
  UpdateOnly,     \* those claimed to create rows in POST alone,
  FieldWise,      \*   to write only the fields a form sent,
  PhotoChecked,   \*   to look at the pet in the statement that stores a photo,
  FreshIds,       \*   to draw ids from the sequence,
  OneStep,        \*   to take effect at one moment
  Workers,        \* requests that may be served at a time
  MaxId,          \* bound on the ids
  Loaded,         \* bound on the ids of the pets loaded at the start
  Names, Statuses,\* contents of the two columns
  NoPet, NoRequest, Keep

Ids == 1..MaxId
Fields == {"name", "status"}
Rows == [name : Names, status : Statuses]

(* What a form sends: either field may be missing, but not both. *)
Forms == {n \in [name : Names \cup {Keep}, status : Statuses \cup {Keep}] :
            n.name # Keep \/ n.status # Keep}

Statements == {"nextval", "nextvalAlways", "nextvalOr1", "insert", "upsert",
               "select", "update", "updateAny", "updateReturning",
               "delete", "deleteChecked", "fetch", "photo", "photoIfPet"}
Operations == {"add", "put", "form", "delete", "photo"}
Draws == {"nextval", "nextvalAlways", "nextvalOr1", "insert", "upsert"}
Creates == {"insert", "upsert"}
Updates == {"update", "updateAny", "updateReturning"}
Answers == {"none", "ok", "notFound", "refused", "error", "crash"}

Requests ==
  [op : {"add"}, id : Ids \cup {0}, new : Rows]
    \cup [op : {"put"}, id : Ids, new : Rows]
    \cup [op : {"form"}, id : Ids, new : Forms]
    \cup [op : {"delete", "photo"}, id : Ids, new : {Keep}]

ASSUME PetBounds ==
  MaxId \in Nat \ {0} /\ Loaded \in 0..MaxId

Without(s, statements) == \A i \in 1..Len(s) : s[i] \notin statements

(* A POST first gets its id; a form creates no row but from one it has     *)
(* read; DELETE and upload carry no row to write.                          *)
WellFormed(p) ==
  /\ \A op \in Operations : p[op] \in Seq(Statements) \ {<<>>}
  /\ Head(p["add"]) \in Draws
  /\ Head(p["form"]) = "select" \/ Without(p["form"], Creates)
  /\ \A op \in {"delete", "photo"} : Without(p[op], Creates \cup Updates)

(* No operation but POST creates rows. *)
OnlyAddCreates(p) == \A op \in Operations \ {"add"} : Without(p[op], Creates)

(* The form is written field by field, over no row it has read. *)
FormsWriteFields(p) == Without(p["form"], Creates \cup {"select", "fetch"})

(* A photo is stored by a statement that looks at the pet itself. *)
PhotosChecked(p) == \A op \in Operations : Without(p[op], {"photo"})

(* A POST draws its id from the sequence alone and writes one row; PUT and *)
(* the form create a row only after they have read it.                     *)
DrawsFreshIds(p) ==
  /\ Without(p["add"], {"nextvalOr1", "delete", "deleteChecked"} \cup Updates)
  /\ \A i, j \in 1..Len(p["add"]) :
       p["add"][i] \in Creates /\ p["add"][j] \in Creates => i = j
  /\ \A op \in {"put", "form"} : Head(p[op]) = "select" \/ Without(p[op], Creates)

(* Rows come from a plain INSERT, which refuses a taken id. *)
RefusesTakenIds(p) ==
  /\ \A op \in Operations : Without(p[op], {"upsert"})
  /\ Without(p["add"], {"delete", "deleteChecked"} \cup Updates)

ASSUME PetPrograms == \A p \in Programs : WellFormed(p)

ASSUME PetModelValues ==
  /\ NoPet \notin Rows /\ NoRequest \notin Requests
  /\ Keep \notin Names /\ Keep \notin Statuses

VARIABLES
  program,        \* the stack that runs
  pet,            \* table pet
  seq,            \* pet_id_seq: the last id handed out
  photos,         \* the pets some row of pet_photo is about
  req,            \* the request each worker serves
  todo,           \* the statements it has yet to send
  rid,            \* the id it uses, 0 while it has none
  seen,           \* the row it has read, NoPet if it read none
  answer,         \* its last answer
  posted          \* history: the ids that clients gave in a POST

work == <<req, todo, rid, seen, answer>>
vars == <<program, pet, seq, photos, posted, work>>

-----------------------------------------------------------------------------
(* The table is empty, or loaded; setval puts the sequence behind the rows. *)
Init ==
  /\ program \in Programs
  /\ seq \in 0..Loaded
  /\ pet \in {t \in [Ids -> Rows \cup {NoPet}] : \A i \in Ids : i > seq => t[i] = NoPet}
  /\ photos = {}
  /\ req = [w \in Workers |-> NoRequest]
  /\ todo = [w \in Workers |-> <<>>]
  /\ rid = [w \in Workers |-> 0]
  /\ seen = [w \in Workers |-> NoPet]
  /\ answer = [w \in Workers |-> "none"]
  /\ posted = {}

(* POST keeps an id the client gives, and does not move the sequence.     *)
PostedBy(r) == IF r.op = "add" /\ r.id # 0 THEN {r.id} ELSE {}

(* A request reaches a handler. *)
Call(w, r) ==
  /\ req[w] = NoRequest
  /\ req' = [req EXCEPT ![w] = r]
  /\ todo' = [todo EXCEPT ![w] = program[r.op]]
  /\ rid' = [rid EXCEPT ![w] = r.id]
  /\ answer' = [answer EXCEPT ![w] = "none"]
  /\ posted' = posted \cup PostedBy(r)
  /\ UNCHANGED <<program, pet, seq, photos, seen>>

(* Mutant: an answer is sent without return, the handler runs on. *)
Answer_WithoutReturn(w, a) ==
  /\ req' = [req EXCEPT ![w] = NoRequest]
  /\ rid' = [rid EXCEPT ![w] = 0]
  /\ seen' = [seen EXCEPT ![w] = NoPet]
  /\ answer' = [answer EXCEPT ![w] = a]
  /\ UNCHANGED todo

(* The handler of w answers a and is done. *)
Answer(w, a) ==
  /\ req' = [req EXCEPT ![w] = NoRequest]
  /\ todo' = [todo EXCEPT ![w] = <<>>]
  /\ rid' = [rid EXCEPT ![w] = 0]
  /\ seen' = [seen EXCEPT ![w] = NoPet]
  /\ answer' = [answer EXCEPT ![w] = a]

(* The handler goes on to its next statement, having used id i and read    *)
(* row; after the last one it answers 200.                                 *)
Proceed(w, i, row) ==
  IF Len(todo[w]) = 1 THEN Answer(w, "ok")
  ELSE /\ todo' = [todo EXCEPT ![w] = Tail(@)]
       /\ rid' = [rid EXCEPT ![w] = i]
       /\ seen' = [seen EXCEPT ![w] = row]
       /\ UNCHANGED <<req, answer>>

Sends(w, statements) == req[w] # NoRequest /\ Head(todo[w]) \in statements

(* The id of the row: the one of the request, or the next of the sequence. *)
Drawn(w) == IF rid[w] = 0 THEN seq + 1 ELSE rid[w]
DrawsFrom(w) == /\ rid[w] = 0 => seq < MaxId
                /\ seq' = IF rid[w] = 0 THEN seq + 1 ELSE seq

(* The columns that were sent, over what was read or else what is there.   *)
NewRow(w, i) ==
  LET row == IF seen[w] # NoPet THEN seen[w] ELSE pet[i]
  IN [f \in Fields |-> IF req[w].new[f] = Keep THEN row[f] ELSE req[w].new[f]]

-----------------------------------------------------------------------------
(* SELECT nextval('pet_id_seq'), or the counter the Java stacks keep, for  *)
(* a pet without an id.                                                    *)
Nextval(w) ==
  /\ Sends(w, {"nextval", "nextvalOr1"})
  /\ DrawsFrom(w)
  /\ Proceed(w, Drawn(w), seen[w])
  /\ UNCHANGED <<program, posted, pet, photos>>

(* The same for every pet, used or not. *)
NextvalAlways(w) ==
  /\ Sends(w, {"nextvalAlways"})
  /\ seq < MaxId
  /\ seq' = seq + 1
  /\ Proceed(w, Drawn(w), seen[w])
  /\ UNCHANGED <<program, posted, pet, photos>>

(* INSERT ... ON CONFLICT (id) DO UPDATE; COALESCE(id, nextval(..)) draws  *)
(* the id in the same statement when the request has none.                 *)
Upsert(w) ==
  /\ Sends(w, {"upsert"})
  /\ DrawsFrom(w)
  /\ pet' = [pet EXCEPT ![Drawn(w)] = NewRow(w, Drawn(w))]
  /\ Proceed(w, Drawn(w), seen[w])
  /\ UNCHANGED <<program, posted, photos>>

(* INSERT without ON CONFLICT: a duplicate key is an error. *)
Insert(w) ==
  /\ Sends(w, {"insert"})
  /\ DrawsFrom(w)
  /\ IF pet[Drawn(w)] = NoPet
     THEN /\ pet' = [pet EXCEPT ![Drawn(w)] = NewRow(w, Drawn(w))]
          /\ Proceed(w, Drawn(w), seen[w])
     ELSE Answer(w, "refused") /\ UNCHANGED pet
  /\ UNCHANGED <<program, posted, photos>>

(* SELECT ... WHERE id: 404 when there is no row; "fetch" dereferences it. *)
Select(w) ==
  /\ Sends(w, {"select", "fetch"})
  /\ IF pet[rid[w]] # NoPet THEN Proceed(w, rid[w], pet[rid[w]])
     ELSE Answer(w, IF Head(todo[w]) = "fetch" THEN "crash" ELSE "notFound")
  /\ UNCHANGED <<program, posted, pet, seq, photos>>

(* UPDATE ... WHERE id: what becomes of an update of no row depends on     *)
(* whether the code looks at the row count or at the returned row.         *)
NothingUpdated(w) ==
  CASE Head(todo[w]) = "update" -> Answer(w, "notFound")
    [] Head(todo[w]) = "updateAny" -> Proceed(w, rid[w], seen[w])
    [] Head(todo[w]) = "updateReturning" -> Answer(w, "crash")

Update(w) ==
  /\ Sends(w, {"update", "updateAny", "updateReturning"})
  /\ IF pet[rid[w]] = NoPet
     THEN NothingUpdated(w) /\ UNCHANGED pet
     ELSE /\ pet' = [pet EXCEPT ![rid[w]] = NewRow(w, rid[w])]
          /\ Proceed(w, rid[w], seen[w])
  /\ UNCHANGED <<program, posted, seq, photos>>

(* DELETE ... WHERE id, with or without a look at the row count. *)
Delete(w) ==
  /\ Sends(w, {"delete", "deleteChecked"})
  /\ pet' = [pet EXCEPT ![rid[w]] = NoPet]
  /\ IF Head(todo[w]) = "deleteChecked" /\ pet[rid[w]] = NoPet
     THEN Answer(w, "notFound")
     ELSE Proceed(w, rid[w], seen[w])
  /\ UNCHANGED <<program, posted, seq, photos>>

(* INSERT INTO pet_photo, unconditionally or FROM pet WHERE id. *)
Photo(w) ==
  /\ Sends(w, {"photo", "photoIfPet"})
  /\ IF Head(todo[w]) = "photoIfPet" /\ pet[rid[w]] = NoPet
     THEN Answer(w, "notFound") /\ UNCHANGED photos
     ELSE photos' = photos \cup {rid[w]} /\ Proceed(w, rid[w], seen[w])
  /\ UNCHANGED <<program, posted, pet, seq>>

(* The database refuses or drops the statement. *)
StatementFails(w) ==
  /\ req[w] # NoRequest
  /\ IF Head(todo[w]) = "nextvalOr1" /\ rid[w] = 0
     THEN Proceed(w, 1, seen[w])
     ELSE Answer(w, "error")
  /\ UNCHANGED <<program, posted, pet, seq, photos>>

Step(w) ==
  \/ Nextval(w) \/ NextvalAlways(w) \/ Upsert(w) \/ Insert(w) \/ Select(w)
  \/ Update(w) \/ Delete(w) \/ Photo(w) \/ StatementFails(w)

Next == \E w \in Workers : Step(w) \/ \E r \in Requests : Call(w, r)

Spec == Init /\ [][Next]_vars
-----------------------------------------------------------------------------
(* Every variable has its type, and a worker has statements to send        *)
(* exactly while it serves a request.                                      *)
TypeOK ==
  /\ program \in Programs
  /\ pet \in [Ids -> Rows \cup {NoPet}]
  /\ seq \in 0..MaxId
  /\ photos \subseteq Ids
  /\ req \in [Workers -> Requests \cup {NoRequest}]
  /\ todo \in [Workers -> Seq(Statements)]
  /\ \A w \in Workers : todo[w] = <<>> <=> req[w] = NoRequest
  /\ rid \in [Workers -> 0..MaxId]
  /\ seen \in [Workers -> Rows \cup {NoPet}]
  /\ answer \in [Workers -> Answers]
  /\ posted \subseteq Ids

(* A deleted pet stays deleted: only a POST brings an id into the table,   *)
(* never a PUT or a form that read the pet before it was deleted.          *)
UpdatesNeverCreate ==
  [][\A i \in Ids : program \in UpdateOnly /\ pet[i] = NoPet /\ pet'[i] # NoPet =>
       \E w \in Workers : req[w] # NoRequest /\ req[w].op = "add" /\ todo'[w] # todo[w]]_vars

(* No lost update: a form that sends one field leaves the other one as it  *)
(* is at that moment, also when another request has just changed it.       *)
FormsKeepOtherFields ==
  [][\A w \in Workers :
       (program \in FieldWise /\ req[w] # NoRequest /\ todo'[w] # todo[w] /\ req[w].op = "form") =>
          LET i == req[w].id IN
          (pet[i] # NoPet /\ pet'[i] # NoPet) =>
             \A f \in Fields : req[w].new[f] = Keep => pet'[i][f] = pet[i][f]]_vars

(* An id the server chose hits a row. *)
Replaced(i) ==
  /\ program \in FreshIds /\ pet[i] # NoPet /\ pet'[i] # pet[i]
  /\ ~\E w \in Workers : req[w] # NoRequest /\ req[w].id = i /\ todo'[w] # todo[w]

(* A row changes without a request that names it only if some client gave  *)
(* its id in a POST: never a pet that was loaded, or that another POST got *)
(* its id for, whatever statements fall in between.                        *)
OnlyPostedPetsAreReplaced == [][\A i \in Ids : Replaced(i) => i \in posted]_vars

(* Ids made by the server are free of collisions, as the schema says: an   *)
(* id handed out is never that of a row.                                   *)
IdsDoNotCollide == [][\A i \in Ids : ~Replaced(i)]_vars

(* A photo is only ever stored for a pet that exists at that moment. *)
PhotosOfExistingPets ==
  [][\A i \in photos' \ photos : program \in PhotoChecked => pet[i] # NoPet]_vars

(* No request dies of a row that another request deleted between two of    *)
(* its statements: a pet that is not there is answered with 404.           *)
NoNullDereference == \A w \in Workers : answer[w] # "crash"

(* The stack implements the API: every request takes effect at one moment  *)
(* (Api!Spec, of the stacks of which it is claimed).                       *)
Api == INSTANCE PetstoreApi

ImplementsApi ==
  /\ program \in OneStep => Api!Init
  /\ [][(program \in OneStep) => Api!Next]_(Api!vars)
=============================================================================
