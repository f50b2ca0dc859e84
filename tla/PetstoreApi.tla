---------------------------- MODULE PetstoreApi ----------------------------
(***************************************************************************)
(* What the Petstore API promises of its pets, whatever the stack: every   *)
(* request takes effect at one moment between its call and its answer. A   *)
(* POST with an id creates or replaces that pet, a POST without one makes  *)
(* a new pet or, if a client has taken the id it gets by a POST of its     *)
(* own, replaces that one; PUT and the form change an existing pet and nothing else,    *)
(* DELETE removes one. A request may also fail without effect.             *)
(***************************************************************************)
EXTENDS Naturals

CONSTANTS
  Workers,        \* requests that may be served at a time
  Ids,            \* pet ids
  Requests,       \* [op, id, new]; id = 0 for a POST without one
  NoRequest,      \* a worker that serves nothing
  NoPet,          \* no row with this id
  Keep            \* a form field that was not sent

VARIABLES
  pet,            \* the pets
  req,            \* the request each worker serves
  answer,         \* the last answer of each worker
  posted          \* the ids that clients gave in a POST

vars == <<pet, req, answer, posted>>

(* The row with the fields that were sent replaced. *)
Merged(row, new) == [f \in DOMAIN new |-> IF new[f] = Keep THEN row[f] ELSE new[f]]

Init ==
  /\ req = [w \in Workers |-> NoRequest]
  /\ answer = [w \in Workers |-> "none"]
  /\ posted = {}

PostedBy(r) == IF r.op = "add" /\ r.id # 0 THEN {r.id} ELSE {}

Call(w, r) ==
  /\ req[w] = NoRequest
  /\ req' = [req EXCEPT ![w] = r]
  /\ answer' = [answer EXCEPT ![w] = "none"]
  /\ posted' = posted \cup PostedBy(r)
  /\ UNCHANGED pet

(* The request of w is answered with a. *)
Answer(w, a) ==
  /\ req' = [req EXCEPT ![w] = NoRequest]
  /\ answer' = [answer EXCEPT ![w] = a]
  /\ UNCHANGED posted

PostNew(w) ==
  /\ req[w].op = "add"
  /\ req[w].id = 0
  /\ \E i \in Ids : /\ pet[i] = NoPet \/ i \in posted
                    /\ pet' = [pet EXCEPT ![i] = req[w].new]
  /\ Answer(w, "ok")

PostGiven(w) ==
  /\ req[w].op = "add"
  /\ req[w].id # 0
  /\ pet' = [pet EXCEPT ![req[w].id] = req[w].new]
  /\ Answer(w, "ok")

(* PUT, or the form: an existing pet gets the fields that were sent. *)
Change(w) ==
  /\ req[w].op \in {"put", "form"}
  /\ pet[req[w].id] # NoPet
  /\ pet' = [pet EXCEPT ![req[w].id] = Merged(pet[req[w].id], req[w].new)]
  /\ Answer(w, "ok")

Delete(w) ==
  /\ req[w].op = "delete"
  /\ pet' = [pet EXCEPT ![req[w].id] = NoPet]
  /\ \/ Answer(w, "ok")
     \/ pet[req[w].id] = NoPet /\ Answer(w, "notFound")

(* An answer "notFound" is about a pet that is not there at this moment.   *)
(* The form and the upload may also be accepted and ignored.               *)
NotFound(w) ==
  /\ req[w].op \in {"put", "form", "photo"}
  /\ pet[req[w].id] = NoPet
  /\ \/ Answer(w, "notFound")
     \/ req[w].op # "put" /\ Answer(w, "ok")
  /\ UNCHANGED pet

Upload(w) ==
  /\ req[w].op = "photo"
  /\ Answer(w, "ok")
  /\ UNCHANGED pet

(* A POST may be refused because the id is taken; anything may fail. *)
Fail(w) ==
  /\ req[w] # NoRequest
  /\ \/ Answer(w, "error")
     \/ req[w].op = "add" /\ Answer(w, "refused")
  /\ UNCHANGED pet

Perform(w) ==
  \/ PostNew(w) \/ PostGiven(w) \/ Change(w) \/ Delete(w)
  \/ NotFound(w) \/ Upload(w) \/ Fail(w)

Next ==
  \E w \in Workers :
    \/ \E r \in Requests : Call(w, r)
    \/ req[w] # NoRequest /\ Perform(w)

Spec == Init /\ [][Next]_vars
=============================================================================
