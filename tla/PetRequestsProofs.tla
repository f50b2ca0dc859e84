------------------------- MODULE PetRequestsProofs --------------------------
(***************************************************************************)
(* Proofs about PetRequests, for every number of requests, every table and *)
(* every set of well-formed programs.                                      *)
(***************************************************************************)
EXTENDS PetRequests, StepLemmas, TLAPS

Serving(w) == req[w] # NoRequest

(* What a request has when it comes to its next statement: the id it needs *)
(* and, if it is a form that will write a whole row, the row it has read.  *)
Ready(w) ==
  Serving(w) =>
    /\ req[w].op = "add" /\ rid[w] = 0 => Head(todo[w]) \in Draws
    /\ req[w].op # "add" => rid[w] = req[w].id
    /\ req[w].op = "form" =>
         seen[w] # NoPet \/ Head(todo[w]) = "select" \/ Without(todo[w], Creates)
    /\ req[w].op \in {"delete", "photo"} => Without(todo[w], Creates \cup Updates)

TypeInv == TypeOK /\ \A w \in Workers : Ready(w)

(* The part of TypeOK that is about one worker.                            *)
WorkerType(w) ==
  /\ req[w] \in Requests \cup {NoRequest}
  /\ todo[w] \in Seq(Statements)
  /\ todo[w] = <<>> <=> req[w] = NoRequest
  /\ rid[w] \in 0..MaxId
  /\ seen[w] \in Rows \cup {NoPet}
  /\ answer[w] \in Answers

(* A step of w that keeps the types of what w has.                         *)
LEMMA WorkTypes ==
  ASSUME TypeOK, NEW w \in Workers,
         NEW r \in Requests \cup {NoRequest}, NEW s \in Seq(Statements),
         s = <<>> <=> r = NoRequest,
         NEW i \in 0..MaxId, NEW row \in Rows \cup {NoPet}, NEW a \in Answers,
         req' = [req EXCEPT ![w] = r], todo' = [todo EXCEPT ![w] = s],
         rid' = [rid EXCEPT ![w] = i], seen' = [seen EXCEPT ![w] = row],
         answer' = [answer EXCEPT ![w] = a]
  PROVE  /\ req' \in [Workers -> Requests \cup {NoRequest}]
         /\ todo' \in [Workers -> Seq(Statements)]
         /\ \A u \in Workers : todo'[u] = <<>> <=> req'[u] = NoRequest
         /\ rid' \in [Workers -> 0..MaxId]
         /\ seen' \in [Workers -> Rows \cup {NoPet}]
         /\ answer' \in [Workers -> Answers]
  BY DEF TypeOK

(* What the fields of a request are.                                       *)
LEMMA RequestFields ==
  ASSUME NEW r \in Requests
  PROVE  /\ r.op \in Operations /\ r.id \in 0..MaxId
         /\ r.op # "add" => r.id \in Ids
         /\ r.op \in {"add", "put"} => r.new \in Rows
         /\ r.op = "form" => r.new \in Forms
  <1>1. Ids \cup {0} \subseteq 0..MaxId
    BY PetBounds DEF Ids
  <1>2. CASE r \in [op : {"add"}, id : Ids \cup {0}, new : Rows]
    BY <1>1, <1>2 DEF Operations
  <1>3. CASE r \in [op : {"put"}, id : Ids, new : Rows]
    BY <1>1, <1>3 DEF Operations
  <1>4. CASE r \in [op : {"form"}, id : Ids, new : Forms]
    BY <1>1, <1>4 DEF Operations
  <1>5. CASE r \in [op : {"delete", "photo"}, id : Ids, new : {Keep}]
    BY <1>1, <1>5 DEF Operations
  <1> QED BY <1>2, <1>3, <1>4, <1>5 DEF Requests

(* The sequence without its first statement has no statement it had not.   *)
LEMMA WithoutInTail ==
  ASSUME NEW s \in Seq(Statements), s # <<>>, NEW S, Without(s, S)
  PROVE  Without(Tail(s), S) /\ Head(s) \notin S
  <1>1. /\ Len(s) \in Nat \ {0} /\ Len(Tail(s)) = Len(s) - 1
        /\ \A i \in 1..Len(Tail(s)) : Tail(s)[i] = s[i + 1]
        /\ Head(s) = s[1]
    BY TailKeeps
  <1>2. \A i \in 1..Len(Tail(s)) : i + 1 \in 1..Len(s)
    BY <1>1
  <1> QED BY <1>1, <1>2 DEF Without

(* How a worker is after it answers.                                       *)
LEMMA AnswerFacts ==
  ASSUME TypeInv, NEW w \in Workers, NEW a \in Answers, Answer(w, a)
  PROVE  /\ req' \in [Workers -> Requests \cup {NoRequest}]
         /\ todo' \in [Workers -> Seq(Statements)]
         /\ \A u \in Workers : todo'[u] = <<>> <=> req'[u] = NoRequest
         /\ rid' \in [Workers -> 0..MaxId]
         /\ seen' \in [Workers -> Rows \cup {NoPet}]
         /\ answer' \in [Workers -> Answers]
         /\ \A u \in Workers : u # w =>
              req'[u] = req[u] /\ todo'[u] = todo[u] /\ rid'[u] = rid[u] /\ seen'[u] = seen[u]
         /\ req'[w] = NoRequest /\ todo'[w] = <<>>
  <1>1. <<>> \in Seq(Statements) /\ 0 \in 0..MaxId
    BY PetBounds
  <1>2. TypeOK
    BY DEF TypeInv
  <1>3. /\ req' = [req EXCEPT ![w] = NoRequest] /\ todo' = [todo EXCEPT ![w] = <<>>]
        /\ rid' = [rid EXCEPT ![w] = 0] /\ seen' = [seen EXCEPT ![w] = NoPet]
        /\ answer' = [answer EXCEPT ![w] = a]
    BY DEF Answer
  <1>4. /\ req' \in [Workers -> Requests \cup {NoRequest}]
        /\ todo' \in [Workers -> Seq(Statements)]
        /\ \A u \in Workers : todo'[u] = <<>> <=> req'[u] = NoRequest
        /\ rid' \in [Workers -> 0..MaxId]
        /\ seen' \in [Workers -> Rows \cup {NoPet}]
        /\ answer' \in [Workers -> Answers]
    BY <1>1, <1>2, <1>3, WorkTypes
  <1> QED BY <1>2, <1>3, <1>4 DEF TypeOK

(* How a worker is after a statement: done, or at the next one.            *)
LEMMA ProceedFacts ==
  ASSUME TypeInv, NEW w \in Workers, Serving(w),
         NEW i \in 0..MaxId, NEW row \in Rows \cup {NoPet}, Proceed(w, i, row)
  PROVE  /\ req' \in [Workers -> Requests \cup {NoRequest}]
         /\ todo' \in [Workers -> Seq(Statements)]
         /\ \A u \in Workers : todo'[u] = <<>> <=> req'[u] = NoRequest
         /\ rid' \in [Workers -> 0..MaxId]
         /\ seen' \in [Workers -> Rows \cup {NoPet}]
         /\ answer' \in [Workers -> Answers]
         /\ \A u \in Workers : u # w =>
              req'[u] = req[u] /\ todo'[u] = todo[u] /\ rid'[u] = rid[u] /\ seen'[u] = seen[u]
         /\ \/ req'[w] = NoRequest /\ todo'[w] = <<>>
            \/ /\ req'[w] = req[w] /\ todo'[w] = Tail(todo[w])
               /\ rid'[w] = i /\ seen'[w] = row
  <1>1. CASE Len(todo[w]) = 1
    BY <1>1, AnswerFacts DEF Proceed, Answers
  <1>2. CASE Len(todo[w]) # 1
    <2>1. TypeOK /\ todo[w] \in Seq(Statements) /\ todo[w] # <<>>
      BY DEF TypeInv, TypeOK, Serving
    <2>2. Tail(todo[w]) \in Seq(Statements) /\ Tail(todo[w]) # <<>>
      BY <1>2, <2>1, TailOfMore
    <2>3. /\ req' = [req EXCEPT ![w] = req[w]] /\ todo' = [todo EXCEPT ![w] = Tail(todo[w])]
          /\ rid' = [rid EXCEPT ![w] = i] /\ seen' = [seen EXCEPT ![w] = row]
          /\ answer' = [answer EXCEPT ![w] = answer[w]]
      BY <1>2, <2>1 DEF Proceed, TypeOK
    <2>4. req[w] \in Requests \cup {NoRequest} /\ answer[w] \in Answers /\ req[w] # NoRequest
      BY <2>1 DEF TypeOK, Serving
    <2>5. /\ req' \in [Workers -> Requests \cup {NoRequest}]
          /\ todo' \in [Workers -> Seq(Statements)]
          /\ \A u \in Workers : todo'[u] = <<>> <=> req'[u] = NoRequest
          /\ rid' \in [Workers -> 0..MaxId]
          /\ seen' \in [Workers -> Rows \cup {NoPet}]
          /\ answer' \in [Workers -> Answers]
      BY <2>1, <2>2, <2>3, <2>4, WorkTypes
    <2> QED BY <2>1, <2>3, <2>5 DEF TypeOK
  <1> QED BY <1>1, <1>2

(* The row a statement writes is a row.                                    *)
LEMMA NewRowType ==
  ASSUME TypeInv, NEW w \in Workers, Serving(w), NEW i \in Ids,
         Head(todo[w]) \in Creates \cup Updates,
         Head(todo[w]) \in Updates => pet[i] # NoPet
  PROVE  NewRow(w, i) \in Rows
  <1> DEFINE row == IF seen[w] # NoPet THEN seen[w] ELSE pet[i]
  <1>1. /\ req[w] \in Requests /\ todo[w] \in Seq(Statements) /\ todo[w] # <<>>
        /\ seen[w] \in Rows \cup {NoPet} /\ pet[i] \in Rows \cup {NoPet}
    BY DEF TypeInv, TypeOK, Serving
  <1>2. NewRow(w, i) = [f \in Fields |-> IF req[w].new[f] = Keep THEN row[f] ELSE req[w].new[f]]
    BY DEF NewRow
  <1>3. CASE req[w].op \in {"add", "put"}
    <2>1. req[w].new \in Rows
      BY <1>1, <1>3, RequestFields
    <2>2. \A f \in Fields : req[w].new[f] # Keep
      BY <2>1, PetModelValues DEF Rows, Fields
    <2>3. NewRow(w, i) = [f \in Fields |-> req[w].new[f]]
      BY <1>2, <2>2
    <2> QED BY <2>1, <2>3 DEF Rows, Fields
  <1>4. CASE req[w].op = "form"
    <2>1. req[w].new \in [name : Names \cup {Keep}, status : Statuses \cup {Keep}]
      BY <1>1, <1>4, RequestFields DEF Forms
    <2>2. seen[w] # NoPet \/ Head(todo[w]) = "select" \/ Without(todo[w], Creates)
      BY <1>4 DEF TypeInv, Ready
    <2>3. Without(todo[w], Creates) => Head(todo[w]) \notin Creates
      BY <1>1, WithoutInTail
    <2>4. row \in Rows
      BY <1>1, <2>2, <2>3 DEF Creates, Updates
    <2> QED BY <1>2, <2>1, <2>4 DEF Rows, Fields
  <1>5. CASE req[w].op \in {"delete", "photo"}
    BY <1>1, <1>5, WithoutInTail DEF TypeInv, Ready
  <1> QED BY <1>1, <1>3, <1>4, <1>5, RequestFields DEF Operations

(* A worker that has gone on with its id, or is done, is ready.            *)
LEMMA StaysReady ==
  ASSUME TypeInv, NEW w \in Workers, Serving(w),
         \A u \in Workers : u # w =>
            req'[u] = req[u] /\ todo'[u] = todo[u] /\ rid'[u] = rid[u] /\ seen'[u] = seen[u],
         \/ req'[w] = NoRequest
         \/ /\ req'[w] = req[w] /\ todo'[w] = Tail(todo[w])
            /\ rid'[w] # 0
            /\ req[w].op # "add" => rid'[w] = rid[w]
            /\ \/ seen'[w] = seen[w] /\ Head(todo[w]) # "select"
               \/ seen'[w] # NoPet
  PROVE  \A u \in Workers : Ready(u)'
  <1> SUFFICES ASSUME NEW u \in Workers PROVE Ready(u)'
    OBVIOUS
  <1>1. Ready(u)
    BY DEF TypeInv
  <1>2. CASE u # w
    <2>1. req'[u] = req[u] /\ todo'[u] = todo[u] /\ rid'[u] = rid[u] /\ seen'[u] = seen[u]
      BY <1>2
    <2> QED BY <1>1, <2>1 DEF Ready, Serving
  <1>3. CASE u = w /\ req'[w] = NoRequest
    BY <1>3 DEF Ready, Serving
  <1>4. CASE u = w /\ req'[w] # NoRequest
    <2>1. todo[w] \in Seq(Statements) /\ todo[w] # <<>>
      BY DEF TypeInv, TypeOK, Serving
    <2>2. /\ Without(todo[w], Creates) => Without(Tail(todo[w]), Creates)
          /\ Without(todo[w], Creates \cup Updates) => Without(Tail(todo[w]), Creates \cup Updates)
      BY <2>1, WithoutInTail
    <2> QED BY <1>1, <1>4, <2>2 DEF Ready, Serving
  <1> QED BY <1>2, <1>3, <1>4

(* Init.                                                                   *)
LEMMA InitTypes == Init => TypeInv
  <1> SUFFICES ASSUME Init PROVE TypeInv
    OBVIOUS
  <1>1. <<>> \in Seq(Statements) /\ 0 \in 0..MaxId
    BY PetBounds
  <1>2. seq \in 0..MaxId
    BY PetBounds DEF Init
  <1> QED BY <1>1, <1>2 DEF Init, TypeInv, TypeOK, Ready, Serving, Answers

(* A request reaches a handler.                                            *)
LEMMA CallTypes ==
  ASSUME TypeInv, NEW w \in Workers, NEW r \in Requests, Call(w, r)
  PROVE  TypeInv'
  <1>1. /\ r.op \in Operations /\ r.id \in 0..MaxId
        /\ r # NoRequest
    BY RequestFields, PetModelValues
  <1>2. WellFormed(program)
    BY PetPrograms DEF TypeInv, TypeOK
  <1>3. program[r.op] \in Seq(Statements) /\ program[r.op] # <<>>
    BY <1>1, <1>2 DEF WellFormed
  <1>4. /\ req' = [req EXCEPT ![w] = r] /\ todo' = [todo EXCEPT ![w] = program[r.op]]
        /\ rid' = [rid EXCEPT ![w] = r.id] /\ seen' = [seen EXCEPT ![w] = seen[w]]
        /\ answer' = [answer EXCEPT ![w] = "none"]
        /\ UNCHANGED <<program, pet, seq, photos>>
        /\ posted' = posted \cup PostedBy(r)
    BY DEF Call, TypeInv, TypeOK
  <1>5. TypeOK /\ seen[w] \in Rows \cup {NoPet} /\ "none" \in Answers
    BY DEF TypeInv, TypeOK, Answers
  <1>6. PostedBy(r) \subseteq Ids
    BY <1>1, PetBounds DEF PostedBy, Ids
  <1>8. TypeOK'
    BY <1>1, <1>3, <1>4, <1>5, <1>6, WorkTypes DEF TypeOK
  <1>7. ASSUME NEW u \in Workers PROVE Ready(u)'
    <2>1. CASE u # w
      <3>1. req'[u] = req[u] /\ todo'[u] = todo[u] /\ rid'[u] = rid[u] /\ seen'[u] = seen[u]
        BY <1>4, <1>5, <2>1 DEF TypeOK
      <3> QED BY <3>1 DEF TypeInv, Ready, Serving
    <2>2. CASE u = w
      <3>1. req'[w] = r /\ todo'[w] = program[r.op] /\ rid'[w] = r.id
        BY <1>4, <1>5 DEF TypeOK
      <3> QED BY <1>2, <2>2, <3>1 DEF Ready, Serving, WellFormed
    <2> QED BY <2>1, <2>2
  <1> QED BY <1>7, <1>8 DEF TypeInv

(* A statement that is not about a new id finds one.                       *)
LEMMA HasId ==
  ASSUME TypeInv, NEW w \in Workers, Serving(w), Head(todo[w]) \notin Draws
  PROVE  rid[w] \in Ids
  <1>1. req[w] \in Requests /\ rid[w] \in 0..MaxId
    BY DEF TypeInv, TypeOK, Serving
  <1>2. req[w].op # "add" => req[w].id \in Ids
    BY <1>1, RequestFields
  <1>3. req[w].op = "add" => rid[w] # 0
    BY DEF TypeInv, Ready
  <1>4. req[w].op # "add" => rid[w] = req[w].id
    BY DEF TypeInv, Ready
  <1> QED BY <1>1, <1>2, <1>3, <1>4, PetBounds DEF Ids

(* An id that is drawn, or given, is an id.                                *)
LEMMA DrawnType ==
  ASSUME TypeInv, NEW w \in Workers, Serving(w), DrawsFrom(w)
  PROVE  /\ Drawn(w) \in Ids /\ Drawn(w) \in 0..MaxId /\ Drawn(w) # 0
         /\ rid[w] # 0 => Drawn(w) = rid[w]
         /\ seq' \in 0..MaxId
  <1>1. rid[w] \in 0..MaxId /\ seq \in 0..MaxId
    BY DEF TypeInv, TypeOK
  <1> QED BY <1>1, PetBounds DEF Drawn, DrawsFrom, Ids

(* Requests other than a POST have their id from the start.                *)
LEMMA GivenIds ==
  ASSUME TypeInv, NEW w \in Workers, Serving(w), req[w].op # "add"
  PROVE  rid[w] \in Ids /\ rid[w] = req[w].id
  <1>1. req[w] \in Requests
    BY DEF TypeInv, TypeOK, Serving
  <1>2. rid[w] = req[w].id
    BY DEF TypeInv, Ready
  <1> QED BY <1>1, <1>2, RequestFields

(* Every statement keeps the types.                                        *)
LEMMA StepTypes ==
  ASSUME TypeInv, NEW w \in Workers, Step(w)
  PROVE  TypeInv'
  <1>1. Serving(w)
    BY DEF Step, Nextval, NextvalAlways, Upsert, Insert, Select, Update, Delete, Photo,
           StatementFails, Sends, Serving
  <1>2. /\ TypeOK /\ seen[w] \in Rows \cup {NoPet} /\ rid[w] \in 0..MaxId
        /\ todo[w] \in Seq(Statements) /\ todo[w] # <<>>
        /\ pet \in [Ids -> Rows \cup {NoPet}]
    BY <1>1 DEF TypeInv, TypeOK, Serving
  <1>3. ASSUME program' = program, posted' = posted, seq' \in 0..MaxId,
               pet' \in [Ids -> Rows \cup {NoPet}], photos' \subseteq Ids,
               \/ \E a \in Answers : Answer(w, a)
               \/ \E i \in 1..MaxId, row \in Rows \cup {NoPet} :
                    /\ Proceed(w, i, row)
                    /\ req[w].op # "add" => i = rid[w]
                    /\ \/ row = seen[w] /\ Head(todo[w]) # "select"
                       \/ row # NoPet
        PROVE  TypeInv'
    <2>1. CASE \E a \in Answers : Answer(w, a)
      <3>1. PICK a \in Answers : Answer(w, a)
        BY <2>1
      <3>2. TypeOK'
        BY <1>2, <1>3, <3>1, AnswerFacts DEF TypeOK
      <3>3. \A u \in Workers : Ready(u)'
        BY <1>1, <3>1, AnswerFacts, StaysReady
      <3> QED BY <3>2, <3>3 DEF TypeInv
    <2>2. CASE \E i \in 1..MaxId, row \in Rows \cup {NoPet} :
                 /\ Proceed(w, i, row)
                 /\ req[w].op # "add" => i = rid[w]
                 /\ \/ row = seen[w] /\ Head(todo[w]) # "select"
                    \/ row # NoPet
      <3>1. PICK i \in 1..MaxId, row \in Rows \cup {NoPet} :
                 /\ Proceed(w, i, row)
                 /\ req[w].op # "add" => i = rid[w]
                 /\ \/ row = seen[w] /\ Head(todo[w]) # "select"
                    \/ row # NoPet
        BY <2>2
      <3>2. i \in 0..MaxId /\ i # 0
        OBVIOUS
      <3>3. TypeOK'
        BY <1>1, <1>2, <1>3, <3>1, <3>2, ProceedFacts DEF TypeOK
      <3>4. \A u \in Workers : Ready(u)'
        BY <1>1, <3>1, <3>2, ProceedFacts, StaysReady
      <3> QED BY <3>3, <3>4 DEF TypeInv
    <2> QED BY <1>3, <2>1, <2>2
  <1>4. CASE Nextval(w)
    <2>1. DrawsFrom(w) /\ Proceed(w, Drawn(w), seen[w]) /\ Head(todo[w]) # "select"
          /\ UNCHANGED <<program, posted, pet, photos>>
      BY <1>4 DEF Nextval, Sends
    <2>2. Drawn(w) \in 1..MaxId /\ seq' \in 0..MaxId
      BY <1>1, <2>1, DrawnType DEF Ids
    <2>3. req[w].op # "add" => Drawn(w) = rid[w]
      BY <1>1, <2>1, DrawnType, GivenIds DEF Ids
    <2> QED BY <1>2, <1>3, <2>1, <2>2, <2>3 DEF TypeOK
  <1>5. CASE NextvalAlways(w)
    <2>1. seq < MaxId /\ seq' = seq + 1 /\ Proceed(w, Drawn(w), seen[w])
          /\ Head(todo[w]) # "select" /\ UNCHANGED <<program, posted, pet, photos>>
      BY <1>5 DEF NextvalAlways, Sends
    <2>2. Drawn(w) \in 1..MaxId /\ seq' \in 0..MaxId
      BY <1>2, <2>1, PetBounds DEF Drawn, TypeOK
    <2>3. req[w].op # "add" => Drawn(w) = rid[w]
      BY <1>1, GivenIds DEF Ids, Drawn
    <2> QED BY <1>2, <1>3, <2>1, <2>2, <2>3 DEF TypeOK
  <1>6. CASE Upsert(w) \/ Insert(w)
    <2>1. DrawsFrom(w) /\ Head(todo[w]) \in Creates /\ UNCHANGED <<program, posted, photos>>
      BY <1>6 DEF Upsert, Insert, Sends, Creates
    <2>2. Drawn(w) \in Ids /\ Drawn(w) \in 1..MaxId /\ seq' \in 0..MaxId
      BY <1>1, <2>1, DrawnType DEF Ids
    <2>3. req[w].op # "add" => Drawn(w) = rid[w]
      BY <1>1, <2>1, DrawnType, GivenIds DEF Ids
    <2>4. NewRow(w, Drawn(w)) \in Rows
      BY <1>1, <2>1, <2>2, NewRowType DEF Creates, Updates
    <2>5. pet' = [pet EXCEPT ![Drawn(w)] = NewRow(w, Drawn(w))] \/ pet' = pet
      BY <1>6 DEF Upsert, Insert
    <2>6. pet' \in [Ids -> Rows \cup {NoPet}]
      BY <1>2, <2>4, <2>5
    <2>7. Answer(w, "refused") \/ Proceed(w, Drawn(w), seen[w])
      BY <1>6 DEF Upsert, Insert
    <2> QED BY <1>2, <1>3, <2>1, <2>2, <2>3, <2>6, <2>7 DEF TypeOK, Creates, Answers
  <1>7. CASE Select(w)
    <2>1. Head(todo[w]) \notin Draws /\ UNCHANGED <<program, posted, pet, seq, photos>>
      BY <1>7 DEF Select, Sends, Draws
    <2>2. rid[w] \in Ids
      BY <1>1, <2>1, HasId
    <2>3. \/ Answer(w, "crash") \/ Answer(w, "notFound")
          \/ pet[rid[w]] # NoPet /\ Proceed(w, rid[w], pet[rid[w]])
      BY <1>7 DEF Select
    <2>4. pet[rid[w]] \in Rows \cup {NoPet} /\ rid[w] \in 1..MaxId
      BY <1>2, <2>2 DEF Ids
    <2>5. seq' \in 0..MaxId /\ pet' \in [Ids -> Rows \cup {NoPet}] /\ photos' \subseteq Ids
      BY <1>2, <2>1 DEF TypeOK
    <2> QED BY <1>3, <2>1, <2>3, <2>4, <2>5 DEF Answers
  <1>8. CASE Update(w)
    <2>1. Head(todo[w]) \notin Draws /\ Head(todo[w]) \in Updates /\ Head(todo[w]) # "select"
          /\ UNCHANGED <<program, posted, seq, photos>>
      BY <1>8 DEF Update, Sends, Draws, Updates
    <2>2. rid[w] \in Ids /\ rid[w] \in 1..MaxId
      BY <1>1, <2>1, HasId DEF Ids
    <2>3. Answer(w, "notFound") \/ Answer(w, "crash") \/ Proceed(w, rid[w], seen[w])
      BY <1>8 DEF Update, NothingUpdated, Sends
    <2>4. pet' = pet \/ (pet[rid[w]] # NoPet /\ pet' = [pet EXCEPT ![rid[w]] = NewRow(w, rid[w])])
      BY <1>8 DEF Update
    <2>5. pet[rid[w]] # NoPet => NewRow(w, rid[w]) \in Rows
      BY <1>1, <2>1, <2>2, NewRowType
    <2>6. pet' \in [Ids -> Rows \cup {NoPet}]
      BY <1>2, <2>4, <2>5
    <2> QED BY <1>2, <1>3, <2>1, <2>2, <2>3, <2>6 DEF TypeOK, Answers
  <1>9. CASE Delete(w)
    <2>1. Head(todo[w]) \notin Draws /\ Head(todo[w]) # "select"
          /\ UNCHANGED <<program, posted, seq, photos>>
          /\ pet' = [pet EXCEPT ![rid[w]] = NoPet]
      BY <1>9 DEF Delete, Sends, Draws
    <2>2. rid[w] \in Ids /\ rid[w] \in 1..MaxId
      BY <1>1, <2>1, HasId DEF Ids
    <2>3. Answer(w, "notFound") \/ Proceed(w, rid[w], seen[w])
      BY <1>9 DEF Delete
    <2> QED BY <1>2, <1>3, <2>1, <2>2, <2>3 DEF TypeOK, Answers
  <1>10. CASE Photo(w)
    <2>1. Head(todo[w]) \notin Draws /\ Head(todo[w]) # "select"
          /\ UNCHANGED <<program, posted, pet, seq>>
      BY <1>10 DEF Photo, Sends, Draws
    <2>2. rid[w] \in Ids /\ rid[w] \in 1..MaxId
      BY <1>1, <2>1, HasId DEF Ids
    <2>3. Answer(w, "notFound") \/ Proceed(w, rid[w], seen[w])
      BY <1>10 DEF Photo
    <2>4. photos' \subseteq Ids
      BY <1>2, <1>10, <2>2 DEF Photo, TypeOK
    <2> QED BY <1>2, <1>3, <2>1, <2>2, <2>3, <2>4 DEF TypeOK, Answers
  <1>11. CASE StatementFails(w)
    <2>1. \/ Answer(w, "error")
          \/ Head(todo[w]) = "nextvalOr1" /\ rid[w] = 0 /\ Proceed(w, 1, seen[w])
      BY <1>11 DEF StatementFails
    <2>2. rid[w] = 0 => req[w].op = "add"
      BY <1>1, GivenIds, PetBounds DEF Ids
    <2>3. 1 \in 1..MaxId
      BY PetBounds
    <2>4. UNCHANGED <<program, posted, pet, seq, photos>>
      BY <1>11 DEF StatementFails
    <2> QED BY <1>2, <1>3, <2>1, <2>2, <2>3, <2>4 DEF TypeOK, Answers
  <1> QED BY <1>4, <1>5, <1>6, <1>7, <1>8, <1>9, <1>10, <1>11 DEF Step

(* Types are an invariant.                                                 *)
LEMMA NextTypes == TypeInv /\ [Next]_vars => TypeInv'
  <1> SUFFICES ASSUME TypeInv, [Next]_vars PROVE TypeInv'
    OBVIOUS
  <1>1. CASE Next
    BY <1>1, CallTypes, StepTypes DEF Next
  <1>2. CASE UNCHANGED vars
    BY <1>2 DEF vars, work, TypeInv, TypeOK, Ready, Serving
  <1> QED BY <1>1, <1>2

(* Every variable keeps its type, for any well-formed programs.            *)
THEOREM TypeCorrect == Spec => []TypeOK
  <1>1. TypeInv => TypeOK
    BY DEF TypeInv
  <1> QED BY InitTypes, NextTypes, <1>1, PTL DEF Spec
=============================================================================
