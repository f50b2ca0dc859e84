--------------------------- MODULE PetSafetyProofs ---------------------------
(***************************************************************************)
(* The safety properties of PetRequests, each for every set of stacks with *)
(* the shape of programs it depends on.                                    *)
(***************************************************************************)
EXTENDS PetRequestsProofs, StackPrograms

(* What a statement does to its worker, and that it is no one else's step. *)
LEMMA StepOutcome ==
  ASSUME TypeInv, NEW w \in Workers, Step(w)
  PROVE  /\ Serving(w) /\ program' = program /\ posted' = posted
         /\ todo[w] \in Seq(Statements) /\ todo[w] # <<>> /\ todo'[w] # todo[w]
         /\ \A u \in Workers : u # w =>
              req'[u] = req[u] /\ todo'[u] = todo[u] /\ rid'[u] = rid[u] /\ seen'[u] = seen[u]
         /\ \/ req'[w] = NoRequest /\ seen'[w] = NoPet
            \/ /\ req'[w] = req[w] /\ todo'[w] = Tail(todo[w])
               /\ rid[w] # 0 => rid'[w] = rid[w]
  <1>1. Serving(w) /\ program' = program /\ posted' = posted
    BY DEF Step, Nextval, NextvalAlways, Upsert, Insert, Select, Update, Delete, Photo,
           StatementFails, Sends, Serving
  <1>2. /\ TypeOK /\ seen[w] \in Rows \cup {NoPet} /\ rid[w] \in 0..MaxId
        /\ todo[w] \in Seq(Statements) /\ todo[w] # <<>>
        /\ seen \in [Workers -> Rows \cup {NoPet}]
        /\ pet \in [Ids -> Rows \cup {NoPet}]
    BY <1>1 DEF TypeInv, TypeOK, Serving
  <1>3. Tail(todo[w]) # todo[w]
    BY <1>2, TailIsOther
  <1>4. \A a \in Answers : Answer(w, a) => seen'[w] = NoPet
    BY <1>2 DEF Answer
  <1>5. ASSUME NEW a \in Answers, Answer(w, a)
        PROVE  /\ todo'[w] # todo[w] /\ req'[w] = NoRequest /\ seen'[w] = NoPet
               /\ \A u \in Workers : u # w =>
                    req'[u] = req[u] /\ todo'[u] = todo[u] /\ rid'[u] = rid[u] /\ seen'[u] = seen[u]
    BY <1>2, <1>4, <1>5, AnswerFacts
  <1>6. ASSUME NEW i \in 0..MaxId, NEW row \in Rows \cup {NoPet}, Proceed(w, i, row),
               rid[w] # 0 => i = rid[w]
        PROVE  /\ todo'[w] # todo[w]
               /\ \A u \in Workers : u # w =>
                    req'[u] = req[u] /\ todo'[u] = todo[u] /\ rid'[u] = rid[u] /\ seen'[u] = seen[u]
               /\ \/ req'[w] = NoRequest /\ seen'[w] = NoPet
                  \/ /\ req'[w] = req[w] /\ todo'[w] = Tail(todo[w])
                     /\ rid[w] # 0 => rid'[w] = rid[w]
    <2>1. CASE Len(todo[w]) = 1
      <3>1. Answer(w, "ok") /\ "ok" \in Answers
        BY <1>6, <2>1 DEF Proceed, Answers
      <3> QED BY <1>5, <3>1
    <2>2. CASE Len(todo[w]) # 1
      <3>1. /\ todo' = [todo EXCEPT ![w] = Tail(todo[w])] /\ rid' = [rid EXCEPT ![w] = i]
            /\ req' = req
        BY <1>6, <2>2 DEF Proceed
      <3>2. todo'[w] = Tail(todo[w]) /\ rid'[w] = i /\ req'[w] = req[w]
        BY <1>2, <3>1 DEF TypeOK
      <3>3. \A u \in Workers : u # w =>
               req'[u] = req[u] /\ todo'[u] = todo[u] /\ rid'[u] = rid[u] /\ seen'[u] = seen[u]
        BY <1>1, <1>6, ProceedFacts
      <3> QED BY <1>3, <1>6, <3>2, <3>3
    <2> QED BY <2>1, <2>2
  <1>7. \/ \E a \in Answers : Answer(w, a)
        \/ \E i \in 0..MaxId, row \in Rows \cup {NoPet} :
             Proceed(w, i, row) /\ (rid[w] # 0 => i = rid[w])
    <2>1. CASE Nextval(w) \/ Upsert(w) \/ Insert(w)
      <3>1. DrawsFrom(w) /\ (Answer(w, "refused") \/ Proceed(w, Drawn(w), seen[w]))
        BY <2>1 DEF Nextval, Upsert, Insert
      <3> QED BY <1>1, <1>2, <3>1, DrawnType DEF Answers
    <2>2. CASE NextvalAlways(w)
      <3>1. seq < MaxId /\ Proceed(w, Drawn(w), seen[w])
        BY <2>2 DEF NextvalAlways
      <3>2. Drawn(w) \in 0..MaxId /\ (rid[w] # 0 => Drawn(w) = rid[w])
        BY <1>2, <3>1, PetBounds DEF Drawn, TypeOK
      <3> QED BY <1>2, <3>1, <3>2
    <2>3. CASE Select(w)
      <3>1. Head(todo[w]) \notin Draws
        BY <2>3 DEF Select, Sends, Draws
      <3>2. rid[w] \in Ids
        BY <1>1, <3>1, HasId
      <3>3. \/ Answer(w, "crash") \/ Answer(w, "notFound") \/ Proceed(w, rid[w], pet[rid[w]])
        BY <2>3 DEF Select
      <3> QED BY <1>2, <3>2, <3>3 DEF Answers
    <2>4. CASE Update(w) \/ Delete(w) \/ Photo(w)
      <3>1. \/ Answer(w, "crash") \/ Answer(w, "notFound") \/ Proceed(w, rid[w], seen[w])
        BY <2>4 DEF Update, NothingUpdated, Sends, Delete, Photo
      <3> QED BY <1>2, <3>1 DEF Answers
    <2>5. CASE StatementFails(w)
      <3>1. Answer(w, "error") \/ (rid[w] = 0 /\ Proceed(w, 1, seen[w]))
        BY <2>5 DEF StatementFails
      <3> QED BY <1>2, <3>1, PetBounds DEF Answers
    <2> QED BY <2>1, <2>2, <2>3, <2>4, <2>5 DEF Step
  <1> QED BY <1>1, <1>2, <1>5, <1>6, <1>7

(* What a statement does to the table.                                     *)
LEMMA StepWrites ==
  ASSUME TypeInv, NEW w \in Workers, Step(w)
  PROVE  \/ pet' = pet
         \/ /\ Head(todo[w]) \in Creates /\ DrawsFrom(w) /\ Drawn(w) \in Ids
            /\ pet' = [pet EXCEPT ![Drawn(w)] = NewRow(w, Drawn(w))]
         \/ /\ Head(todo[w]) \in Updates /\ rid[w] \in Ids /\ pet[rid[w]] # NoPet
            /\ pet' = [pet EXCEPT ![rid[w]] = NewRow(w, rid[w])]
         \/ /\ Head(todo[w]) \in {"delete", "deleteChecked"} /\ rid[w] \in Ids
            /\ pet' = [pet EXCEPT ![rid[w]] = NoPet]
  <1>1. Serving(w)
    BY StepOutcome
  <1>2. CASE Upsert(w) \/ Insert(w)
    <2>1. Head(todo[w]) \in Creates /\ DrawsFrom(w)
      BY <1>2 DEF Upsert, Insert, Sends, Creates
    <2>2. Drawn(w) \in Ids
      BY <1>1, <2>1, DrawnType
    <2> QED BY <1>2, <2>1, <2>2 DEF Upsert, Insert
  <1>3. CASE Update(w)
    <2>1. Head(todo[w]) \in Updates /\ Head(todo[w]) \notin Draws
      BY <1>3 DEF Update, Sends, Updates, Draws
    <2>2. rid[w] \in Ids
      BY <1>1, <2>1, HasId
    <2> QED BY <1>3, <2>1, <2>2 DEF Update
  <1>4. CASE Delete(w)
    <2>1. Head(todo[w]) \in {"delete", "deleteChecked"} /\ Head(todo[w]) \notin Draws
      BY <1>4 DEF Delete, Sends, Draws
    <2>2. rid[w] \in Ids
      BY <1>1, <2>1, HasId
    <2> QED BY <1>4, <2>1, <2>2 DEF Delete
  <1>5. CASE Nextval(w) \/ NextvalAlways(w) \/ Select(w) \/ Photo(w) \/ StatementFails(w)
    BY <1>5 DEF Nextval, NextvalAlways, Select, Photo, StatementFails
  <1> QED BY <1>2, <1>3, <1>4, <1>5 DEF Step

-----------------------------------------------------------------------------
(* The request of w has none of these statements to send.                  *)
Spared(w, ops, statements) ==
  Serving(w) /\ req[w].op \in ops => Without(todo[w], statements)

(* Statements that no program has for an operation are never sent.         *)
LEMMA SparedStays ==
  ASSUME TypeInv, [Next]_vars, NEW ops \in SUBSET Operations, NEW statements,
         \A op \in ops : Without(program[op], statements),
         \A w \in Workers : Spared(w, ops, statements)
  PROVE  \A w \in Workers : Spared(w, ops, statements)'
  <1>1. ASSUME NEW u \in Workers, NEW r \in Requests, Call(u, r), NEW w \in Workers
        PROVE  Spared(w, ops, statements)'
    <2>1. TypeOK
      BY DEF TypeInv
    <2>2. /\ req' = [req EXCEPT ![u] = r] /\ todo' = [todo EXCEPT ![u] = program[r.op]]
      BY <1>1 DEF Call
    <2> QED BY <2>1, <2>2 DEF TypeOK, Spared, Serving
  <1>2. ASSUME NEW u \in Workers, Step(u), NEW w \in Workers
        PROVE  Spared(w, ops, statements)'
    <2>1. /\ todo[u] \in Seq(Statements) /\ todo[u] # <<>>
          /\ u # w => req'[w] = req[w] /\ todo'[w] = todo[w]
          /\ \/ req'[u] = NoRequest
             \/ req'[u] = req[u] /\ todo'[u] = Tail(todo[u])
      BY <1>2, StepOutcome
    <2>2. Without(todo[u], statements) => Without(Tail(todo[u]), statements)
      BY <2>1, WithoutInTail
    <2> QED BY <2>1, <2>2 DEF Spared, Serving
  <1>3. CASE UNCHANGED vars
    BY <1>3 DEF vars, work, Spared, Serving
  <1> QED BY <1>1, <1>2, <1>3 DEF Next

(* The stack stays the same.                                               *)
LEMMA SameProgram == [Next]_vars => program' = program
  BY DEF Next, vars, Call, Step, Nextval, NextvalAlways, Upsert, Insert, Select, Update, Delete,
         Photo, StatementFails

(* At the start nobody is served.                                          *)
LEMMA SparedInit ==
  ASSUME NEW ops, NEW statements, Init
  PROVE  \A w \in Workers : Spared(w, ops, statements)
  BY DEF Init, Spared, Serving

(* A deleted pet stays deleted, in every stack that creates rows in POST   *)
(* alone: a PUT or a form never brings it back, however they interleave.   *)
THEOREM DeletedStaysDeleted ==
  ASSUME \A p \in UpdateOnly : OnlyAddCreates(p)
  PROVE  Spec => UpdatesNeverCreate
  <1> DEFINE ops == Operations \ {"add"}
             Inv == program \in UpdateOnly => \A w \in Workers : Spared(w, ops, Creates)
             Step1 == \A i \in Ids : program \in UpdateOnly /\ pet[i] = NoPet /\ pet'[i] # NoPet =>
               \E w \in Workers : req[w] # NoRequest /\ req[w].op = "add" /\ todo'[w] # todo[w]
  <1>1. Init => Inv
    BY SparedInit
  <1>2. TypeInv /\ Inv /\ [Next]_vars => Inv'
    <2> SUFFICES ASSUME TypeInv, Inv, [Next]_vars, program' \in UpdateOnly PROVE Inv'
      OBVIOUS
    <2>1. program \in UpdateOnly
      BY SameProgram
    <2> QED BY <2>1, SparedStays DEF OnlyAddCreates
  <1>3. TypeInv /\ Inv /\ [Next]_vars => [Step1]_vars
    <2> SUFFICES ASSUME TypeInv, Inv, Next, program \in UpdateOnly, NEW i \in Ids, pet[i] = NoPet, pet'[i] # NoPet
                 PROVE  \E w \in Workers : /\ req[w] # NoRequest /\ req[w].op = "add"
                                           /\ todo'[w] # todo[w]
      OBVIOUS
    <2>1. PICK w \in Workers : Step(w)
      BY DEF Next, Call
    <2>2. Serving(w) /\ todo'[w] # todo[w] /\ todo[w] \in Seq(Statements) /\ todo[w] # <<>>
      BY <2>1, StepOutcome
    <2>3. Head(todo[w]) \in Creates
      BY <2>1, StepWrites DEF TypeInv, TypeOK
    <2>4. ~Without(todo[w], Creates)
      BY <2>2, <2>3, WithoutInTail
    <2>5. req[w].op \in Operations
      BY <2>2, RequestFields DEF TypeInv, TypeOK, Serving
    <2> QED BY <2>2, <2>4, <2>5 DEF Spared, Serving
  <1> QED BY <1>1, <1>2, <1>3, InitTypes, NextTypes, PTL DEF Spec, UpdatesNeverCreate

(* No photo is stored for a pet that is gone, in every stack that looks at *)
(* the pet in the statement that stores the photo.                         *)
THEOREM PhotosNeedPets ==
  ASSUME \A p \in PhotoChecked : PhotosChecked(p)
  PROVE  Spec => PhotosOfExistingPets
  <1> DEFINE Inv == program \in PhotoChecked => \A w \in Workers : Spared(w, Operations, {"photo"})
             Step1 == \A i \in photos' \ photos : program \in PhotoChecked => pet[i] # NoPet
  <1>1. Init => Inv
    BY SparedInit
  <1>2. TypeInv /\ Inv /\ [Next]_vars => Inv'
    <2> SUFFICES ASSUME TypeInv, Inv, [Next]_vars, program' \in PhotoChecked PROVE Inv'
      OBVIOUS
    <2>1. program \in PhotoChecked
      BY SameProgram
    <2> QED BY <2>1, SparedStays DEF PhotosChecked
  <1>3. TypeInv /\ Inv /\ [Next]_vars => [Step1]_vars
    <2> SUFFICES ASSUME TypeInv, Inv, Next, program \in PhotoChecked,
                        NEW i \in photos' \ photos
                 PROVE  pet[i] # NoPet
      OBVIOUS
    <2>1. PICK w \in Workers : Photo(w)
      BY DEF Next, Call, Step, Nextval, NextvalAlways, Upsert, Insert, Select, Update, Delete,
             StatementFails
    <2>2. Serving(w) /\ todo[w] \in Seq(Statements) /\ todo[w] # <<>>
      BY <2>1, StepOutcome DEF Step
    <2>3. req[w].op \in Operations
      BY <2>2, RequestFields DEF TypeInv, TypeOK, Serving
    <2>4. Head(todo[w]) # "photo"
      BY <2>2, <2>3, WithoutInTail DEF Spared
    <2> QED BY <2>1, <2>4 DEF Photo, Sends
  <1> QED BY <1>1, <1>2, <1>3, InitTypes, NextTypes, PTL DEF Spec, PhotosOfExistingPets

(* A request that has read no row writes over what is in the table.        *)
Unread(w) == ~Serving(w) \/ req[w].op = "form" => seen[w] = NoPet

(* No lost update between forms, in every stack whose form is written      *)
(* field by field: what a form did not send stays as it is.                *)
THEOREM FormsAreMerged ==
  ASSUME \A p \in FieldWise : FormsWriteFields(p)
  PROVE  Spec => FormsKeepOtherFields
  <1> DEFINE reads == Creates \cup {"select", "fetch"}
             Inv == program \in FieldWise =>
                      \A w \in Workers : Spared(w, {"form"}, reads) /\ Unread(w)
             Step1 == \A w \in Workers :
               (program \in FieldWise /\ req[w] # NoRequest /\ todo'[w] # todo[w] /\ req[w].op = "form") =>
                  LET i == req[w].id IN
                  (pet[i] # NoPet /\ pet'[i] # NoPet) =>
                     \A f \in Fields : req[w].new[f] = Keep => pet'[i][f] = pet[i][f]
  <1>1. Init => Inv
    BY SparedInit DEF Init, Unread
  <1>2. ASSUME TypeInv, Inv, [Next]_vars, program' \in FieldWise PROVE Inv'
    <2>0. program \in FieldWise
      BY <1>2, SameProgram
    <2>1. {"form"} \in SUBSET Operations
      BY DEF Operations
    <2>2. \A w \in Workers : Spared(w, {"form"}, reads)'
      BY <1>2, <2>0, <2>1, SparedStays DEF FormsWriteFields
    <2>3. ASSUME NEW u \in Workers, NEW r \in Requests, Call(u, r), NEW w \in Workers
          PROVE  Unread(w)'
      BY <1>2, <2>0, <2>3 DEF Call, TypeInv, TypeOK, Unread, Serving
    <2>4. ASSUME NEW u \in Workers, Step(u), NEW w \in Workers
          PROVE  Unread(w)'
      <3>1. CASE u # w
        BY <1>2, <2>0, <2>4, <3>1, StepOutcome DEF Unread, Serving
      <3>2. CASE u = w
        <4>0. Step(w)
          BY <2>4, <3>2
        <4>1. \/ req'[w] = NoRequest /\ seen'[w] = NoPet
              \/ req'[w] = req[w]
          BY <1>2, <4>0, StepOutcome
        <4>2. /\ Serving(w) /\ todo[w] \in Seq(Statements) /\ todo[w] # <<>>
          BY <1>2, <4>0, StepOutcome
        <4>3. req[w].op = "form" => Head(todo[w]) \notin reads
          BY <1>2, <2>0, <4>2, WithoutInTail DEF Spared
        <4>4. CASE Select(w)
          <5>1. req[w].op # "form"
            BY <4>3, <4>4 DEF Select, Sends
          <5> QED BY <4>1, <4>2, <5>1 DEF Unread, Serving
        <4>5. CASE ~Select(w)
          <5>1. seen \in [Workers -> Rows \cup {NoPet}]
            BY <1>2 DEF TypeInv, TypeOK
          <5>2. seen'[w] = NoPet \/ seen'[w] = seen[w]
            BY <4>0, <4>5, <5>1
               DEF Step, Nextval, NextvalAlways, Upsert, Insert, Update, NothingUpdated, Delete,
                   Photo, StatementFails, Proceed, Answer, Sends
          <5> QED BY <1>2, <2>0, <4>1, <4>2, <5>2 DEF Unread, Serving
        <4> QED BY <4>4, <4>5
      <3> QED BY <3>1, <3>2
    <2>5. UNCHANGED vars => \A w \in Workers : Unread(w)'
      BY <1>2, <2>0 DEF vars, work, Unread, Serving
    <2>6. \A w \in Workers : Unread(w)'
      BY <1>2, <2>3, <2>4, <2>5 DEF Next
    <2> QED BY <2>2, <2>6
  <1>3. TypeInv /\ Inv /\ [Next]_vars => [Step1]_vars
    <2> SUFFICES ASSUME TypeInv, Inv, Next, program \in FieldWise, NEW w \in Workers,
                        Serving(w), todo'[w] # todo[w], req[w].op = "form",
                        pet[req[w].id] # NoPet, pet'[req[w].id] # NoPet,
                        NEW f \in Fields, req[w].new[f] = Keep
                 PROVE  pet'[req[w].id][f] = pet[req[w].id][f]
      BY DEF Serving
    <2>1. Step(w)
      <3>1. PICK u \in Workers : Step(u) \/ \E r \in Requests : Call(u, r)
        BY DEF Next
      <3>2. Step(u) /\ u # w => todo'[w] = todo[w]
        BY StepOutcome
      <3>3. ASSUME NEW r \in Requests, Call(u, r) PROVE FALSE
        BY <3>3 DEF Call, Serving, TypeInv, TypeOK
      <3> QED BY <3>1, <3>2, <3>3
    <2>2. /\ todo[w] \in Seq(Statements) /\ todo[w] # <<>>
          /\ rid[w] \in Ids /\ rid[w] = req[w].id
      BY <2>1, StepOutcome, GivenIds
    <2>3. Head(todo[w]) \notin Creates /\ seen[w] = NoPet
      BY <2>2, WithoutInTail DEF Spared, Unread
    <2>4. \/ pet' = pet \/ pet' = [pet EXCEPT ![rid[w]] = NewRow(w, rid[w])]
          \/ pet' = [pet EXCEPT ![rid[w]] = NoPet]
      BY <2>1, <2>3, StepWrites
    <2>5. NewRow(w, rid[w])[f] = pet[rid[w]][f]
      BY <2>3 DEF NewRow
    <2> QED BY <2>2, <2>4, <2>5 DEF TypeInv, TypeOK
  <1>4. TypeInv /\ Inv /\ [Next]_vars => Inv'
    BY <1>2
  <1> QED BY <1>1, <1>3, <1>4, InitTypes, NextTypes, PTL DEF Spec, FormsKeepOtherFields

-----------------------------------------------------------------------------
(* Ids from the sequence. First, what becomes of the statements of a POST  *)
(* and of the ids they use.                                                *)
SeqStatements == {"nextvalOr1", "delete", "deleteChecked"} \cup Updates

WritesOnce(s) == \A i, j \in 1..Len(s) : s[i] \in Creates /\ s[j] \in Creates => i = j

(* A request that may still write a row under the id it uses.              *)
MayWrite(w) ==
  /\ Serving(w) /\ rid[w] # 0 /\ ~Without(todo[w], Creates)
  /\ req[w].op = "add" \/ seen[w] # NoPet

(* A POST that has drawn its id and has not yet written its row.           *)
Fresh(w) == MayWrite(w) /\ req[w].op = "add" /\ req[w].id = 0

(* The shape of the statements that are left.                              *)
Shape(w) ==
  /\ Serving(w) /\ req[w].op = "add" => Without(todo[w], SeqStatements) /\ WritesOnce(todo[w])
  /\ Serving(w) /\ req[w].op \in {"put", "form"} =>
       seen[w] # NoPet \/ Head(todo[w]) = "select" \/ Without(todo[w], Creates)
  /\ Serving(w) /\ req[w].op = "add" /\ req[w].id # 0 => rid[w] = req[w].id
  /\ ~Serving(w) => seen[w] = NoPet

(* The sequence is beyond every row and every id that may yet be written,  *)
(* but for those that clients have given; an id it has handed out is no    *)
(* one else's, unless a client has given it too.                           *)
Known(i) == i <= seq \/ i \in posted

OwnId(w) ==
  /\ rid[w] <= seq
  /\ pet[rid[w]] = NoPet \/ rid[w] \in posted
  /\ \A u \in Workers : u # w /\ MayWrite(u) => rid[u] # rid[w] \/ rid[w] \in posted

IdInv ==
  /\ \A i \in Ids : pet[i] # NoPet => Known(i)
  /\ \A w \in Workers : MayWrite(w) => Known(rid[w])
  /\ \A w \in Workers : Fresh(w) => OwnId(w)

SeqInv == TypeInv /\ IdInv /\ \A w \in Workers : Shape(w)

LEMMA SeqInit ==
  ASSUME Init PROVE SeqInv
  <1>1. TypeInv
    BY InitTypes
  <1>2. \A w \in Workers : ~Serving(w) /\ seen[w] = NoPet
    BY DEF Init, Serving
  <1>3. seq \in Nat /\ \A i \in Ids : i \in Nat
    BY PetBounds DEF Init, Ids
  <1>4. \A i \in Ids : pet[i] # NoPet => i <= seq
    BY <1>3 DEF Init
  <1> QED BY <1>1, <1>2, <1>4 DEF SeqInv, IdInv, Known, Shape, MayWrite, Fresh, Serving

(* What is left after a statement writes no more than there was to write.  *)
LEMMA OnceInTail ==
  ASSUME NEW s \in Seq(Statements), s # <<>>, WritesOnce(s)
  PROVE  WritesOnce(Tail(s)) /\ (Head(s) \in Creates => Without(Tail(s), Creates))
  <1>1. /\ Len(s) \in Nat \ {0} /\ Len(Tail(s)) = Len(s) - 1
        /\ \A i \in 1..Len(Tail(s)) : Tail(s)[i] = s[i + 1]
        /\ Head(s) = s[1]
    BY TailKeeps
  <1>2. /\ 1 \in 1..Len(s)
        /\ \A i \in 1..Len(Tail(s)) : i + 1 \in 1..Len(s) /\ i + 1 # 1
    BY <1>1
  <1>3. \A i, j \in 1..Len(Tail(s)) : i + 1 = j + 1 => i = j
    BY <1>1
  <1>4. WritesOnce(Tail(s))
    BY <1>1, <1>2, <1>3 DEF WritesOnce
  <1>5. Head(s) \in Creates => Without(Tail(s), Creates)
    BY <1>1, <1>2 DEF WritesOnce, Without
  <1> QED BY <1>4, <1>5

(* A request reaches a handler of a stack that draws fresh ids.            *)
LEMMA SeqCall ==
  ASSUME SeqInv, NEW w \in Workers, NEW r \in Requests, Call(w, r), DrawsFreshIds(program)
  PROVE  SeqInv'
  <1>1. TypeInv'
    BY CallTypes DEF SeqInv
  <1>2. r.op \in Operations /\ r.id \in 0..MaxId /\ r # NoRequest
    BY RequestFields, PetModelValues
  <1>3. /\ UNCHANGED <<program, pet, seq, photos, seen>>
        /\ posted \subseteq posted'
        /\ r.op = "add" /\ r.id # 0 => r.id \in posted'
        /\ req'[w] = r /\ todo'[w] = program[r.op] /\ rid'[w] = r.id /\ seen'[w] = NoPet
        /\ \A u \in Workers : u # w => req'[u] = req[u] /\ todo'[u] = todo[u] /\ rid'[u] = rid[u]
        /\ ~Serving(w)
    BY DEF Call, PostedBy, SeqInv, TypeInv, TypeOK, Shape, Serving
  <1>4. WellFormed(program) /\ DrawsFreshIds(program)
    BY PetPrograms DEF SeqInv, TypeInv, TypeOK
  <1>5. \A u \in Workers : Shape(u)'
    <2>1. Shape(w)'
      BY <1>2, <1>3, <1>4 DEF Shape, Serving, DrawsFreshIds, SeqStatements, WritesOnce
    <2>2. \A u \in Workers : u # w => Shape(u)'
      BY <1>3 DEF SeqInv, Shape, Serving
    <2> QED BY <2>1, <2>2
  <1>6. /\ ~Fresh(w)' /\ ~MayWrite(w)
        /\ MayWrite(w)' => rid'[w] \in posted'
        /\ \A u \in Workers : u # w => (MayWrite(u)' <=> MayWrite(u)) /\ (Fresh(u)' <=> Fresh(u))
    BY <1>2, <1>3 DEF MayWrite, Fresh, Serving
  <1>7. \A i \in Ids : pet'[i] # NoPet => Known(i)'
    BY <1>3 DEF SeqInv, IdInv, Known
  <1>8. \A u \in Workers : MayWrite(u)' => Known(rid[u])'
    BY <1>3, <1>6 DEF SeqInv, IdInv, Known
  <1>9. ASSUME NEW u \in Workers, Fresh(u)' PROVE OwnId(u)'
    <2>1. u # w /\ Fresh(u) /\ OwnId(u) /\ rid'[u] = rid[u]
      BY <1>3, <1>6, <1>9 DEF SeqInv, IdInv
    <2>2. ASSUME NEW v \in Workers, v # u, MayWrite(v)'
          PROVE  rid'[v] # rid'[u] \/ rid'[u] \in posted'
      <3>1. CASE v = w
        BY <1>6, <2>2, <3>1
      <3>2. CASE v # w
        BY <1>3, <1>6, <2>1, <2>2, <3>2 DEF OwnId
      <3> QED BY <3>1, <3>2
    <2> QED BY <1>3, <2>1, <2>2 DEF OwnId
  <1>10. IdInv'
    BY <1>7, <1>8, <1>9 DEF IdInv
  <1> QED BY <1>1, <1>5, <1>10 DEF SeqInv

(* What a statement does to the id and the row its request uses.           *)
LEMMA StepIds ==
  ASSUME SeqInv, NEW w \in Workers, Step(w)
  PROVE  /\ seq \in Nat /\ seq' \in Nat /\ seq <= seq' /\ seq' <= MaxId
         /\ rid[w] \in Nat
         /\ \/ req'[w] = NoRequest
            \/ rid'[w] = rid[w]
            \/ rid[w] = 0 /\ rid'[w] = seq + 1 /\ seq' = seq + 1
         /\ \/ req'[w] = NoRequest
            \/ seen'[w] = seen[w] /\ Head(todo[w]) # "select"
            \/ pet[rid[w]] # NoPet /\ rid[w] \in Ids /\ seen'[w] # NoPet /\ pet' = pet
  <1>1. /\ TypeInv /\ Serving(w) /\ MaxId \in Nat
        /\ seq \in Nat /\ seq <= MaxId /\ rid[w] \in Nat /\ w \in Workers
        /\ req \in [Workers -> Requests \cup {NoRequest}]
        /\ rid \in [Workers -> 0..MaxId] /\ seen \in [Workers -> Rows \cup {NoPet}]
        /\ req[w] # NoRequest /\ todo[w] \in Seq(Statements) /\ todo[w] # <<>>
    BY StepOutcome, PetBounds DEF SeqInv, TypeInv, TypeOK, Serving
  <1>2. \A a : Answer(w, a) => req'[w] = NoRequest
    BY <1>1 DEF Answer
  <1>3. ASSUME NEW i, NEW row, Proceed(w, i, row)
        PROVE  req'[w] = NoRequest \/ (rid'[w] = i /\ seen'[w] = row)
    <2>1. CASE Len(todo[w]) = 1
      BY <1>2, <1>3, <2>1 DEF Proceed
    <2>2. CASE Len(todo[w]) # 1
      BY <1>1, <1>3, <2>2 DEF Proceed
    <2> QED BY <2>1, <2>2
  <1>4. CASE Nextval(w) \/ Upsert(w) \/ Insert(w)
    <2>1. /\ DrawsFrom(w) /\ Head(todo[w]) # "select"
          /\ Answer(w, "refused") \/ Proceed(w, Drawn(w), seen[w])
      BY <1>4 DEF Nextval, Upsert, Insert, Sends
    <2>2. /\ seq' \in Nat /\ seq <= seq' /\ seq' <= MaxId
          /\ Drawn(w) = rid[w] \/ (rid[w] = 0 /\ Drawn(w) = seq + 1 /\ seq' = seq + 1)
      BY <1>1, <2>1 DEF DrawsFrom, Drawn
    <2> QED BY <1>1, <1>2, <1>3, <2>1, <2>2
  <1>5. CASE NextvalAlways(w)
    <2>1. /\ seq < MaxId /\ seq' = seq + 1 /\ Head(todo[w]) # "select"
          /\ Proceed(w, Drawn(w), seen[w])
      BY <1>5 DEF NextvalAlways, Sends
    <2>2. /\ seq' \in Nat /\ seq <= seq' /\ seq' <= MaxId
          /\ Drawn(w) = rid[w] \/ (rid[w] = 0 /\ Drawn(w) = seq + 1 /\ seq' = seq + 1)
      BY <1>1, <2>1 DEF Drawn
    <2> QED BY <1>1, <1>2, <1>3, <2>1, <2>2
  <1>6. CASE Select(w)
    <2>1. Head(todo[w]) \notin Draws /\ seq' = seq /\ pet' = pet
      BY <1>6 DEF Select, Sends, Draws
    <2>2. rid[w] \in Ids
      BY <1>1, <2>1, HasId
    <2>3. \/ Answer(w, "crash") \/ Answer(w, "notFound")
          \/ pet[rid[w]] # NoPet /\ Proceed(w, rid[w], pet[rid[w]])
      BY <1>6 DEF Select
    <2> QED BY <1>1, <1>2, <1>3, <2>1, <2>2, <2>3
  <1>7. CASE Update(w) \/ Delete(w) \/ Photo(w)
    <2>1. /\ seq' = seq /\ Head(todo[w]) # "select"
          /\ \/ Answer(w, "crash") \/ Answer(w, "notFound") \/ Proceed(w, rid[w], seen[w])
      BY <1>7 DEF Update, NothingUpdated, Sends, Delete, Photo
    <2> QED BY <1>1, <1>2, <1>3, <2>1
  <1>8. CASE StatementFails(w)
    <2>1. /\ seq' = seq
          /\ Answer(w, "error") \/ (rid[w] = 0 /\ Head(todo[w]) = "nextvalOr1")
      BY <1>8 DEF StatementFails
    <2>2. rid[w] = 0 => req[w].op = "add"
      BY <1>1, GivenIds, PetBounds DEF Ids
    <2>3. req[w].op = "add" => Head(todo[w]) # "nextvalOr1"
      BY <1>1, WithoutInTail DEF SeqInv, Shape, SeqStatements
    <2> QED BY <1>1, <1>2, <2>1, <2>2, <2>3
  <1> QED BY <1>4, <1>5, <1>6, <1>7, <1>8 DEF Step

(* A row is written under the id of its request, or under one just drawn.  *)
LEMMA SeqWrites ==
  ASSUME SeqInv, NEW w \in Workers, Step(w)
  PROVE  \/ pet' = pet
         \/ /\ Head(todo[w]) \in Creates /\ rid[w] = 0 /\ seq + 1 \in Ids /\ seq' = seq + 1
            /\ req[w].op = "add" /\ (pet[seq + 1] = NoPet \/ seq + 1 \in posted)
            /\ \A i \in Ids : i # seq + 1 => pet'[i] = pet[i]
         \/ /\ Head(todo[w]) \in Creates /\ MayWrite(w) /\ rid[w] \in Ids
            /\ \A i \in Ids : i # rid[w] => pet'[i] = pet[i]
         \/ /\ Head(todo[w]) \notin Creates /\ ~(req[w].op = "add") /\ rid[w] \in Ids
            /\ \A i \in Ids : i # rid[w] => pet'[i] = pet[i]
            /\ pet[rid[w]] # NoPet \/ pet'[rid[w]] = NoPet
  <1>1. /\ TypeInv /\ Serving(w) /\ todo[w] \in Seq(Statements) /\ todo[w] # <<>>
        /\ pet \in [Ids -> Rows \cup {NoPet}] /\ seq \in Nat
        /\ req[w].op \in Operations
    BY StepOutcome, RequestFields DEF SeqInv, TypeInv, TypeOK, Serving
  <1>2. CASE /\ Head(todo[w]) \in Creates /\ DrawsFrom(w) /\ Drawn(w) \in Ids
             /\ pet' = [pet EXCEPT ![Drawn(w)] = NewRow(w, Drawn(w))]
    <2>1. CASE rid[w] = 0
      <3>1. seq' = seq + 1 /\ Drawn(w) = seq + 1
        BY <1>2, <2>1 DEF DrawsFrom, Drawn
      <3>2. pet[seq + 1] = NoPet \/ seq + 1 \in posted
        BY <1>1, <1>2, <3>1 DEF SeqInv, IdInv, Known
      <3>3. req[w].op = "add"
        BY <1>1, <2>1, GivenIds, PetBounds DEF Ids
      <3> QED BY <1>1, <1>2, <2>1, <3>1, <3>2, <3>3
    <2>2. CASE rid[w] # 0
      <3>1. Drawn(w) = rid[w]
        BY <2>2 DEF Drawn
      <3>2. ~Without(todo[w], Creates) /\ ~Without(todo[w], Creates \cup Updates)
        BY <1>1, <1>2, WithoutInTail
      <3>3. req[w].op \in {"add", "put", "form"}
        BY <1>1, <3>2 DEF TypeInv, Ready, Operations
      <3>4. MayWrite(w)
        BY <1>1, <1>2, <2>2, <3>2, <3>3 DEF MayWrite, SeqInv, Shape, Creates
      <3> QED BY <1>1, <1>2, <3>1, <3>4
    <2> QED BY <2>1, <2>2
  <1>3. CASE Head(todo[w]) \in Updates \cup {"delete", "deleteChecked"}
    <2>1. req[w].op # "add"
      BY <1>1, <1>3, WithoutInTail DEF SeqInv, Shape, SeqStatements
    <2>2. Head(todo[w]) \notin Creates
      BY <1>3 DEF Creates, Updates
    <2> QED BY <1>1, <2>1, <2>2, StepWrites
  <1> QED BY <1>1, <1>2, <1>3, StepWrites

(* What a request may write after a statement of its own.                  *)
LEMMA SeqMover ==
  ASSUME SeqInv, NEW w \in Workers, Step(w)
  PROVE  /\ Shape(w)'
         /\ MayWrite(w)' =>
              /\ Known(rid[w])'
              /\ \A u \in Workers : u # w /\ Fresh(u) => rid[u] # rid'[w] \/ rid[u] \in posted
         /\ Fresh(w)' =>
              /\ rid'[w] <= seq'
              /\ pet'[rid'[w]] = NoPet \/ rid'[w] \in posted
              /\ \A u \in Workers : u # w /\ MayWrite(u) => rid[u] # rid'[w] \/ rid'[w] \in posted
  <1>1. /\ TypeInv /\ Serving(w) /\ todo[w] \in Seq(Statements) /\ todo[w] # <<>>
        /\ \/ req'[w] = NoRequest /\ seen'[w] = NoPet
           \/ /\ req'[w] = req[w] /\ todo'[w] = Tail(todo[w])
              /\ rid[w] # 0 => rid'[w] = rid[w]
        /\ posted' = posted
    BY StepOutcome DEF SeqInv
  <1>2. CASE req'[w] = NoRequest
    <2>1. seen'[w] = NoPet
      BY <1>1, <1>2 DEF Serving
    <2> QED BY <1>2, <2>1 DEF Shape, MayWrite, Fresh, Serving
  <1>3. CASE req'[w] # NoRequest
    <2>1. /\ req'[w] = req[w] /\ todo'[w] = Tail(todo[w])
          /\ rid[w] # 0 => rid'[w] = rid[w]
      BY <1>1, <1>3
    <2>2. /\ Without(todo[w], Creates) => Without(Tail(todo[w]), Creates)
          /\ Without(todo[w], SeqStatements) => Without(Tail(todo[w]), SeqStatements)
          /\ WritesOnce(todo[w]) => WritesOnce(Tail(todo[w]))
          /\ WritesOnce(todo[w]) /\ Head(todo[w]) \in Creates => Without(Tail(todo[w]), Creates)
      BY <1>1, WithoutInTail, OnceInTail
    <2>3. Shape(w)
      BY DEF SeqInv
    <2>4. \/ seen'[w] = seen[w] /\ Head(todo[w]) # "select"
          \/ /\ pet[rid[w]] # NoPet /\ rid[w] \in Ids /\ seen'[w] # NoPet /\ pet' = pet
      BY <1>3, StepIds
    <2>5. /\ seq \in Nat /\ seq' \in Nat /\ seq <= seq' /\ rid[w] \in Nat
          /\ rid'[w] = rid[w] \/ (rid[w] = 0 /\ rid'[w] = seq + 1 /\ seq' = seq + 1)
      BY <1>3, StepIds
    <2>6. \A u \in Workers : rid[u] \in Nat
      BY <1>1 DEF TypeInv, TypeOK
    <2>7. Shape(w)'
      BY <1>1, <2>1, <2>2, <2>3, <2>4 DEF Shape, Serving
    <2>8. ASSUME MayWrite(w)'
          PROVE  /\ Known(rid[w])'
                 /\ \A u \in Workers : u # w /\ Fresh(u) => rid[u] # rid'[w] \/ rid[u] \in posted
      <3>1. CASE rid'[w] = rid[w]
        <4>1. MayWrite(w) \/ (pet[rid[w]] # NoPet /\ rid[w] \in Ids)
          BY <1>1, <2>1, <2>2, <2>4, <2>8, <3>1 DEF MayWrite
        <4>2. Known(rid[w])
          BY <4>1 DEF SeqInv, IdInv
        <4>3. \A u \in Workers : u # w /\ Fresh(u) => rid[u] # rid[w] \/ rid[u] \in posted
          BY <4>1 DEF SeqInv, IdInv, OwnId
        <4>4. Known(rid[w])'
          BY <1>1, <2>5, <3>1, <4>2 DEF Known
        <4> QED BY <3>1, <4>3, <4>4
      <3>2. CASE rid[w] = 0 /\ rid'[w] = seq + 1 /\ seq' = seq + 1
        <4>1. \A u \in Workers : Fresh(u) => rid[u] <= seq
          BY DEF SeqInv, IdInv, OwnId
        <4>2. Known(rid[w])'
          BY <2>5, <3>2 DEF Known
        <4> QED BY <2>5, <2>6, <3>2, <4>1, <4>2
      <3> QED BY <2>5, <3>1, <3>2
    <2>9. ASSUME Fresh(w)'
          PROVE  /\ rid'[w] <= seq'
                 /\ pet'[rid'[w]] = NoPet \/ rid'[w] \in posted
                 /\ \A u \in Workers : u # w /\ MayWrite(u) => rid[u] # rid'[w] \/ rid'[w] \in posted
      <3>1. /\ req[w].op = "add" /\ req[w].id = 0 /\ Head(todo[w]) \notin Creates
            /\ ~Without(todo[w], Creates)
        BY <1>1, <2>1, <2>2, <2>3, <2>9 DEF Fresh, MayWrite, Shape
      <3>2. pet' = pet
        BY <3>1, SeqWrites
      <3>3. CASE rid'[w] = rid[w]
        <4>1. Fresh(w)
          BY <1>1, <2>1, <2>9, <3>1, <3>3 DEF Fresh, MayWrite
        <4>2. OwnId(w)
          BY <4>1 DEF SeqInv, IdInv
        <4>3. rid'[w] <= seq'
          BY <2>5, <3>3, <4>2 DEF OwnId
        <4> QED BY <3>2, <3>3, <4>2, <4>3 DEF OwnId
      <3>4. CASE rid[w] = 0 /\ rid'[w] = seq + 1 /\ seq' = seq + 1
        <4>1. seq + 1 \in Ids
          BY <1>1, <2>5, <3>4, StepIds, PetBounds DEF Ids
        <4>2. pet[seq + 1] = NoPet \/ seq + 1 \in posted
          BY <2>5, <4>1 DEF SeqInv, IdInv, Known
        <4>3. \A u \in Workers : MayWrite(u) => rid[u] <= seq \/ rid[u] \in posted
          BY DEF SeqInv, IdInv, Known
        <4>4. \A u \in Workers : MayWrite(u) => rid[u] # seq + 1 \/ seq + 1 \in posted
          BY <2>5, <2>6, <4>3
        <4>5. seq + 1 <= seq'
          BY <2>5, <3>4
        <4> QED BY <3>2, <3>4, <4>2, <4>4, <4>5
      <3> QED BY <2>5, <3>3, <3>4
    <2> QED BY <2>7, <2>8, <2>9
  <1> QED BY <1>2, <1>3

(* Every statement keeps fresh ids fresh.                                  *)
LEMMA SeqStep ==
  ASSUME SeqInv, NEW w \in Workers, Step(w)
  PROVE  SeqInv'
  <1>1. TypeInv'
    BY StepTypes DEF SeqInv
  <1>2. /\ \A u \in Workers : u # w =>
             req'[u] = req[u] /\ todo'[u] = todo[u] /\ rid'[u] = rid[u] /\ seen'[u] = seen[u]
        /\ seq \in Nat /\ seq' \in Nat /\ seq <= seq' /\ posted' = posted
        /\ \A u \in Workers : rid[u] \in Nat
    BY StepOutcome, StepIds DEF SeqInv, TypeInv, TypeOK
  <1>3. \A u \in Workers : u # w =>
          /\ MayWrite(u)' <=> MayWrite(u)
          /\ Fresh(u)' <=> Fresh(u)
          /\ Shape(u)' <=> Shape(u)
    BY <1>2 DEF MayWrite, Fresh, Shape, Serving
  <1>4. \A u \in Workers : Shape(u)'
    BY <1>3, SeqMover DEF SeqInv
  <1>5. \A i \in Nat : Known(i) => Known(i)'
    BY <1>2 DEF Known
  <1>6. ASSUME NEW i \in Ids, pet'[i] # NoPet PROVE Known(i)'
    <2>1. i \in Nat
      BY PetBounds DEF Ids
    <2>2. pet[i] # NoPet => Known(i)
      BY DEF SeqInv, IdInv
    <2>3. MayWrite(w) => Known(rid[w])
      BY DEF SeqInv, IdInv
    <2>4. rid[w] \in Ids /\ pet[rid[w]] # NoPet => Known(rid[w])
      BY DEF SeqInv, IdInv
    <2>5. i = seq + 1 /\ seq' = seq + 1 => Known(i)'
      BY <1>2 DEF Known
    <2>6. \/ pet[i] # NoPet \/ (i = seq + 1 /\ seq' = seq + 1)
          \/ i = rid[w] /\ (MayWrite(w) \/ pet[rid[w]] # NoPet)
      BY <1>6, SeqWrites
    <2> QED BY <1>5, <2>1, <2>2, <2>3, <2>5, <2>6
  <1>7. ASSUME NEW u \in Workers, MayWrite(u)' PROVE Known(rid[u])'
    <2>1. CASE u = w
      BY <1>7, <2>1, SeqMover
    <2>2. CASE u # w
      <3>1. Known(rid[u]) /\ rid[u] \in Nat /\ rid'[u] = rid[u]
        BY <1>2, <1>3, <1>7, <2>2 DEF SeqInv, IdInv
      <3> QED BY <1>2, <3>1 DEF Known
    <2> QED BY <2>1, <2>2
  <1>8. ASSUME NEW u \in Workers, Fresh(u)' PROVE OwnId(u)'
    <2>1. CASE u = w
      BY <1>2, <1>3, <1>8, <2>1, SeqMover DEF OwnId
    <2>2. CASE u # w
      <3>1. Fresh(u) /\ OwnId(u) /\ rid'[u] = rid[u] /\ rid[u] \in Nat
        BY <1>2, <1>3, <1>8, <2>2 DEF SeqInv, IdInv
      <3>2. rid[u] \in Ids
        BY <3>1, PetBounds DEF Ids, Fresh, MayWrite, SeqInv, TypeInv, TypeOK
      <3>3. rid[u] <= seq' /\ rid[u] # seq + 1
        BY <1>2, <3>1 DEF OwnId
      <3>4. pet'[rid[u]] = NoPet \/ rid[u] \in posted
        BY <1>2, <2>2, <3>1, <3>2, <3>3, SeqWrites DEF OwnId
      <3>5. \A v \in Workers : v # u /\ MayWrite(v)' => rid'[v] # rid[u] \/ rid[u] \in posted
        BY <1>2, <1>3, <2>2, <3>1, SeqMover DEF OwnId
      <3> QED BY <1>2, <3>1, <3>3, <3>4, <3>5 DEF OwnId
    <2> QED BY <2>1, <2>2
  <1>9. IdInv'
    BY <1>6, <1>7, <1>8 DEF IdInv
  <1> QED BY <1>1, <1>4, <1>9 DEF SeqInv

(* And so does a stuttering step.                                          *)
LEMMA SeqStutters ==
  ASSUME SeqInv, UNCHANGED vars, TypeInv'
  PROVE  SeqInv'
  BY DEF vars, work, SeqInv, IdInv, Known, OwnId, Shape, MayWrite, Fresh, Serving

(* A row changes only by a request that names it, or after some client has *)
(* given its id in a POST, in every stack whose POST draws its id from the *)
(* sequence and whose PUT and form read first: whatever ids clients give.  *)
THEOREM OnlyPostedAreReplaced ==
  ASSUME \A p \in FreshIds : DrawsFreshIds(p)
  PROVE  Spec => OnlyPostedPetsAreReplaced
  <1> DEFINE Inv == TypeInv /\ (program \in FreshIds => SeqInv)
             Step1 == \A i \in Ids : Replaced(i) => i \in posted
  <1>1. Init => Inv
    BY InitTypes, SeqInit
  <1>2. Inv /\ [Next]_vars => Inv'
    <2> SUFFICES ASSUME Inv, [Next]_vars, program' \in FreshIds PROVE SeqInv'
      BY NextTypes
    <2>0. program \in FreshIds /\ SeqInv /\ DrawsFreshIds(program)
      BY SameProgram
    <2>1. CASE Next
      BY <2>0, <2>1, SeqCall, SeqStep DEF Next
    <2>2. CASE UNCHANGED vars
      <3>1. TypeInv'
        BY <2>0, <2>2, NextTypes DEF SeqInv
      <3> QED BY <2>0, <2>2, <3>1, SeqStutters
    <2> QED BY <2>1, <2>2
  <1>3. Inv /\ [Next]_vars => [Step1]_vars
    <2> SUFFICES ASSUME SeqInv, Next, NEW i \in Ids, Replaced(i) PROVE i \in posted
      BY DEF Replaced
    <2>0. pet[i] # NoPet /\ pet'[i] # pet[i]
      BY DEF Replaced
    <2>1. PICK w \in Workers : Step(w)
      BY <2>0 DEF Next, Call
    <2>2. Serving(w) /\ todo'[w] # todo[w] /\ req[w].id # i
      BY <2>1, StepOutcome DEF SeqInv, Replaced, Serving
    <2>3. CASE req[w].op = "add"
      <3>1. \/ i = seq + 1 /\ i \in posted
            \/ i = rid[w] /\ MayWrite(w)
        BY <2>0, <2>1, <2>3, SeqWrites DEF SeqInv, TypeInv, TypeOK
      <3>2. i = rid[w] /\ MayWrite(w) => Fresh(w)
        BY <2>2, <2>3 DEF Fresh, SeqInv, Shape, Serving
      <3> QED BY <2>0, <3>1, <3>2 DEF SeqInv, IdInv, OwnId
    <2>4. CASE req[w].op # "add"
      <3>1. rid[w] # i
        BY <2>2, <2>4, GivenIds DEF SeqInv
      <3> QED BY <2>0, <2>1, <2>4, <3>1, SeqWrites DEF SeqInv, TypeInv, TypeOK
    <2> QED BY <2>3, <2>4
  <1> QED BY <1>1, <1>2, <1>3, PTL DEF Spec, OnlyPostedPetsAreReplaced

(* No id made by the server hits a row, in every stack that refuses a      *)
(* taken id instead of overwriting its row: there the promise of the       *)
(* schema holds, whatever ids clients give and whatever the sequence does. *)
THEOREM InsertsNeverReplace ==
  ASSUME \A p \in FreshIds : RefusesTakenIds(p)
  PROVE  Spec => IdsDoNotCollide
  <1> DEFINE other == {"delete", "deleteChecked"} \cup Updates
             Inv == program \in FreshIds => \A w \in Workers :
                      Spared(w, Operations, {"upsert"}) /\ Spared(w, {"add"}, other)
             Step1 == \A i \in Ids : ~Replaced(i)
  <1>1. Init => Inv
    BY SparedInit
  <1>2. TypeInv /\ Inv /\ [Next]_vars => Inv'
    <2> SUFFICES ASSUME TypeInv, Inv, [Next]_vars, program' \in FreshIds PROVE Inv'
      OBVIOUS
    <2>1. program \in FreshIds /\ RefusesTakenIds(program)
      BY SameProgram
    <2>2. \A w \in Workers : Spared(w, Operations, {"upsert"})'
      BY <2>1, SparedStays DEF RefusesTakenIds
    <2>3. {"add"} \in SUBSET Operations /\ \A op \in {"add"} : Without(program[op], other)
      BY <2>1 DEF RefusesTakenIds, Operations
    <2>4. \A w \in Workers : Spared(w, {"add"}, other)'
      BY <2>1, <2>3, SparedStays
    <2> QED BY <2>2, <2>4
  <1>3. TypeInv /\ Inv /\ [Next]_vars => [Step1]_vars
    <2> SUFFICES ASSUME TypeInv, Inv, Next, NEW i \in Ids, Replaced(i) PROVE FALSE
      BY DEF Replaced, vars
    <2>1. program \in FreshIds /\ pet[i] # NoPet /\ pet'[i] # pet[i]
      BY DEF Replaced
    <2>2. PICK w \in Workers : Step(w)
      BY <2>1 DEF Next, Call
    <2>3. /\ Serving(w) /\ todo'[w] # todo[w] /\ todo[w] \in Seq(Statements) /\ todo[w] # <<>>
          /\ req[w].id # i
      BY <2>2, StepOutcome DEF Replaced, Serving
    <2>4. /\ req[w].op \in Operations
          /\ Head(todo[w]) # "upsert"
          /\ req[w].op = "add" => Head(todo[w]) \notin other
      BY <2>1, <2>3, RequestFields, WithoutInTail DEF Spared, TypeInv, TypeOK, Serving
    <2>5. CASE Head(todo[w]) = "insert"
      <3>1. pet' = pet \/ (pet[Drawn(w)] = NoPet /\ \A j \in Ids : j # Drawn(w) => pet'[j] = pet[j])
        BY <2>2, <2>5 DEF Step, Nextval, NextvalAlways, Upsert, Insert, Select, Update, Delete,
                          Photo, StatementFails, Sends, TypeInv, TypeOK
      <3> QED BY <2>1, <3>1
    <2>6. CASE Head(todo[w]) # "insert"
      <3>1. \A j \in Ids : j # rid[w] => pet'[j] = pet[j]
        BY <2>2, <2>4, <2>6, StepWrites DEF Creates, TypeInv, TypeOK
      <3>2. req[w].op # "add" => rid[w] # i
        BY <2>3, GivenIds
      <3>3. req[w].op = "add" => pet' = pet
        BY <2>2, <2>4, <2>6, StepWrites DEF Creates
      <3> QED BY <2>1, <3>1, <3>2, <3>3
    <2> QED BY <2>5, <2>6
  <1> QED BY <1>1, <1>2, <1>3, InitTypes, NextTypes, PTL DEF Spec, IdsDoNotCollide

-----------------------------------------------------------------------------
(* Atomicity: an operation takes effect with its last statement; what it   *)
(* sends before changes nothing that another request or a client can see.  *)
Preludes == [add |-> {"nextval", "nextvalAlways"}, put |-> {"select"}, form |-> {},
             delete |-> {}, photo |-> {"select"}]
Effects == [add |-> Creates, put |-> {"update"}, form |-> {"update", "updateAny"},
            delete |-> {"delete", "deleteChecked"}, photo |-> {"photo", "photoIfPet"}]

Tidy(s, op) == \A i \in 1..Len(s) : s[i] \in IF i = Len(s) THEN Effects[op] ELSE Preludes[op]

Atomic(p) == DrawsFreshIds(p) /\ \A op \in Operations : Tidy(p[op], op)

TidyInv ==
  /\ SeqInv
  /\ \A w \in Workers : Unread(w) /\ (Serving(w) => Tidy(todo[w], req[w].op))

(* A tidy operation is at its effect or has more to do, and stays tidy.    *)
LEMMA TidyTail ==
  ASSUME NEW s \in Seq(Statements), s # <<>>, NEW op, Tidy(s, op)
  PROVE  /\ Len(s) = 1 => Head(s) \in Effects[op]
         /\ Len(s) # 1 => Head(s) \in Preludes[op]
         /\ Tidy(Tail(s), op)
  <1>1. /\ Len(s) \in Nat \ {0} /\ Len(Tail(s)) = Len(s) - 1
        /\ \A i \in 1..Len(Tail(s)) : Tail(s)[i] = s[i + 1]
        /\ Head(s) = s[1]
    BY TailKeeps
  <1>2. 1 \in 1..Len(s)
    BY <1>1
  <1>3. Len(s) = 1 => Head(s) \in Effects[op]
    BY <1>1, <1>2 DEF Tidy
  <1>4. Len(s) # 1 => Head(s) \in Preludes[op]
    BY <1>1, <1>2 DEF Tidy
  <1>5. ASSUME NEW i \in 1..Len(Tail(s))
        PROVE  Tail(s)[i] \in IF i = Len(Tail(s)) THEN Effects[op] ELSE Preludes[op]
    <2>1. i + 1 \in 1..Len(s) /\ (i + 1 = Len(s) <=> i = Len(Tail(s)))
      BY <1>1
    <2>2. s[i + 1] \in IF i + 1 = Len(s) THEN Effects[op] ELSE Preludes[op]
      BY <2>1 DEF Tidy
    <2> QED BY <1>1, <2>1, <2>2
  <1>6. Tidy(Tail(s), op)
    BY <1>5 DEF Tidy
  <1> QED BY <1>3, <1>4, <1>6

(* A request of an atomic stack comes in without having read a row.        *)
LEMMA TidyCall ==
  ASSUME TidyInv, NEW w \in Workers, NEW r \in Requests, Call(w, r), Atomic(program)
  PROVE  TidyInv'
  <1>1. SeqInv'
    BY SeqCall DEF TidyInv, Atomic
  <1>2. r.op \in Operations
    BY RequestFields
  <1>3. ASSUME NEW u \in Workers
        PROVE  Unread(u)' /\ (Serving(u)' => Tidy(todo'[u], req'[u].op))
    <2>1. seen' = seen /\ seen[w] = NoPet
      BY DEF Call, TidyInv, SeqInv, Shape, Serving
    <2>2. u = w => req'[u] = r /\ todo'[u] = program[r.op]
      BY DEF Call, TidyInv, SeqInv, TypeInv, TypeOK
    <2>3. u # w => req'[u] = req[u] /\ todo'[u] = todo[u]
      BY DEF Call, TidyInv, SeqInv, TypeInv, TypeOK
    <2> QED BY <1>2, <2>1, <2>2, <2>3 DEF TidyInv, Unread, Serving, Atomic
  <1>4. \A u \in Workers : Unread(u)' /\ (Serving(u)' => Tidy(todo[u], req[u].op)')
    BY <1>3 DEF Tidy
  <1> QED BY <1>1, <1>4 DEF TidyInv

(* A form of an atomic stack is answered after one statement; the others   *)
(* keep their shape.                                                       *)
LEMMA TidyStep ==
  ASSUME TidyInv, NEW w \in Workers, Step(w)
  PROVE  TidyInv'
  <1>1. SeqInv'
    BY SeqStep DEF TidyInv
  <1>2. /\ Serving(w) /\ todo[w] \in Seq(Statements) /\ todo[w] # <<>>
        /\ \A u \in Workers : u # w =>
             req'[u] = req[u] /\ todo'[u] = todo[u] /\ rid'[u] = rid[u] /\ seen'[u] = seen[u]
        /\ \/ req'[w] = NoRequest /\ seen'[w] = NoPet
           \/ req'[w] = req[w] /\ todo'[w] = Tail(todo[w])
    BY StepOutcome DEF TidyInv, SeqInv
  <1>3. Tidy(todo[w], req[w].op)
    BY <1>2 DEF TidyInv
  <1>4. CASE req'[w] = NoRequest
    <2>1. Unread(w)' /\ ~Serving(w)'
      BY <1>2, <1>4 DEF Unread, Serving
    <2>2. \A u \in Workers : Unread(u)' /\ (Serving(u)' => Tidy(todo[u], req[u].op)')
      BY <1>2, <2>1 DEF TidyInv, Unread, Serving, Tidy
    <2> QED BY <1>1, <2>2 DEF TidyInv
  <1>5. CASE req'[w] # NoRequest
    <2>1. req'[w] = req[w] /\ todo'[w] = Tail(todo[w])
      BY <1>2, <1>5
    <2>2. Len(todo[w]) # 1
      <3>1. SUFFICES ASSUME Len(todo[w]) = 1 PROVE todo'[w] = <<>>
        BY <1>1, <1>5 DEF SeqInv, TypeInv, TypeOK
      <3>2. Len(Tail(todo[w])) = 0 /\ Tail(todo[w]) \in Seq(Statements)
        BY <1>2, <3>1, HeadTailProperties
      <3> QED BY <2>1, <3>2, EmptySeq
    <2>3. Head(todo[w]) \in Preludes[req[w].op] /\ Tidy(Tail(todo[w]), req[w].op)
      BY <1>2, <1>3, <2>2, TidyTail
    <2>4. req[w].op # "form"
      BY <2>3 DEF Preludes
    <2>5. Unread(w)' /\ Tidy(todo'[w], req'[w].op)
      BY <1>2, <1>5, <2>1, <2>3, <2>4 DEF Unread, Serving
    <2>6. \A u \in Workers : Unread(u)' /\ (Serving(u)' => Tidy(todo[u], req[u].op)')
      BY <1>2, <2>5 DEF TidyInv, Unread, Serving, Tidy
    <2> QED BY <1>1, <2>6 DEF TidyInv
  <1> QED BY <1>4, <1>5

(* What an operation writes is what the API says it writes.                *)
LEMMA WrittenRow ==
  ASSUME TidyInv, NEW w \in Workers, Serving(w), NEW i \in Ids
  PROVE  /\ req[w].op = "add" => NewRow(w, i) = req[w].new
         /\ req[w].op \in {"put", "form"} => NewRow(w, i) = Api!Merged(pet[i], req[w].new)
  <1>1. req[w] \in Requests
    BY DEF TidyInv, SeqInv, TypeInv, TypeOK, Serving
  <1>2. ASSUME req[w].op \in {"add", "put"}
        PROVE  /\ \A f \in Fields : req[w].new[f] # Keep
               /\ req[w].new \in [Fields -> Names \cup Statuses]
    <2>1. req[w].new \in Rows
      BY <1>1, <1>2, RequestFields
    <2> QED BY <2>1, PetModelValues DEF Rows, Fields
  <1>3. req[w].op \in {"add", "put"} => NewRow(w, i) = [f \in Fields |-> req[w].new[f]]
    BY <1>2 DEF NewRow
  <1>4. req[w].op = "add" => NewRow(w, i) = req[w].new
    BY <1>2, <1>3
  <1>5. CASE req[w].op = "put"
    <2>1. DOMAIN req[w].new = Fields
      BY <1>2, <1>5
    <2>2. Api!Merged(pet[i], req[w].new) = [f \in Fields |-> req[w].new[f]]
      BY <1>2, <1>5, <2>1 DEF Api!Merged
    <2> QED BY <1>3, <1>5, <2>2
  <1>6. CASE req[w].op = "form"
    <2>1. DOMAIN req[w].new = Fields
      BY <1>1, <1>6, RequestFields DEF Forms, Fields
    <2>2. seen[w] = NoPet
      BY <1>6 DEF TidyInv, Unread
    <2> QED BY <1>6, <2>1, <2>2 DEF NewRow, Api!Merged
  <1> QED BY <1>4, <1>5, <1>6

(* The last statement of an operation is the operation; the ones before    *)
(* are not seen, or they answer for the operation.                         *)
LEMMA AtomicStep ==
  ASSUME TidyInv, NEW w \in Workers, Step(w)
  PROVE  Api!Perform(w) \/ UNCHANGED Api!vars
  <1>1. /\ TypeInv /\ Serving(w) /\ todo[w] \in Seq(Statements) /\ todo[w] # <<>>
        /\ req[w] \in Requests /\ req[w].op \in Operations
        /\ pet \in [Ids -> Rows \cup {NoPet}] /\ posted' = posted
    BY StepOutcome, RequestFields DEF TidyInv, SeqInv, TypeInv, TypeOK, Serving
  <1>2. /\ Len(todo[w]) = 1 => Head(todo[w]) \in Effects[req[w].op]
        /\ Len(todo[w]) # 1 => Head(todo[w]) \in Preludes[req[w].op]
    BY <1>1, TidyTail DEF TidyInv
  <1>3. /\ Head(todo[w]) \in {"nextval", "nextvalAlways"} => req[w].op = "add" /\ Len(todo[w]) # 1
        /\ Head(todo[w]) = "select" => req[w].op \in {"put", "photo"} /\ Len(todo[w]) # 1
        /\ Head(todo[w]) \in Creates => req[w].op = "add" /\ Len(todo[w]) = 1
        /\ Head(todo[w]) \in Updates => req[w].op \in {"put", "form"} /\ Len(todo[w]) = 1
        /\ Head(todo[w]) = "updateAny" => req[w].op = "form"
        /\ Head(todo[w]) \in {"delete", "deleteChecked"} => req[w].op = "delete" /\ Len(todo[w]) = 1
        /\ Head(todo[w]) \in {"photo", "photoIfPet"} => req[w].op = "photo" /\ Len(todo[w]) = 1
        /\ Head(todo[w]) \notin {"nextvalOr1", "fetch", "updateReturning"}
    BY <1>1, <1>2 DEF Preludes, Effects, Operations, Creates, Updates
  <1>4. req[w].op # "add" => rid[w] \in Ids /\ rid[w] = req[w].id
    BY <1>1, GivenIds
  <1>5. \A a : Answer(w, a) => Api!Answer(w, a)
    BY <1>1 DEF Answer, Api!Answer
  <1>6. ASSUME NEW i, NEW row, Proceed(w, i, row)
        PROVE  /\ Len(todo[w]) = 1 => Api!Answer(w, "ok")
               /\ Len(todo[w]) # 1 => UNCHANGED <<req, answer, posted>>
    BY <1>1, <1>5, <1>6 DEF Proceed
  <1>7. CASE Nextval(w) \/ NextvalAlways(w)
    <2>1. Proceed(w, Drawn(w), seen[w]) /\ pet' = pet /\ Head(todo[w]) \in {"nextval", "nextvalAlways"}
      BY <1>3, <1>7 DEF Nextval, NextvalAlways, Sends
    <2> QED BY <1>3, <1>6, <2>1 DEF Api!vars
  <1>8. CASE Select(w)
    <2>1. Head(todo[w]) = "select" /\ pet' = pet
      BY <1>3, <1>8 DEF Select, Sends
    <2>2. CASE pet[rid[w]] # NoPet
      BY <1>3, <1>6, <1>8, <2>1, <2>2 DEF Select, Api!vars
    <2>3. CASE pet[rid[w]] = NoPet
      <3>1. Api!Answer(w, "notFound")
        BY <1>5, <1>8, <2>1, <2>3 DEF Select
      <3>2. Api!NotFound(w)
        BY <1>3, <1>4, <2>1, <2>3, <3>1 DEF Api!NotFound
      <3> QED BY <3>2 DEF Api!Perform
    <2> QED BY <2>2, <2>3
  <1>9. CASE Upsert(w) \/ Insert(w)
    <2>1. DrawsFrom(w) /\ Head(todo[w]) \in Creates /\ req[w].op = "add" /\ Len(todo[w]) = 1
      BY <1>3, <1>9 DEF Upsert, Insert, Sends, Creates
    <2>2. Drawn(w) \in Ids /\ (rid[w] # 0 => Drawn(w) = rid[w])
      BY <1>1, <2>1, DrawnType
    <2>3. CASE Answer(w, "refused") /\ pet' = pet
      <3>1. Api!Fail(w)
        BY <1>1, <1>5, <2>1, <2>3 DEF Api!Fail, Serving
      <3> QED BY <3>1 DEF Api!Perform
    <2>4. CASE Proceed(w, Drawn(w), seen[w]) /\ pet' = [pet EXCEPT ![Drawn(w)] = NewRow(w, Drawn(w))]
      <3>1. Api!Answer(w, "ok") /\ pet' = [pet EXCEPT ![Drawn(w)] = req[w].new]
        BY <1>1, <1>6, <2>1, <2>2, <2>4, WrittenRow
      <3>2. CASE req[w].id # 0
        <4>1. Drawn(w) = req[w].id
          BY <1>1, <2>1, <2>2, <3>2 DEF TidyInv, SeqInv, Shape
        <4>2. Api!PostGiven(w)
          BY <2>1, <3>1, <3>2, <4>1 DEF Api!PostGiven
        <4> QED BY <4>2 DEF Api!Perform
      <3>3. CASE req[w].id = 0
        <4>1. ASSUME rid[w] = 0 PROVE pet[Drawn(w)] = NoPet \/ Drawn(w) \in posted
          <5>1. Drawn(w) = seq + 1 /\ seq \in Nat
            BY <1>1, <4>1 DEF Drawn, TypeInv, TypeOK
          <5>2. ~(seq + 1 <= seq)
            BY <5>1
          <5> QED BY <2>2, <5>1, <5>2 DEF TidyInv, SeqInv, IdInv, Known
        <4>2. ASSUME rid[w] # 0 PROVE pet[Drawn(w)] = NoPet \/ Drawn(w) \in posted
          <5>1. ~Without(todo[w], Creates)
            BY <1>1, <2>1, WithoutInTail
          <5>2. Fresh(w)
            BY <1>1, <2>1, <3>3, <4>2, <5>1 DEF Fresh, MayWrite
          <5> QED BY <2>2, <4>2, <5>2 DEF TidyInv, SeqInv, IdInv, OwnId
        <4>3. Api!PostNew(w)
          BY <2>1, <2>2, <3>1, <3>3, <4>1, <4>2 DEF Api!PostNew
        <4> QED BY <4>3 DEF Api!Perform
      <3> QED BY <3>2, <3>3
    <2> QED BY <1>9, <2>3, <2>4 DEF Upsert, Insert
  <1>10. CASE Update(w)
    <2>1. req[w].op \in {"put", "form"} /\ Len(todo[w]) = 1 /\ rid[w] \in Ids /\ rid[w] = req[w].id
      BY <1>3, <1>4, <1>10 DEF Update, Sends, Updates
    <2>2. CASE pet[rid[w]] # NoPet
      <3>1. /\ pet' = [pet EXCEPT ![rid[w]] = Api!Merged(pet[rid[w]], req[w].new)]
            /\ Api!Answer(w, "ok")
        BY <1>1, <1>6, <1>10, <2>1, <2>2, WrittenRow DEF Update
      <3>2. Api!Change(w)
        BY <2>1, <2>2, <3>1 DEF Api!Change
      <3> QED BY <3>2 DEF Api!Perform
    <2>3. CASE pet[rid[w]] = NoPet
      <3>1. NothingUpdated(w) /\ pet' = pet
        BY <1>10, <2>3 DEF Update
      <3>2. \/ Answer(w, "notFound")
            \/ req[w].op = "form" /\ Proceed(w, rid[w], seen[w])
        BY <1>3, <1>10, <3>1 DEF NothingUpdated, Update, Sends
      <3>3. \/ Api!Answer(w, "notFound")
            \/ req[w].op = "form" /\ Api!Answer(w, "ok")
        BY <1>5, <1>6, <2>1, <3>2
      <3>4. Api!NotFound(w)
        BY <2>1, <2>3, <3>1, <3>3 DEF Api!NotFound
      <3> QED BY <3>4 DEF Api!Perform
    <2> QED BY <2>2, <2>3
  <1>11. CASE Delete(w)
    <2>1. req[w].op = "delete" /\ Len(todo[w]) = 1 /\ rid[w] = req[w].id
      BY <1>3, <1>4, <1>11 DEF Delete, Sends
    <2>2. \/ Api!Answer(w, "ok")
          \/ pet[req[w].id] = NoPet /\ Api!Answer(w, "notFound")
      BY <1>5, <1>6, <1>11, <2>1 DEF Delete
    <2>3. Api!Delete(w)
      BY <1>11, <2>1, <2>2 DEF Delete, Api!Delete
    <2> QED BY <2>3 DEF Api!Perform
  <1>12. CASE Photo(w)
    <2>1. req[w].op = "photo" /\ Len(todo[w]) = 1 /\ rid[w] = req[w].id /\ pet' = pet
      BY <1>3, <1>4, <1>12 DEF Photo, Sends
    <2>2. \/ pet[req[w].id] = NoPet /\ Api!Answer(w, "notFound")
          \/ Api!Answer(w, "ok")
      BY <1>5, <1>6, <1>12, <2>1 DEF Photo
    <2>3. Api!NotFound(w) \/ Api!Upload(w)
      BY <2>1, <2>2 DEF Api!NotFound, Api!Upload
    <2> QED BY <2>3 DEF Api!Perform
  <1>13. CASE StatementFails(w)
    <2>1. Answer(w, "error") /\ pet' = pet
      BY <1>3, <1>13 DEF StatementFails
    <2>2. Api!Fail(w)
      BY <1>1, <1>5, <2>1 DEF Api!Fail, Serving
    <2> QED BY <2>2 DEF Api!Perform
  <1> QED BY <1>7, <1>8, <1>9, <1>10, <1>11, <1>12, <1>13 DEF Step

(* A stack implements the API, for any number of requests at a time and    *)
(* whatever ids clients give, if every operation takes effect in its last  *)
(* statement, sends nothing before but a SELECT by id or a nextval, and    *)
(* draws ids from the sequence: no request is seen half done, none is      *)
(* answered that a pet is missing when it was always there, and a POST     *)
(* without an id makes a new pet, unless a client has taken its id.        *)
THEOREM RequestsAreAtomic ==
  ASSUME \A p \in OneStep : Atomic(p)
  PROVE  Spec => ImplementsApi
  <1> DEFINE Inv == TypeInv /\ (program \in OneStep => TidyInv)
             Step1 == (program \in OneStep) => Api!Next
  <1>1. Init => Inv
    BY InitTypes, SeqInit DEF Init, TidyInv, Unread, Serving
  <1>2. Inv /\ [Next]_vars => Inv'
    <2> SUFFICES ASSUME Inv, [Next]_vars, program' \in OneStep PROVE TidyInv'
      BY NextTypes
    <2>0. program \in OneStep /\ TidyInv /\ Atomic(program)
      BY SameProgram
    <2>1. CASE Next
      BY <2>0, <2>1, TidyCall, TidyStep DEF Next
    <2>2. CASE UNCHANGED vars
      <3>1. SeqInv'
        BY <2>0, <2>2, NextTypes, SeqStutters DEF TidyInv, SeqInv
      <3> QED BY <2>0, <2>2, <3>1 DEF vars, work, TidyInv, Unread, Tidy, Serving
    <2> QED BY <2>1, <2>2
  <1>3. Init => (program \in OneStep => Api!Init)
    BY DEF Init, Api!Init
  <1>4. Inv /\ [Next]_vars => [Step1]_(Api!vars)
    <2> SUFFICES ASSUME TidyInv, Next PROVE Api!Next \/ UNCHANGED Api!vars
      BY DEF vars, work, Api!vars
    <2>1. ASSUME NEW w \in Workers, NEW r \in Requests, Call(w, r) PROVE Api!Next
      BY <2>1 DEF Call, PostedBy, Api!PostedBy, Api!Call, Api!Next
    <2>2. ASSUME NEW w \in Workers, Step(w) PROVE Api!Next \/ UNCHANGED Api!vars
      <3>1. Serving(w)
        BY <2>2, StepOutcome DEF TidyInv, SeqInv
      <3> QED BY <2>2, <3>1, AtomicStep DEF Api!Next, Serving
    <2> QED BY <2>1, <2>2 DEF Next
  <1> QED BY <1>1, <1>2, <1>3, <1>4, PTL DEF Spec, ImplementsApi

-----------------------------------------------------------------------------
(* What is assumed of the stacks, from their programs.                     *)

(* The PUT and the form of UpdateStacks create no row: DeletedStaysDeleted  *)
(* applies to them.                                                        *)
THEOREM UpdateStacksOnlyUpdate == \A p \in UpdateStacks : OnlyAddCreates(p)
  <1> USE DEF OnlyAddCreates, Without, Operations, Creates
  <1>1. OnlyAddCreates(SpringbootPets)
    BY SMTT(30) DEF SpringbootPets
  <1>2. OnlyAddCreates(HelidonPets)
    BY SMTT(30) DEF HelidonPets
  <1>3. OnlyAddCreates(QuarkusPets)
    BY SMTT(30) DEF QuarkusPets
  <1>4. OnlyAddCreates(ExpressPets)
    BY SMTT(30) DEF ExpressPets
  <1>5. OnlyAddCreates(FastifyPets)
    BY SMTT(30) DEF FastifyPets
  <1>6. OnlyAddCreates(ElysiaPets)
    BY SMTT(30) DEF ElysiaPets
  <1>7. OnlyAddCreates(FastapiPets)
    BY SMTT(30) DEF FastapiPets
  <1>8. OnlyAddCreates(HyperPets)
    BY SMTT(30) DEF HyperPets
  <1>9. OnlyAddCreates(ActixPets)
    BY SMTT(30) DEF ActixPets
  <1>10. OnlyAddCreates(AspnetcorePets)
    BY SMTT(30) DEF AspnetcorePets
  <1> QED BY <1>1, <1>2, <1>3, <1>4, <1>5, <1>6, <1>7, <1>8, <1>9, <1>10 DEF UpdateStacks

(* The form of FormStacks writes over no row it has read: FormsAreMerged   *)
(* applies to them.                                                        *)
THEOREM FormStacksWriteFields == \A p \in FormStacks : FormsWriteFields(p)
  <1> USE DEF FormsWriteFields, Without, Creates
  <1>1. FormsWriteFields(GoGinPets)
    BY SMTT(30) DEF GoGinPets
  <1>2. FormsWriteFields(GoFiberPets)
    BY SMTT(30) DEF GoFiberPets
  <1>3. FormsWriteFields(SpringbootPets)
    BY SMTT(30) DEF SpringbootPets
  <1>4. FormsWriteFields(HelidonPets)
    BY SMTT(30) DEF HelidonPets
  <1>5. FormsWriteFields(QuarkusPets)
    BY SMTT(30) DEF QuarkusPets
  <1>6. FormsWriteFields(ExpressPets)
    BY SMTT(30) DEF ExpressPets
  <1>7. FormsWriteFields(FastifyPets)
    BY SMTT(30) DEF FastifyPets
  <1>8. FormsWriteFields(HyperPets)
    BY SMTT(30) DEF HyperPets
  <1>9. FormsWriteFields(ActixPets)
    BY SMTT(30) DEF ActixPets
  <1>10. FormsWriteFields(AspnetcorePets)
    BY SMTT(30) DEF AspnetcorePets
  <1>11. FormsWriteFields(RailsPets)
    BY SMTT(30) DEF RailsPets
  <1>12. FormsWriteFields(DrogonPets)
    BY SMTT(30) DEF DrogonPets
  <1> QED BY <1>1, <1>2, <1>3, <1>4, <1>5, <1>6, <1>7, <1>8, <1>9, <1>10, <1>11, <1>12 DEF FormStacks

(* The stacks of PhotoStacks look at the pet where they store the photo:   *)
(* PhotosNeedPets applies to them.                                         *)
THEOREM PhotoStacksCheck == \A p \in PhotoStacks : PhotosChecked(p)
  <1> USE DEF PhotosChecked, Without, Operations
  <1>1. PhotosChecked(ExpressPets)
    BY SMTT(30) DEF ExpressPets
  <1>2. PhotosChecked(FastifyPets)
    BY SMTT(30) DEF FastifyPets
  <1>3. PhotosChecked(AspnetcorePets)
    BY SMTT(30) DEF AspnetcorePets
  <1> QED BY <1>1, <1>2, <1>3 DEF PhotoStacks

(* The stacks of SequenceStacks draw the id of a POST from the sequence    *)
(* and read before they write: OnlyPostedAreReplaced applies to them.      *)
THEOREM SequenceStacksDraw == \A p \in SequenceStacks : DrawsFreshIds(p)
  <1> USE DEF DrawsFreshIds, Without, Creates, Updates
  <1>1. DrawsFreshIds(SpringbootPets)
    BY SMTT(30) DEF SpringbootPets
  <1>2. DrawsFreshIds(HelidonPets)
    BY SMTT(30) DEF HelidonPets
  <1>3. DrawsFreshIds(QuarkusPets)
    BY SMTT(30) DEF QuarkusPets
  <1>4. DrawsFreshIds(ExpressPets)
    BY SMTT(30) DEF ExpressPets
  <1>5. DrawsFreshIds(FastifyPets)
    BY SMTT(30) DEF FastifyPets
  <1>6. DrawsFreshIds(ElysiaPets)
    BY SMTT(30) DEF ElysiaPets
  <1>7. DrawsFreshIds(FastapiPets)
    BY SMTT(30) DEF FastapiPets
  <1>8. DrawsFreshIds(HyperPets)
    BY SMTT(30) DEF HyperPets
  <1>9. DrawsFreshIds(ActixPets)
    BY SMTT(30) DEF ActixPets
  <1>10. DrawsFreshIds(AspnetcorePets)
    BY SMTT(30) DEF AspnetcorePets
  <1>11. DrawsFreshIds(GoGinPets)
    BY SMTT(30) DEF GoGinPets
  <1>12. DrawsFreshIds(GoFiberPets)
    BY SMTT(30) DEF GoFiberPets
  <1>13. DrawsFreshIds(DrogonPets)
    BY SMTT(30) DEF DrogonPets
  <1>14. DrawsFreshIds(KtorPets)
    BY SMTT(30) DEF KtorPets
  <1> QED BY <1>1, <1>2, <1>3, <1>4, <1>5, <1>6, <1>7, <1>8, <1>9, <1>10, <1>11, <1>12, <1>13, <1>14 DEF SequenceStacks, UpdateStacks, FormStacks

(* The POST of InsertStacks is a plain INSERT: InsertsNeverReplace applies *)
(* to them.                                                                *)
THEOREM InsertStacksRefuse == \A p \in InsertStacks : RefusesTakenIds(p)
  <1> USE DEF RefusesTakenIds, Without, Operations, Updates
  <1>1. RefusesTakenIds(HelidonPets)
    BY SMTT(30) DEF HelidonPets
  <1>2. RefusesTakenIds(QuarkusPets)
    BY SMTT(30) DEF QuarkusPets
  <1>3. RefusesTakenIds(ExpressPets)
    BY SMTT(30) DEF ExpressPets
  <1> QED BY <1>1, <1>2, <1>3 DEF InsertStacks

(* The eight stacks of AtomicStacks send at most one statement that shows, *)
(* as their last: RequestsAreAtomic applies to them.                       *)
THEOREM AtomicStacksAreAtomic == \A p \in AtomicStacks : Atomic(p)
  <1> USE DEF Atomic, DrawsFreshIds, Without, Tidy, Preludes, Effects, Operations, Creates, Updates
  <1>1. Atomic(SpringbootPets)
    BY SMTT(30) DEF SpringbootPets
  <1>2. Atomic(HelidonPets)
    BY SMTT(30) DEF HelidonPets
  <1>3. Atomic(QuarkusPets)
    BY SMTT(30) DEF QuarkusPets
  <1>4. Atomic(ExpressPets)
    BY SMTT(30) DEF ExpressPets
  <1>5. Atomic(FastifyPets)
    BY SMTT(30) DEF FastifyPets
  <1>6. Atomic(HyperPets)
    BY SMTT(30) DEF HyperPets
  <1>7. Atomic(ActixPets)
    BY SMTT(30) DEF ActixPets
  <1>8. Atomic(AspnetcorePets)
    BY SMTT(30) DEF AspnetcorePets
  <1> HIDE DEF Atomic
  <1> QED BY <1>1, <1>2, <1>3, <1>4, <1>5, <1>6, <1>7, <1>8 DEF AtomicStacks
=============================================================================
