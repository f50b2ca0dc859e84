--------------------------- MODULE StackPrograms ---------------------------
(***************************************************************************)
(* For each stack, the statements its repository sends for the operations  *)
(* on pets, in order. PetRequests says what each statement does. Several   *)
(* stacks share a program: the benchmark compares runtimes, and the        *)
(* optimised ones have merged statements their siblings send one by one.   *)
(***************************************************************************)

(* go/gin: store.go *)
GoGinPets_IdOneOnFailure ==
  [add |-> <<"nextvalOr1", "upsert">>, put |-> <<"select", "upsert">>,
   form |-> <<"update">>, delete |-> <<"delete">>,
   photo |-> <<"select", "photo">>]
GoGinPets ==
  [add |-> <<"nextval", "upsert">>, put |-> <<"select", "upsert">>,
   form |-> <<"update">>, delete |-> <<"delete">>,
   photo |-> <<"select", "photo">>]

(* go/fiber: store.go, the same statements *)
GoFiberPets ==
  [add |-> <<"nextval", "upsert">>, put |-> <<"select", "upsert">>,
   form |-> <<"update">>, delete |-> <<"delete">>,
   photo |-> <<"select", "photo">>]

(* java/springboot: PetStore.java *)
SpringbootPets ==
  [add |-> <<"nextval", "upsert">>, put |-> <<"update">>,
   form |-> <<"updateAny">>, delete |-> <<"delete">>,
   photo |-> <<"select", "photo">>]

(* java/helidon: PetRepository.java; ids from an AtomicLong *)
HelidonPets ==
  [add |-> <<"nextval", "insert">>, put |-> <<"update">>,
   form |-> <<"updateAny">>, delete |-> <<"delete">>,
   photo |-> <<"select", "photo">>]

(* java/quarkus: PetRepository.java; ids from an AtomicLong *)
QuarkusPets ==
  [add |-> <<"nextval", "insert">>, put |-> <<"update">>,
   form |-> <<"updateAny">>, delete |-> <<"delete">>,
   photo |-> <<"select", "photo">>]

(* nodejs/express: petRepository.js *)
ExpressPets_SelectThenInsert ==
  [add |-> <<"insert">>, put |-> <<"update">>, form |-> <<"updateAny">>,
   delete |-> <<"delete">>, photo |-> <<"select", "photo">>]
ExpressPets ==
  [add |-> <<"insert">>, put |-> <<"update">>,
   form |-> <<"updateAny">>, delete |-> <<"delete">>,
   photo |-> <<"photoIfPet">>]

(* nodejs/fastify: petRepository.js *)
FastifyPets ==
  [add |-> <<"upsert">>, put |-> <<"update">>,
   form |-> <<"updateAny">>, delete |-> <<"delete">>,
   photo |-> <<"photoIfPet">>]

(* bun/elysia: petRepository.ts *)
ElysiaPets ==
  [add |-> <<"nextvalAlways", "upsert">>, put |-> <<"update">>,
   form |-> <<"select", "updateAny">>, delete |-> <<"deleteChecked">>,
   photo |-> <<"select", "photo">>]

(* python/fastapi: pet_api_impl.py *)
FastapiPets ==
  [add |-> <<"nextval", "upsert">>, put |-> <<"select", "updateReturning">>,
   form |-> <<"select", "updateAny">>, delete |-> <<"deleteChecked">>,
   photo |-> <<"select", "photo">>]

(* rust/hyper: server.rs *)
HyperPets ==
  [add |-> <<"nextval", "upsert">>, put |-> <<"update">>,
   form |-> <<"update">>, delete |-> <<"delete">>,
   photo |-> <<"select", "photo">>]

(* rust/actix: pet.rs *)
ActixPets_ReadThenWrite ==
  [add |-> <<"nextval", "upsert">>, put |-> <<"select", "upsert">>, form |-> <<"select", "update">>,
   delete |-> <<"delete">>, photo |-> <<"select", "photo">>]
ActixPets ==
  [add |-> <<"nextval", "upsert">>, put |-> <<"update">>,
   form |-> <<"update">>, delete |-> <<"delete">>,
   photo |-> <<"select", "photo">>]

(* csharp/aspnetcore: PostgresPetstoreRepository.cs *)
AspnetcorePets ==
  [add |-> <<"upsert">>, put |-> <<"update">>,
   form |-> <<"update">>, delete |-> <<"deleteChecked">>,
   photo |-> <<"photoIfPet">>]

(* php/laravel: PostgresPetstoreRepository.php; PUT is addPet *)
LaravelPets ==
  [add |-> <<"nextval", "upsert">>, put |-> <<"upsert">>,
   form |-> <<"select", "upsert">>, delete |-> <<"deleteChecked">>,
   photo |-> <<"select", "photo">>]

(* ruby/rails: postgres_petstore_repository.rb *)
RailsPets ==
  [add |-> <<"nextval", "upsert">>, put |-> <<"upsert">>,
   form |-> <<"updateAny">>, delete |-> <<"delete">>,
   photo |-> <<"select", "photo">>]

(* kotlin/ktor: PostgresPetstoreRepository.kt *)
KtorPets ==
  [add |-> <<"nextval", "upsert", "fetch">>, put |-> <<"select", "upsert", "fetch">>,
   form |-> <<"select", "upsert", "fetch">>, delete |-> <<"select", "delete">>,
   photo |-> <<"select", "photo">>]

(* elixir/phoenix: postgres_repository.ex *)
PhoenixPets ==
  [add |-> <<"nextvalOr1", "upsert">>, put |-> <<"select", "upsert">>,
   form |-> <<"select", "upsert">>, delete |-> <<"delete">>,
   photo |-> <<"select", "photo">>]

(* cpp/drogon: PetController.cc *)
DrogonPets ==
  [add |-> <<"nextval", "upsert">>, put |-> <<"select", "upsert">>,
   form |-> <<"update">>, delete |-> <<"deleteChecked">>,
   photo |-> <<"select", "photo">>]
-----------------------------------------------------------------------------
(* Stacks whose PUT and form are UPDATE statements. *)
UpdateStacks == {SpringbootPets, HelidonPets, QuarkusPets, ExpressPets, FastifyPets,
                 ElysiaPets, FastapiPets, HyperPets, ActixPets, AspnetcorePets}

(* Stacks whose form is one UPDATE of the fields that were sent. *)
FormStacks == {GoGinPets, GoFiberPets, SpringbootPets, HelidonPets, QuarkusPets,
               ExpressPets, FastifyPets, HyperPets, ActixPets, AspnetcorePets,
               RailsPets, DrogonPets}

(* Stacks that check the pet in the statement that stores the photo. *)
PhotoStacks == {ExpressPets, FastifyPets, AspnetcorePets}

(* Stacks whose every operation is atomic, but for the photo. *)
AtomicStacks == {SpringbootPets, HelidonPets, QuarkusPets, ExpressPets, FastifyPets,
                 HyperPets, ActixPets, AspnetcorePets}

(* Stacks that draw ids from a sequence and whose PUT creates no row: all  *)
(* but Rails and Laravel, whose PUT can use an id the sequence has yet to  *)
(* reach, and Phoenix, which goes on with id 1 when nextval fails.         *)
SequenceStacks == UpdateStacks \cup (FormStacks \ {RailsPets}) \cup {KtorPets}

(* Those of them whose POST is a plain INSERT and refuses a taken id. *)
InsertStacks == {HelidonPets, QuarkusPets, ExpressPets}
=============================================================================
