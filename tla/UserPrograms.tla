---------------------------- MODULE UserPrograms ----------------------------
(***************************************************************************)
(* For each stack, the statements its repository and handlers send for the *)
(* operations on users. UserRequests says what each statement does.        *)
(***************************************************************************)

(* go/gin and go/fiber: store.go, the same in both *)
GoUsers ==
  [create |-> <<"nextval", "upsert">>, entry |-> <<"nextval", "upsert">>,
   ending |-> <<"commit">>, mode |-> "transaction",
   update |-> <<"findId", "lockRow", "rename">>, delete |-> <<"delete">>]

(* java/springboot: PetStore.java; createUsers is @Transactional *)
SpringbootUsers ==
  [create |-> <<"nextval", "upsert">>, entry |-> <<"nextval", "upsert">>,
   ending |-> <<"commit">>, mode |-> "transaction",
   update |-> <<"findId", "lockRow", "rename">>, delete |-> <<"deleteAny">>]

(* java/helidon and java/quarkus: UserRepository.java *)
JakartaUsers ==
  [create |-> <<"insert">>, entry |-> <<"insert">>, ending |-> <<>>, mode |-> "sequence",
   update |-> <<"updateAny">>, delete |-> <<"deleteAny">>]

(* nodejs/express and nodejs/fastify: userRepository.js, Promise.all *)
NodeUsers ==
  [create |-> <<"insert">>, entry |-> <<"insert">>, ending |-> <<>>, mode |-> "atOnce",
   update |-> <<"updateAny">>, delete |-> <<"deleteAny">>]

(* bun/elysia: userRepository.ts *)
ElysiaUsers ==
  [create |-> <<"nextvalAlways", "upsert">>, entry |-> <<"nextvalAlways", "upsert">>,
   ending |-> <<>>, mode |-> "sequence",
   update |-> <<"update">>, delete |-> <<"delete">>]

(* python/fastapi: user_api_impl.py *)
FastapiUsers ==
  [create |-> <<"upsert">>, entry |-> <<"upsert">>, ending |-> <<>>, mode |-> "sequence",
   update |-> <<"find", "updateAny">>, delete |-> <<"delete">>]

(* rust/actix: user.rs, and rust/hyper: server.rs; only the single user    *)
(* gets an id                                                              *)
RustUsers ==
  [create |-> <<"nextval", "upsert">>, entry |-> <<"upsert">>,
   ending |-> <<>>, mode |-> "sequence",
   update |-> <<"update">>, delete |-> <<"delete">>]

(* csharp/aspnetcore: PostgresPetstoreRepository.cs; the controller does   *)
(* not look at what UpdateUser returns                                     *)
AspnetcoreUsers ==
  [create |-> <<"upsertDrawing">>, entry |-> <<"upsertDrawing">>,
   ending |-> <<>>, mode |-> "sequence",
   update |-> <<"updateButId">>, delete |-> <<"delete">>]

(* php/laravel: PostgresPetstoreRepository.php; updateUser is createUser   *)
(* with the id that was read                                               *)
LaravelUsers ==
  [create |-> <<"nextval", "upsertById">>, entry |-> <<"nextval", "upsertById">>,
   ending |-> <<>>, mode |-> "sequence",
   update |-> <<"findId", "nextval", "upsertById">>, delete |-> <<"delete">>]

(* Mutant: PUT reads the user, answers 404 if there is none, and upserts it. *)
RailsUsers_ReadThenUpsert ==
  [create |-> <<"upsert">>, entry |-> <<"upsert">>, ending |-> <<>>, mode |-> "sequence",
   update |-> <<"find", "upsert">>, delete |-> <<"deleteAny">>]

(* ruby/rails: postgres_petstore_repository.rb *)
RailsUsers ==
  [create |-> <<"upsert">>, entry |-> <<"upsert">>, ending |-> <<>>, mode |-> "sequence",
   update |-> <<"update">>, delete |-> <<"deleteAny">>]

(* kotlin/ktor: PostgresPetstoreRepository.kt *)
KtorUsers ==
  [create |-> <<"nextval", "upsert", "fetch">>, entry |-> <<"nextval", "upsert">>,
   ending |-> <<"fetch">>, mode |-> "sequence",
   update |-> <<"find", "upsert">>, delete |-> <<"find", "deleteAny">>]

(* elixir/phoenix: postgres_repository.ex *)
PhoenixUsers ==
  [create |-> <<"upsertButId">>, entry |-> <<"upsertButId">>, ending |-> <<>>, mode |-> "skipping",
   update |-> <<"find", "upsertButId">>, delete |-> <<"find", "deleteAny">>]

(* cpp/drogon: UserController.cc *)
DrogonUsers ==
  [create |-> <<"nextval", "upsert">>, entry |-> <<"nextval", "upsert">>,
   ending |-> <<>>, mode |-> "sequence",
   update |-> <<"findId", "lockRow", "rename">>, delete |-> <<"delete">>]
-----------------------------------------------------------------------------
AllStacks == {GoUsers, SpringbootUsers, JakartaUsers, NodeUsers, ElysiaUsers, FastapiUsers,
              RustUsers, AspnetcoreUsers, LaravelUsers, RailsUsers, KtorUsers,
              PhoenixUsers, DrogonUsers}

(* Stacks whose PUT is an UPDATE: all but Ktor and Phoenix, which read the *)
(* user and then upsert it, and Laravel, which would.                      *)
UpdateStacks == AllStacks \ {KtorUsers, PhoenixUsers, LaravelUsers}

(* Stacks that give an id to every user they create, and keep one in PUT.  *)
IdStacks == {GoUsers, SpringbootUsers, AspnetcoreUsers, PhoenixUsers, DrogonUsers}
=============================================================================
