--------------------------- MODULE CachePrograms ----------------------------
(***************************************************************************)
(* For each stack with a read cache: the steps of its operations, and the  *)
(* caches it evicts or overwrites on every write ("kept"). Forms do not    *)
(* evict the inventory of the Java stacks, which relies on its short life. *)
(***************************************************************************)
EXTENDS PetCache

ReadPet == <<On("lookup", {"pets"}), Sql("selectPet"), On("put", {"pets"})>>
ReadStatus == <<On("lookup", {"pets"}), Sql("select"), On("put", {"pets"})>>
ReadInventory == <<On("lookup", {"inventory"}), Sql("select"), On("put", {"inventory"})>>

(* java/springboot: annotations of PetStore.java; puts and evictions come  *)
(* after the method returned.                                              *)
SpringbootCache ==
  [kept |-> {"pets"},
   steps |->
    [get |-> ReadPet,
     inventory |-> ReadInventory,
     add |-> <<Sql("upsert"), On("put", {"pets"}), On("evict", {"inventory"})>>,
     update |-> <<Sql("update"), On("put", {"pets"}), On("evict", {"inventory"})>>,
     form |-> <<Sql("form"), On("evict", {"pets"})>>,
     delete |-> <<Sql("delete"), On("evict", {"pets"}), On("evict", {"inventory"})>>]]

(* java/helidon: PetRepository.java; a form and a DELETE evict first. *)
HelidonCache ==
  [kept |-> {"pets"},
   steps |->
    [get |-> ReadPet,
     inventory |-> ReadInventory,
     add |-> <<Sql("insert"), On("put", {"pets"}), On("evict", {"inventory"})>>,
     update |-> <<Sql("update"), On("put", {"pets"}), On("evict", {"inventory"})>>,
     form |-> <<On("evict", {"pets"}), Sql("form")>>,
     delete |-> <<On("evict", {"pets"}), On("evict", {"inventory"}), Sql("delete")>>]]

(* Mutant: the form of Express does not call invalidatePetCache. *)
ExpressCache_FormKeepsEntries ==
  [kept |-> Caches,
   steps |->
    [get |-> ReadStatus,
     inventory |-> ReadInventory,
     add |-> <<Sql("insert"), On("evict", Caches)>>,
     update |-> <<Sql("update"), On("evict", Caches)>>,
     form |-> <<Sql("form")>>,
     delete |-> <<Sql("delete"), On("evict", Caches)>>]]

(* nodejs/express: petRepository.js; invalidatePetCache after each write. *)
ExpressCache ==
  [kept |-> Caches,
   steps |->
    [get |-> ReadStatus,
     inventory |-> ReadInventory,
     add |-> <<Sql("insert"), On("evict", Caches)>>,
     update |-> <<Sql("update"), On("evict", Caches)>>,
     form |-> <<Sql("form"), On("evict", Caches)>>,
     delete |-> <<Sql("delete"), On("evict", Caches)>>]]

(* nodejs/fastify: petRepository.js, the same but for the upsert. *)
FastifyCache ==
  [kept |-> Caches,
   steps |->
    [get |-> ReadStatus,
     inventory |-> ReadInventory,
     add |-> <<Sql("upsert"), On("evict", Caches)>>,
     update |-> <<Sql("update"), On("evict", Caches)>>,
     form |-> <<Sql("form"), On("evict", Caches)>>,
     delete |-> <<Sql("delete"), On("evict", Caches)>>]]
=============================================================================
