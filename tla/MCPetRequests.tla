--------------------------- MODULE MCPetRequests ---------------------------
EXTENDS PetRequests, StackPrograms, TLC

CONSTANTS w1, w2, n1, n2, s1, s2

MCSymmetry == Permutations({w1, w2}) \cup Permutations({n1, n2}) \cup Permutations({s1, s2})

(* The stacks of which MCPets claims something, each program once.         *)
ClaimedStacks == UpdateStacks \cup FormStacks

(* Gin's POST, and with it Fiber's, overwrites on conflict, as it does in  *)
(* all of SequenceStacks but InsertStacks.                                 *)
OverwritingStacks == {GoGinPets, GoFiberPets}

RereadingStacks == {FastapiPets, KtorPets}
NoStacks == {}
=============================================================================
