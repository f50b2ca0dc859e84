----------------------------- MODULE MCPetCache -----------------------------
EXTENDS CachePrograms, TLC

CONSTANTS w1, w2, p1

MCSymmetry == Permutations({w1, w2})

OneProcessStacks == {SpringbootCache, HelidonCache, ExpressCache}
AllCaches == OneProcessStacks \cup {FastifyCache}

(* 10 s and 2 s in the Java stacks, 3 s and 5 s in the Node ones. *)
MCTTL == [c \in Caches |-> IF c = "pets" THEN 2 ELSE 1]
=============================================================================
