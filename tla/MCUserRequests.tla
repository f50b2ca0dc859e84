--------------------------- MODULE MCUserRequests ---------------------------
(* Two requests at a time for two users, whose lists may come in either    *)
(* order; the sequence has two ids more than one list needs.               *)
EXTENDS UserRequests

CONSTANTS n1, n2

P == INSTANCE UserPrograms

MCPrograms == P!AllStacks
MCPostCreates == P!UpdateStacks
MCGiveIds == P!IdStacks
MCLists == {<<n1, n2>>, <<n2, n1>>}
=============================================================================
