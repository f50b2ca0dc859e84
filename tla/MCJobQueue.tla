----------------------------- MODULE MCJobQueue -----------------------------
EXTENDS JobQueue, TLC

CONSTANTS go, drogon, naive

(* Two stacks with one variant, posted one by one or as a batch of both.   *)
MCTargets == {<<go, naive>>, <<drogon, naive>>}
MCStackLists == {<<go, drogon>>}
MCVariantLists == {<<naive>>}
=============================================================================
