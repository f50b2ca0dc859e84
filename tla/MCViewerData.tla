---------------------------- MODULE MCViewerData ----------------------------
EXTENDS ViewerData

(* "jvm " and "jvm": the label as it was typed, and without the blank. *)
MCTrimmed == [l \in Labels |-> "jvm"]
=============================================================================
