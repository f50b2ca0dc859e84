--------------------------- MODULE SerialExecutor ---------------------------
(***************************************************************************)
(* What the control server promises about benchmark jobs, without saying   *)
(* how: tickets are handed out in increasing order, at most one ticket is  *)
(* being worked on, work starts in ticket order, and a ticket may be       *)
(* withdrawn only while it waits.                                          *)
(***************************************************************************)
EXTENDS Naturals

CONSTANT MaxTickets        \* bound on the tickets ever issued

VARIABLES
  issued,                  \* number of tickets handed out so far
  waiting,                 \* tickets that wait for their turn
  active                   \* the tickets being worked on

vars == <<issued, waiting, active>>

Init ==
  /\ issued = 0
  /\ waiting = {}
  /\ active = {}

(* n new tickets join the line together. *)
Submit(n) ==
  /\ issued + n <= MaxTickets
  /\ issued' = issued + n
  /\ waiting' = waiting \cup ((issued + 1)..(issued + n))
  /\ UNCHANGED active

(* A ticket leaves the line without ever being worked on. *)
Withdraw(i) ==
  /\ i \in waiting
  /\ waiting' = waiting \ {i}
  /\ UNCHANGED <<issued, active>>

(* The oldest waiting ticket is taken, and only when nothing is in work. *)
Start(i) ==
  /\ active = {}
  /\ i \in waiting
  /\ \A j \in waiting : i <= j
  /\ active' = {i}
  /\ waiting' = waiting \ {i}
  /\ UNCHANGED issued

Finish ==
  /\ active # {}
  /\ active' = {}
  /\ UNCHANGED <<issued, waiting>>

Next ==
  \/ \E n \in 1..MaxTickets : Submit(n)
  \/ \E i \in waiting : Withdraw(i) \/ Start(i)
  \/ Finish

SafetySpec == Init /\ [][Next]_vars

(* Work that can start starts, and work that started ends. *)
Spec == SafetySpec /\ WF_vars(\E i \in waiting : Start(i)) /\ WF_vars(Finish)
=============================================================================
