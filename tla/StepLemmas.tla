----------------------------- MODULE StepLemmas -----------------------------
(***************************************************************************)
(* Facts about the sequence of steps a request has yet to take.            *)
(***************************************************************************)
EXTENDS Naturals, Sequences, SequenceTheorems, TLAPS

(* What is left after a step that is not the last.                         *)
LEMMA TailOfMore ==
  ASSUME NEW S, NEW s \in Seq(S), s # <<>>, Len(s) # 1
  PROVE  Tail(s) \in Seq(S) /\ Tail(s) # <<>>
  <1>1. Len(s) \in Nat \ {0} /\ Len(<<>>) = 0
    BY EmptySeq
  <1>2. Tail(s) \in Seq(S) /\ Len(Tail(s)) = Len(s) - 1
    BY HeadTailProperties
  <1>3. Len(Tail(s)) # 0
    BY <1>1, <1>2
  <1> QED BY <1>1, <1>2, <1>3, Zenon

(* A step is used up: the sequence never stays the same.                   *)
LEMMA TailIsOther ==
  ASSUME NEW S, NEW s \in Seq(S), s # <<>>
  PROVE  Tail(s) # s
  <1>0. SUFFICES ASSUME Tail(s) = s PROVE FALSE
    OBVIOUS
  <1>1. Len(s) \in Nat
    BY LenProperties
  <1>2. Len(Tail(s)) = Len(s) - 1
    BY HeadTailProperties
  <1>3. Len(Tail(s)) = Len(s)
    BY <1>0, Zenon
  <1> QED BY <1>1, <1>2, <1>3

(* The steps that are left are among the steps there were, in their order. *)
LEMMA TailKeeps ==
  ASSUME NEW S, NEW s \in Seq(S), s # <<>>
  PROVE  /\ Len(s) \in Nat \ {0} /\ Len(Tail(s)) = Len(s) - 1
         /\ \A i \in 1..Len(Tail(s)) : Tail(s)[i] = s[i + 1]
         /\ Head(s) = s[1] /\ Head(s) \in S
  <1>1. Len(s) \in Nat \ {0}
    BY EmptySeq
  <1>2. Head(s) = s[1]
    OBVIOUS
  <1> QED BY <1>1, <1>2, HeadTailProperties
=============================================================================
