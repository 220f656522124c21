-------------------------- MODULE PhysicalHistory --------------------------
(***************************************************************************)
(* What the dice and coin screen promises: one history of events that the  *)
(* operator extends, takes back and clears, and, once the history carries  *)
(* the target, its dice and its coins handed on in the order they fell.    *)
(***************************************************************************)
EXTENDS Integers, Sequences, FiniteSets

CONSTANTS MaxEvents, Target, Faces

VARIABLES
  history,  \* the events of this visit, oldest first
  handed    \* what the Generate screen holds: dice and coin bytes, or Nothing

vars == <<history, handed>>

Nothing == [dice |-> <<>>, coin |-> <<>>]

Roll(v) == [kind |-> "roll", value |-> v]
Flip(v) == [kind |-> "flip", value |-> v]
Events == {Roll(v) : v \in Faces} \cup {Flip(v) : v \in 0..1}

(* The places of a kind in the history, and a set of places in ascending   *)
(* order: there is one such function.                                      *)
Places(kind) == {i \in DOMAIN history : history[i].kind = kind}
Ascending(S) == {at \in [1..Cardinality(S) -> S] :
                   \A i, j \in 1..Cardinality(S) : i < j => at[i] < at[j]}
Values(at) == [k \in DOMAIN at |-> history[at[k]].value]

Init == history = <<>> /\ handed = Nothing

Enter == \E e \in Events :
  /\ handed = Nothing /\ Len(history) < MaxEvents
  /\ history' = Append(history, e) /\ UNCHANGED handed

TakeBack ==
  /\ history # <<>>
  /\ history' = SubSeq(history, 1, Len(history) - 1) /\ UNCHANGED handed

HandOn ==
  /\ 2585 * Cardinality(Places("roll")) + 1000 * Cardinality(Places("flip")) >= 1000 * Target
  /\ \E rolls \in Ascending(Places("roll")), flips \in Ascending(Places("flip")) :
       handed' = [dice |-> Values(rolls), coin |-> Values(flips)]
  /\ history' = <<>>

Discard == history' = <<>> /\ handed' = Nothing

Next == Enter \/ TakeBack \/ HandOn \/ Discard

Spec == Init /\ [][Next]_vars
=============================================================================
