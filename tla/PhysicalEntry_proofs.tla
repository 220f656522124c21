------------------------ MODULE PhysicalEntry_proofs ------------------------
(***************************************************************************)
(* What holds of the dice and coin screen for every capacity, every width  *)
(* of the strip and every target the code can commit.                      *)
(*                                                                         *)
(* The lemmas speak of the stores as values, not of steps: what counting   *)
(* the rolls of a history does when an event is added or taken away, and   *)
(* that a push or an undo done on two stores keeps them matched.  The      *)
(* proof of the invariant then has one short case per action.              *)
(***************************************************************************)
EXTENDS PhysicalEntry, FiniteSetTheorems, FunctionTheorems, SequenceTheorems,
        WellFoundedInduction, TLAPS

---------------------------------------------------------------------------
(* Counting the events of one tag. *)

LEMMA CountType ==
  ASSUME NEW ev, NEW t, NEW k \in Nat
  PROVE  CountBefore(ev, t, k) \in Nat /\ CountBefore(ev, t, k) <= k
<1> DEFINE S == {j \in 0..(k - 1) : ev[j].tag = t}
<1>1. IsFiniteSet(0..(k - 1)) /\ Cardinality(0..(k - 1)) = k
  BY FS_Interval
<1>2. S \in SUBSET (0..(k - 1))
  OBVIOUS
<1>3. IsFiniteSet(S) /\ Cardinality(S) <= k
  BY <1>1, <1>2, FS_Subset
<1>4. Cardinality(S) \in Nat
  BY <1>3, FS_CardinalityType
<1> QED BY <1>3, <1>4 DEF CountBefore

LEMMA CountZero == ASSUME NEW ev, NEW t PROVE CountBefore(ev, t, 0) = 0
BY CountType

LEMMA CountAgree ==
  ASSUME NEW ev, NEW fv, NEW t, NEW k \in Nat,
         \A j \in 0..(k - 1) : ev[j] = fv[j]
  PROVE  CountBefore(ev, t, k) = CountBefore(fv, t, k)
<1>1. {j \in 0..(k - 1) : ev[j].tag = t} = {j \in 0..(k - 1) : fv[j].tag = t}
  OBVIOUS
<1> QED BY <1>1 DEF CountBefore

LEMMA CountStep ==
  ASSUME NEW ev, NEW t, NEW k \in Nat
  PROVE  CountBefore(ev, t, k + 1)
           = IF ev[k].tag = t THEN CountBefore(ev, t, k) + 1 ELSE CountBefore(ev, t, k)
<1> DEFINE S == {j \in 0..(k - 1) : ev[j].tag = t}
           T == {j \in 0..((k + 1) - 1) : ev[j].tag = t}
<1>1. IsFiniteSet(S) /\ k \notin S
  <2>1. IsFiniteSet(0..(k - 1))
    BY FS_Interval
  <2>2. S \in SUBSET (0..(k - 1))
    OBVIOUS
  <2> QED BY <2>1, <2>2, FS_Subset
<1>2. CASE ev[k].tag = t
  <2>1. T = S \cup {k}
    BY <1>2
  <2>2. Cardinality(S \cup {k}) = Cardinality(S) + 1
    BY <1>1, FS_AddElement
  <2> QED BY <1>2, <2>1, <2>2 DEF CountBefore
<1>3. CASE ev[k].tag # t
  <2>1. T = S
    BY <1>3
  <2> QED BY <1>3, <2>1 DEF CountBefore
<1> QED BY <1>2, <1>3

LEMMA CountMonotone ==
  ASSUME NEW ev, NEW t, NEW k \in Nat, NEW i \in 0..k
  PROVE  CountBefore(ev, t, i) <= CountBefore(ev, t, k)
<1> DEFINE S == {j \in 0..(i - 1) : ev[j].tag = t}
           T == {j \in 0..(k - 1) : ev[j].tag = t}
<1>1. IsFiniteSet(0..(k - 1))
  BY FS_Interval
<1>2. T \in SUBSET (0..(k - 1)) /\ S \in SUBSET T
  OBVIOUS
<1>3. IsFiniteSet(T)
  BY <1>1, <1>2, FS_Subset
<1>4. Cardinality(S) <= Cardinality(T)
  BY <1>2, <1>3, FS_Subset
<1> QED BY <1>4 DEF CountBefore

(* An event of tag t before k is counted below k. *)
LEMMA CountBelow ==
  ASSUME NEW ev, NEW t, NEW k \in Nat, NEW i \in 0..(k - 1), ev[i].tag = t
  PROVE  CountBefore(ev, t, i) + 1 <= CountBefore(ev, t, k)
<1>1. CountBefore(ev, t, i + 1) = CountBefore(ev, t, i) + 1
  BY CountStep
<1>2. CountBefore(ev, t, i + 1) <= CountBefore(ev, t, k)
  BY CountMonotone
<1> QED BY <1>1, <1>2

---------------------------------------------------------------------------
(* The bytes of one tag, when the history grows or shrinks by one event.   *)
(* The old and the new history agree below n, the old and the new bytes    *)
(* below the count of the tag.                                             *)

LEMMA PlacedPush ==
  ASSUME NEW ev, NEW fv, NEW t, NEW n \in Nat, NEW b, NEW c,
         \A j \in 0..(n - 1) : ev[j] = fv[j],
         Placed(ev, n, t, b),
         fv[n].tag = t, c[CountBefore(ev, t, n)] = fv[n].value,
         \A i \in 0..(CountBefore(ev, t, n) - 1) : c[i] = b[i]
  PROVE  Placed(fv, n + 1, t, c)
<1> SUFFICES ASSUME NEW k \in 0..n, fv[k].tag = t
             PROVE  c[CountBefore(fv, t, k)] = fv[k].value
  BY DEF Placed
<1>1. CountBefore(fv, t, k) = CountBefore(ev, t, k)
  BY CountAgree
<1>2. CASE k = n
  BY <1>1, <1>2
<1>3. CASE k \in 0..(n - 1)
  <2>1. ev[k] = fv[k] /\ b[CountBefore(ev, t, k)] = fv[k].value
    BY <1>3 DEF Placed
  <2>2. CountBefore(ev, t, k) + 1 <= CountBefore(ev, t, n)
    BY <1>3, <2>1, CountBelow
  <2>3. CountBefore(ev, t, k) \in 0..(CountBefore(ev, t, n) - 1)
    BY <2>2, CountType
  <2> QED BY <1>1, <2>1, <2>3
<1> QED BY <1>2, <1>3

LEMMA PlacedOther ==
  ASSUME NEW ev, NEW fv, NEW t, NEW n \in Nat, NEW b,
         \A j \in 0..(n - 1) : ev[j] = fv[j],
         Placed(ev, n, t, b), fv[n].tag # t
  PROVE  Placed(fv, n + 1, t, b)
<1> SUFFICES ASSUME NEW k \in 0..n, fv[k].tag = t
             PROVE  b[CountBefore(fv, t, k)] = fv[k].value
  BY DEF Placed
<1>1. k \in 0..(n - 1)
  OBVIOUS
<1>2. CountBefore(fv, t, k) = CountBefore(ev, t, k)
  BY CountAgree
<1> QED BY <1>1, <1>2 DEF Placed

LEMMA PlacedPop ==
  ASSUME NEW ev, NEW fv, NEW t, NEW n \in Nat, NEW b, NEW c,
         \A j \in 0..(n - 1) : ev[j] = fv[j],
         Placed(ev, n + 1, t, b),
         \A i \in 0..(CountBefore(ev, t, n) - 1) : c[i] = b[i]
  PROVE  Placed(fv, n, t, c)
<1> SUFFICES ASSUME NEW k \in 0..(n - 1), fv[k].tag = t
             PROVE  c[CountBefore(fv, t, k)] = fv[k].value
  BY DEF Placed
<1>1. CountBefore(fv, t, k) = CountBefore(ev, t, k)
  BY CountAgree
<1>2. ev[k] = fv[k] /\ b[CountBefore(ev, t, k)] = fv[k].value
  BY DEF Placed
<1>3. CountBefore(ev, t, k) + 1 <= CountBefore(ev, t, n)
  BY <1>2, CountBelow
<1>4. CountBefore(ev, t, k) \in 0..(CountBefore(ev, t, n) - 1)
  BY <1>3, CountType
<1> QED BY <1>1, <1>2, <1>4

---------------------------------------------------------------------------
(* Session and staging, pushed and undone together. *)

(* What matching stores leave room for. *)
LEMMA Room ==
  ASSUME NEW s \in PhysicalSession, NEW g \in PhysicalStaging, Matches(s, g)
  PROVE  /\ MaxEvents \in Nat /\ s.len \in 0..MaxEvents
         /\ s.events \in [Slots -> PackedEvent]
         /\ g.dice \in [Slots -> 0..6] /\ g.coin \in [Slots -> 0..1]
         /\ s.rolls \in Nat /\ g.diceLen = s.rolls /\ s.flips \in Nat /\ g.coinLen = s.flips
         /\ s.rolls + s.flips = s.len
         /\ s.rolls = CountBefore(s.events, TagRoll, s.len)
         /\ s.flips = CountBefore(s.events, TagFlip, s.len)
         /\ Placed(s.events, s.len, TagRoll, g.dice)
         /\ Placed(s.events, s.len, TagFlip, g.coin)
BY CapacityAssumption DEF PhysicalSession, PhysicalStaging, Matches

(* The store operations field by field. *)
LEMMA SessionForms ==
  ASSUME NEW s \in PhysicalSession, NEW v
  PROVE  /\ PushRoll(s, v) =
              [events |-> [s.events EXCEPT ![s.len] = [tag |-> TagRoll, value |-> v]],
               len |-> s.len + 1, rolls |-> s.rolls + 1, flips |-> s.flips]
         /\ PushFlip(s, v) =
              [events |-> [s.events EXCEPT ![s.len] = [tag |-> TagFlip, value |-> v]],
               len |-> s.len + 1, rolls |-> s.rolls, flips |-> s.flips + 1]
         /\ UndoRoll(s) =
              [events |-> [s.events EXCEPT ![s.len - 1] = ZeroEvent],
               len |-> s.len - 1, rolls |-> s.rolls - 1, flips |-> s.flips]
         /\ UndoFlip(s) =
              [events |-> [s.events EXCEPT ![s.len - 1] = ZeroEvent],
               len |-> s.len - 1, rolls |-> s.rolls, flips |-> s.flips - 1]
BY DEF PushRaw, Unpush, PushRoll, PushFlip, UndoRoll, UndoFlip

LEMMA SessionFields ==
  ASSUME NEW s \in PhysicalSession, NEW v
  PROVE  /\ PushRoll(s, v).len = s.len + 1 /\ PushFlip(s, v).len = s.len + 1
         /\ PushRoll(s, v).events = [s.events EXCEPT ![s.len] = [tag |-> TagRoll, value |-> v]]
         /\ PushFlip(s, v).events = [s.events EXCEPT ![s.len] = [tag |-> TagFlip, value |-> v]]
         /\ UndoRoll(s).len = s.len - 1 /\ UndoFlip(s).len = s.len - 1
         /\ UndoRoll(s).events = [s.events EXCEPT ![s.len - 1] = ZeroEvent]
         /\ UndoFlip(s).events = [s.events EXCEPT ![s.len - 1] = ZeroEvent]
BY DEF PushRoll, PushFlip, UndoRoll, UndoFlip, PushRaw, Unpush

LEMMA StagingForms ==
  ASSUME NEW g \in PhysicalStaging, NEW v
  PROVE  /\ PushDice(g, v) =
              [dice |-> [g.dice EXCEPT ![g.diceLen] = v], diceLen |-> g.diceLen + 1,
               coin |-> g.coin, coinLen |-> g.coinLen]
         /\ PushCoin(g, v) =
              [dice |-> g.dice, diceLen |-> g.diceLen,
               coin |-> [g.coin EXCEPT ![g.coinLen] = v], coinLen |-> g.coinLen + 1]
         /\ UndoDice(g) =
              [dice |-> [g.dice EXCEPT ![g.diceLen - 1] = 0], diceLen |-> g.diceLen - 1,
               coin |-> g.coin, coinLen |-> g.coinLen]
         /\ UndoCoin(g) =
              [dice |-> g.dice, diceLen |-> g.diceLen,
               coin |-> [g.coin EXCEPT ![g.coinLen - 1] = 0], coinLen |-> g.coinLen - 1]
BY DEF PushDice, PushCoin, UndoDice, UndoCoin, WithDice, WithCoin

LEMMA PushRollMatches ==
  ASSUME NEW s \in PhysicalSession, NEW g \in PhysicalStaging, NEW v \in Faces,
         Matches(s, g), s.len < MaxEvents
  PROVE  /\ PushRoll(s, v) \in PhysicalSession
         /\ PushDice(g, v) \in PhysicalStaging
         /\ Matches(PushRoll(s, v), PushDice(g, v))
<1> DEFINE n == s.len
           e == [tag |-> TagRoll, value |-> v]
           fv == [s.events EXCEPT ![n] = e]
           c == [g.dice EXCEPT ![g.diceLen] = v]
<1>0. /\ PushRoll(s, v) = [events |-> fv, len |-> n + 1, rolls |-> s.rolls + 1, flips |-> s.flips]
      /\ PushDice(g, v) = [dice |-> c, diceLen |-> g.diceLen + 1,
                         coin |-> g.coin, coinLen |-> g.coinLen]
  BY SessionForms, StagingForms
<1>1. /\ MaxEvents \in Nat /\ n \in Nat /\ n \in Slots
      /\ s.events \in [Slots -> PackedEvent]
      /\ g.dice \in [Slots -> 0..6] /\ g.coin \in [Slots -> 0..1]
      /\ s.rolls \in Nat /\ g.diceLen = s.rolls /\ s.flips \in Nat /\ g.coinLen = s.flips
      /\ s.rolls + s.flips = n
  BY Room DEF Slots
<1>2. /\ s.rolls = CountBefore(s.events, TagRoll, n)
      /\ s.flips = CountBefore(s.events, TagFlip, n)
      /\ Placed(s.events, n, TagRoll, g.dice)
      /\ Placed(s.events, n, TagFlip, g.coin)
  BY Room
<1>3. /\ e \in PackedEvent /\ fv \in [Slots -> PackedEvent] /\ fv[n] = e
      /\ \A j \in 0..(n - 1) : s.events[j] = fv[j]
  BY <1>1, FacesAssumption DEF PackedEvent, TagRoll, TagFlip, Slots
<1>4. /\ c \in [Slots -> 0..6] /\ c[g.diceLen] = v
      /\ \A i \in 0..(g.diceLen - 1) : c[i] = g.dice[i]
  BY <1>1, FacesAssumption DEF Slots
<1>5. PushRoll(s, v) \in PhysicalSession /\ PushDice(g, v) \in PhysicalStaging
  BY <1>0, <1>1, <1>3, <1>4 DEF PhysicalSession, PhysicalStaging, Slots
<1> HIDE DEF n, fv, c
<1>6. /\ CountBefore(fv, TagRoll, n + 1) = s.rolls + 1
      /\ CountBefore(fv, TagFlip, n + 1) = s.flips
  <2>1. CountBefore(fv, TagRoll, n) = s.rolls
    BY <1>1, <1>2, <1>3, CountAgree
  <2>2. CountBefore(fv, TagFlip, n) = s.flips
    BY <1>1, <1>2, <1>3, CountAgree
  <2> QED BY <1>1, <1>3, <2>1, <2>2, CountStep DEF TagRoll, TagFlip
<1>7. Placed(fv, n + 1, TagRoll, c)
  <2>1. fv[n].tag = TagRoll /\ c[CountBefore(s.events, TagRoll, n)] = fv[n].value
    BY <1>1, <1>2, <1>3, <1>4
  <2>2. \A i \in 0..(CountBefore(s.events, TagRoll, n) - 1) : c[i] = g.dice[i]
    BY <1>1, <1>2, <1>4
  <2> QED BY <1>1, <1>2, <1>3, <2>1, <2>2, PlacedPush, SMTT(30)
<1>8. Placed(fv, n + 1, TagFlip, g.coin)
  <2>1. fv[n].tag # TagFlip
    BY <1>3 DEF TagRoll, TagFlip
  <2> QED BY <1>1, <1>2, <1>3, <2>1, PlacedOther
<1>9. Matches(PushRoll(s, v), PushDice(g, v))
  BY <1>0, <1>1, <1>6, <1>7, <1>8 DEF Matches
<1> QED BY <1>5, <1>9

LEMMA PushFlipMatches ==
  ASSUME NEW s \in PhysicalSession, NEW g \in PhysicalStaging, NEW v \in 0..1,
         Matches(s, g), s.len < MaxEvents
  PROVE  /\ PushFlip(s, v) \in PhysicalSession
         /\ PushCoin(g, v) \in PhysicalStaging
         /\ Matches(PushFlip(s, v), PushCoin(g, v))
<1> DEFINE n == s.len
           e == [tag |-> TagFlip, value |-> v]
           fv == [s.events EXCEPT ![n] = e]
           c == [g.coin EXCEPT ![g.coinLen] = v]
<1>0. /\ PushFlip(s, v) = [events |-> fv, len |-> n + 1, rolls |-> s.rolls, flips |-> s.flips + 1]
      /\ PushCoin(g, v) = [dice |-> g.dice, diceLen |-> g.diceLen,
                         coin |-> c, coinLen |-> g.coinLen + 1]
  BY SessionForms, StagingForms
<1>1. /\ MaxEvents \in Nat /\ n \in Nat /\ n \in Slots
      /\ s.events \in [Slots -> PackedEvent]
      /\ g.dice \in [Slots -> 0..6] /\ g.coin \in [Slots -> 0..1]
      /\ s.rolls \in Nat /\ g.diceLen = s.rolls /\ s.flips \in Nat /\ g.coinLen = s.flips
      /\ s.rolls + s.flips = n
  BY Room DEF Slots
<1>2. /\ s.rolls = CountBefore(s.events, TagRoll, n)
      /\ s.flips = CountBefore(s.events, TagFlip, n)
      /\ Placed(s.events, n, TagRoll, g.dice)
      /\ Placed(s.events, n, TagFlip, g.coin)
  BY Room
<1>3. /\ e \in PackedEvent /\ fv \in [Slots -> PackedEvent] /\ fv[n] = e
      /\ \A j \in 0..(n - 1) : s.events[j] = fv[j]
  BY <1>1, FacesAssumption DEF PackedEvent, TagRoll, TagFlip, Slots
<1>4. /\ c \in [Slots -> 0..1] /\ c[g.coinLen] = v
      /\ \A i \in 0..(g.coinLen - 1) : c[i] = g.coin[i]
  BY <1>1, FacesAssumption DEF Slots
<1>5. PushFlip(s, v) \in PhysicalSession /\ PushCoin(g, v) \in PhysicalStaging
  BY <1>0, <1>1, <1>3, <1>4 DEF PhysicalSession, PhysicalStaging, Slots
<1> HIDE DEF n, fv, c
<1>6. /\ CountBefore(fv, TagRoll, n + 1) = s.rolls
      /\ CountBefore(fv, TagFlip, n + 1) = s.flips + 1
  <2>1. CountBefore(fv, TagRoll, n) = s.rolls
    BY <1>1, <1>2, <1>3, CountAgree
  <2>2. CountBefore(fv, TagFlip, n) = s.flips
    BY <1>1, <1>2, <1>3, CountAgree
  <2> QED BY <1>1, <1>3, <2>1, <2>2, CountStep DEF TagRoll, TagFlip
<1>7. Placed(fv, n + 1, TagFlip, c)
  <2>1. fv[n].tag = TagFlip /\ c[CountBefore(s.events, TagFlip, n)] = fv[n].value
    BY <1>1, <1>2, <1>3, <1>4
  <2>2. \A i \in 0..(CountBefore(s.events, TagFlip, n) - 1) : c[i] = g.coin[i]
    BY <1>1, <1>2, <1>4
  <2> QED BY <1>1, <1>2, <1>3, <2>1, <2>2, PlacedPush, SMTT(30)
<1>8. Placed(fv, n + 1, TagRoll, g.dice)
  <2>1. fv[n].tag # TagRoll
    BY <1>3 DEF TagRoll, TagFlip
  <2> QED BY <1>1, <1>2, <1>3, <2>1, PlacedOther
<1>9. Matches(PushFlip(s, v), PushCoin(g, v))
  BY <1>0, <1>1, <1>6, <1>7, <1>8 DEF Matches
<1> QED BY <1>5, <1>9

LEMMA UndoRollMatches ==
  ASSUME NEW s \in PhysicalSession, NEW g \in PhysicalStaging,
         Matches(s, g), s.len > 0, Last(s).tag = TagRoll
  PROVE  /\ UndoRoll(s) \in PhysicalSession
         /\ UndoDice(g) \in PhysicalStaging
         /\ Matches(UndoRoll(s), UndoDice(g))
         /\ g.diceLen > 0
<1> DEFINE n == s.len - 1
           fv == [s.events EXCEPT ![n] = ZeroEvent]
           c == [g.dice EXCEPT ![g.diceLen - 1] = 0]
<1>0. /\ UndoRoll(s) = [events |-> fv, len |-> n, rolls |-> s.rolls - 1, flips |-> s.flips]
      /\ UndoDice(g) = [dice |-> c, diceLen |-> g.diceLen - 1,
                      coin |-> g.coin, coinLen |-> g.coinLen]
  BY SessionForms, StagingForms
<1>1. /\ MaxEvents \in Nat /\ n \in Nat /\ n \in Slots /\ s.len = n + 1
      /\ s.events \in [Slots -> PackedEvent]
      /\ g.dice \in [Slots -> 0..6] /\ g.coin \in [Slots -> 0..1]
      /\ s.rolls \in Nat /\ g.diceLen = s.rolls /\ s.flips \in Nat /\ g.coinLen = s.flips
      /\ s.rolls + s.flips = n + 1
  BY Room DEF Slots
<1>2. /\ s.rolls = CountBefore(s.events, TagRoll, n + 1)
      /\ s.flips = CountBefore(s.events, TagFlip, n + 1)
      /\ Placed(s.events, n + 1, TagRoll, g.dice)
      /\ Placed(s.events, n + 1, TagFlip, g.coin)
  BY <1>1, Room
<1>3. /\ fv \in [Slots -> PackedEvent]
      /\ \A j \in 0..(n - 1) : s.events[j] = fv[j]
  BY <1>1 DEF PackedEvent, ZeroEvent, TagRoll, TagFlip, Slots
<1>4. /\ CountBefore(s.events, TagRoll, n) = s.rolls - 1
      /\ CountBefore(s.events, TagFlip, n) = s.flips
      /\ s.rolls - 1 \in Nat /\ s.flips \in Nat
  <2>1. s.events[n].tag = TagRoll
    BY DEF Last
  <2>2. s.events[n].tag # TagFlip
    BY <2>1 DEF TagRoll, TagFlip
  <2>3. CountBefore(s.events, TagRoll, n) \in Nat /\ CountBefore(s.events, TagFlip, n) \in Nat
    BY <1>1, CountType
  <2> QED BY <1>1, <1>2, <2>1, <2>2, <2>3, CountStep
<1>5. /\ c \in [Slots -> 0..6]
      /\ \A i \in 0..(g.diceLen - 2) : c[i] = g.dice[i]
  BY <1>1, <1>4, SMTT(20) DEF Slots
<1>6. UndoRoll(s) \in PhysicalSession /\ UndoDice(g) \in PhysicalStaging
  BY <1>0, <1>1, <1>3, <1>4, <1>5 DEF PhysicalSession, PhysicalStaging, Slots
<1> HIDE DEF n, fv, c
<1>7. /\ CountBefore(fv, TagRoll, n) = s.rolls - 1
      /\ CountBefore(fv, TagFlip, n) = s.flips
  <2>1. CountBefore(fv, TagRoll, n) = CountBefore(s.events, TagRoll, n)
    BY <1>1, <1>3, CountAgree
  <2>2. CountBefore(fv, TagFlip, n) = CountBefore(s.events, TagFlip, n)
    BY <1>1, <1>3, CountAgree
  <2> QED BY <1>4, <2>1, <2>2
<1>8. Placed(fv, n, TagRoll, c)
  <2>1. \A i \in 0..(CountBefore(s.events, TagRoll, n) - 1) : c[i] = g.dice[i]
    BY <1>1, <1>4, <1>5
  <2> QED BY <1>1, <1>2, <1>3, <2>1, PlacedPop
<1>9. Placed(fv, n, TagFlip, g.coin)
  <2>1. \A i \in 0..(CountBefore(s.events, TagFlip, n) - 1) : g.coin[i] = g.coin[i]
    OBVIOUS
  <2> QED BY <1>1, <1>2, <1>3, <2>1, PlacedPop
<1>10. Matches(UndoRoll(s), UndoDice(g))
  BY <1>0, <1>1, <1>4, <1>7, <1>8, <1>9 DEF Matches
<1>11. g.diceLen > 0
  BY <1>1, <1>4
<1> QED BY <1>6, <1>10, <1>11

LEMMA UndoFlipMatches ==
  ASSUME NEW s \in PhysicalSession, NEW g \in PhysicalStaging,
         Matches(s, g), s.len > 0, Last(s).tag = TagFlip
  PROVE  /\ UndoFlip(s) \in PhysicalSession
         /\ UndoCoin(g) \in PhysicalStaging
         /\ Matches(UndoFlip(s), UndoCoin(g))
         /\ g.coinLen > 0
<1> DEFINE n == s.len - 1
           fv == [s.events EXCEPT ![n] = ZeroEvent]
           c == [g.coin EXCEPT ![g.coinLen - 1] = 0]
<1>0. /\ UndoFlip(s) = [events |-> fv, len |-> n, rolls |-> s.rolls, flips |-> s.flips - 1]
      /\ UndoCoin(g) = [dice |-> g.dice, diceLen |-> g.diceLen,
                      coin |-> c, coinLen |-> g.coinLen - 1]
  BY SessionForms, StagingForms
<1>1. /\ MaxEvents \in Nat /\ n \in Nat /\ n \in Slots /\ s.len = n + 1
      /\ s.events \in [Slots -> PackedEvent]
      /\ g.dice \in [Slots -> 0..6] /\ g.coin \in [Slots -> 0..1]
      /\ s.rolls \in Nat /\ g.diceLen = s.rolls /\ s.flips \in Nat /\ g.coinLen = s.flips
      /\ s.rolls + s.flips = n + 1
  BY Room DEF Slots
<1>2. /\ s.rolls = CountBefore(s.events, TagRoll, n + 1)
      /\ s.flips = CountBefore(s.events, TagFlip, n + 1)
      /\ Placed(s.events, n + 1, TagRoll, g.dice)
      /\ Placed(s.events, n + 1, TagFlip, g.coin)
  BY <1>1, Room
<1>3. /\ fv \in [Slots -> PackedEvent]
      /\ \A j \in 0..(n - 1) : s.events[j] = fv[j]
  BY <1>1 DEF PackedEvent, ZeroEvent, TagRoll, TagFlip, Slots
<1>4. /\ CountBefore(s.events, TagRoll, n) = s.rolls
      /\ CountBefore(s.events, TagFlip, n) = s.flips - 1
      /\ s.rolls \in Nat /\ s.flips - 1 \in Nat
  <2>1. s.events[n].tag = TagFlip
    BY DEF Last
  <2>2. s.events[n].tag # TagRoll
    BY <2>1 DEF TagRoll, TagFlip
  <2>3. CountBefore(s.events, TagFlip, n) \in Nat /\ CountBefore(s.events, TagRoll, n) \in Nat
    BY <1>1, CountType
  <2> QED BY <1>1, <1>2, <2>1, <2>2, <2>3, CountStep
<1>5. /\ c \in [Slots -> 0..1]
      /\ \A i \in 0..(g.coinLen - 2) : c[i] = g.coin[i]
  BY <1>1, <1>4 DEF Slots
<1>6. UndoFlip(s) \in PhysicalSession /\ UndoCoin(g) \in PhysicalStaging
  BY <1>0, <1>1, <1>3, <1>4, <1>5 DEF PhysicalSession, PhysicalStaging, Slots
<1> HIDE DEF n, fv, c
<1>7. /\ CountBefore(fv, TagRoll, n) = s.rolls
      /\ CountBefore(fv, TagFlip, n) = s.flips - 1
  <2>1. CountBefore(fv, TagRoll, n) = CountBefore(s.events, TagRoll, n)
    BY <1>1, <1>3, CountAgree
  <2>2. CountBefore(fv, TagFlip, n) = CountBefore(s.events, TagFlip, n)
    BY <1>1, <1>3, CountAgree
  <2> QED BY <1>4, <2>1, <2>2
<1>8. Placed(fv, n, TagFlip, c)
  <2>1. \A i \in 0..(CountBefore(s.events, TagFlip, n) - 1) : c[i] = g.coin[i]
    BY <1>1, <1>4, <1>5
  <2> QED BY <1>1, <1>2, <1>3, <2>1, PlacedPop
<1>9. Placed(fv, n, TagRoll, g.dice)
  <2>1. \A i \in 0..(CountBefore(s.events, TagRoll, n) - 1) : g.dice[i] = g.dice[i]
    OBVIOUS
  <2> QED BY <1>1, <1>2, <1>3, <2>1, PlacedPop
<1>10. Matches(UndoFlip(s), UndoCoin(g))
  BY <1>0, <1>1, <1>4, <1>7, <1>8, <1>9 DEF Matches
<1>11. g.coinLen > 0
  BY <1>1, <1>4
<1> QED BY <1>6, <1>10, <1>11

---------------------------------------------------------------------------
(* The strip: its cells are distinct, and the window moves as one. *)

LEMMA CellFacts ==
  ASSUME NEW h \in 0..(StripCap - 1), NEW i \in 0..(StripCap - 1)
  PROVE  /\ Cell(h, i) \in 0..(StripCap - 1)
         /\ \A j \in 0..(StripCap - 1) : Cell(h, i) = Cell(h, j) => i = j
         /\ Cell(h, 0) = h
         /\ i + 1 < StripCap => Cell(Cell(h, 1), i) = Cell(h, i + 1)
         /\ i + 1 = StripCap => Cell(Cell(h, 1), i) = h
BY CapacityAssumption DEF Cell

LEMMA PushStripShows ==
  ASSUME NEW r \in StripRing, NEW s \in PhysicalSession, NEW S, NEW code \in 1..CodeTails,
         Shows(r, s), RingClean(r),
         S.len = s.len + 1, StripCode(S.events[s.len]) = code,
         \A j \in 0..(s.len - 1) : S.events[j] = s.events[j]
  PROVE  /\ PushStrip(r, code) \in StripRing
         /\ Shows(PushStrip(r, code), S)
         /\ RingClean(PushStrip(r, code))
<1> DEFINE C == 0..(StripCap - 1)
           R == PushStrip(r, code)
           last == Cell(r.head, r.len)
<1>1. /\ StripCap \in Nat /\ 0 < StripCap /\ MaxEvents \in Nat
      /\ s.len \in Nat /\ r.len \in 0..StripCap /\ r.head \in C
  BY CapacityAssumption DEF StripRing, PhysicalSession
<1>0. r.codes \in [C -> 0..CodeTails] /\ code \in 0..CodeTails
  BY DEF StripRing, CodeTails
<1>2. /\ r.len <= s.len
      /\ \A i \in 0..(r.len - 1) :
           r.codes[Cell(r.head, i)] = StripCode(S.events[s.len - r.len + i])
  <2>1. ASSUME NEW i \in 0..(r.len - 1)
        PROVE  r.codes[Cell(r.head, i)] = StripCode(S.events[s.len - r.len + i])
    <3>1. s.len - r.len + i \in 0..(s.len - 1)
      BY <1>1 DEF Shows
    <3>2. S.events[s.len - r.len + i] = s.events[s.len - r.len + i]
      BY <3>1
    <3> QED BY <3>2 DEF Shows
  <2> QED BY <2>1 DEF Shows
<1>3. CASE r.len < StripCap
  <2>0. R = Window([r.codes EXCEPT ![last] = code], r.len + 1, r.head)
    BY <1>3 DEF PushStrip
  <2>1. /\ R.len = r.len + 1 /\ R.head = r.head
        /\ R.codes = [r.codes EXCEPT ![last] = code]
    BY <2>0 DEF Window
  <2>2. last \in C /\ \A i \in C : i # r.len => Cell(r.head, i) \in C \ {last}
    <3>1. r.len \in C
      BY <1>1, <1>3
    <3>2. last \in C
      BY <1>1, <3>1, CellFacts
    <3>3. ASSUME NEW i \in C, i # r.len
          PROVE  Cell(r.head, i) \in C \ {last}
      <4>1. Cell(r.head, i) \in C
        BY <1>1, CellFacts
      <4>2. Cell(r.head, i) # Cell(r.head, r.len)
        <5>1. \A j \in C : Cell(r.head, i) = Cell(r.head, j) => i = j
          BY <1>1, CellFacts
        <5> QED BY <3>1, <3>3, <5>1
      <4> QED BY <4>1, <4>2
    <3> QED BY <3>2, <3>3
  <2>3. R \in StripRing
    BY <1>0, <1>1, <1>3, <2>0, <2>2 DEF StripRing, Window
  <2>4. R.codes[last] = code /\ \A i \in C : i # r.len => R.codes[Cell(r.head, i)] = r.codes[Cell(r.head, i)]
    BY <1>0, <2>1, <2>2
  <2>5. Shows(R, S)
    <3>1. ASSUME NEW i \in 0..(R.len - 1)
          PROVE  R.codes[Cell(R.head, i)] = StripCode(S.events[S.len - R.len + i])
      <4>1. CASE i = r.len
        <5>1. S.len - R.len + i = s.len
          BY <1>1, <2>1, <4>1
        <5> QED BY <2>1, <2>4, <4>1, <5>1
      <4>2. CASE i \in 0..(r.len - 1)
        <5>1. S.len - R.len + i = s.len - r.len + i
          BY <1>1, <2>1
        <5> QED BY <1>1, <1>2, <1>3, <2>1, <2>4, <4>2, <5>1
      <4> QED BY <1>1, <2>1, <4>1, <4>2
    <3> QED BY <1>1, <1>2, <2>1, <3>1 DEF Shows
  <2>6. RingClean(R)
    BY <1>1, <2>1, <2>4 DEF RingClean
  <2> QED BY <2>3, <2>5, <2>6
<1>4. CASE r.len = StripCap
  <2>0. R = Window([r.codes EXCEPT ![r.head] = code], StripCap, Cell(r.head, 1))
    BY <1>1, <1>4 DEF PushStrip
  <2>1. /\ R.len = StripCap /\ R.head = Cell(r.head, 1)
        /\ R.codes = [r.codes EXCEPT ![r.head] = code]
    BY <2>0 DEF Window
  <2>2. R.head \in C
    BY <1>1, <2>1 DEF Cell
  <2>3. R \in StripRing
    BY <1>0, <1>1, <2>0, <2>1, <2>2 DEF StripRing, Window
  <2>4. ASSUME NEW i \in C
        PROVE  R.codes[Cell(R.head, i)] = StripCode(S.events[S.len - R.len + i])
    <3>1. CASE i + 1 = StripCap
      <4>1. Cell(Cell(r.head, 1), i) = r.head
        BY <1>1, <3>1, CellFacts
      <4>2. S.len - R.len + i = s.len
        BY <1>1, <2>1, <3>1
      <4> QED BY <1>0, <1>1, <2>1, <4>1, <4>2, SMTT(20)
    <3>2. CASE i + 1 < StripCap
      <4>1. Cell(Cell(r.head, 1), i) = Cell(r.head, i + 1)
        BY <1>1, <3>2, CellFacts
      <4>2. Cell(r.head, i + 1) \in C \ {r.head}
        BY <1>1, <3>2 DEF Cell
      <4>3. R.codes[Cell(R.head, i)] = r.codes[Cell(r.head, i + 1)]
        BY <1>0, <2>1, <4>1, <4>2
      <4>4. S.len - R.len + i = s.len - r.len + (i + 1)
        BY <1>1, <1>4, <2>1
      <4>5. i + 1 \in 0..(r.len - 1)
        BY <1>1, <1>4, <3>2
      <4> QED BY <1>2, <4>3, <4>4, <4>5
    <3> QED BY <1>1, <3>1, <3>2
  <2>5. Shows(R, S)
    BY <1>1, <1>2, <1>4, <2>1, <2>4 DEF Shows
  <2>6. RingClean(R)
    BY <1>1, <2>1 DEF RingClean
  <2> QED BY <2>3, <2>5, <2>6
<1> QED BY <1>1, <1>3, <1>4

LEMMA PopStripShows ==
  ASSUME NEW r \in StripRing, NEW s \in PhysicalSession, NEW S,
         Shows(r, s), RingClean(r), s.len > 0,
         S.len = s.len - 1,
         \A j \in 0..(s.len - 2) : S.events[j] = s.events[j]
  PROVE  /\ PopStrip(r) \in StripRing
         /\ Shows(PopStrip(r), S)
         /\ RingClean(PopStrip(r))
<1> DEFINE C == 0..(StripCap - 1)
           R == PopStrip(r)
           last == Cell(r.head, r.len - 1)
<1>1. /\ StripCap \in Nat /\ 0 < StripCap /\ MaxEvents \in Nat
      /\ s.len \in Nat /\ r.len \in 0..StripCap /\ r.head \in C
  BY CapacityAssumption DEF StripRing, PhysicalSession
<1>0. r.codes \in [C -> 0..CodeTails]
  BY DEF StripRing
<1>2. /\ r.len <= s.len
      /\ \A i \in 0..(r.len - 2) :
           r.codes[Cell(r.head, i)] = StripCode(S.events[s.len - r.len + i])
  <2>1. ASSUME NEW i \in 0..(r.len - 2)
        PROVE  r.codes[Cell(r.head, i)] = StripCode(S.events[s.len - r.len + i])
    <3>1. s.len - r.len + i \in 0..(s.len - 2) /\ i \in 0..(r.len - 1)
      BY <1>1 DEF Shows
    <3>2. S.events[s.len - r.len + i] = s.events[s.len - r.len + i]
      BY <3>1
    <3> QED BY <3>1, <3>2 DEF Shows
  <2> QED BY <2>1 DEF Shows
<1>3. CASE r.len = 0
  BY <1>1, <1>3 DEF PopStrip, Shows
<1>4. CASE r.len > 0
  <2>0. R = Window([r.codes EXCEPT ![last] = 0], r.len - 1, r.head)
    BY <1>1, <1>4 DEF PopStrip
  <2>1. /\ R.len = r.len - 1 /\ R.head = r.head
        /\ R.codes = [r.codes EXCEPT ![last] = 0]
    BY <2>0 DEF Window
  <2>2. last \in C /\ \A i \in C : i # r.len - 1 => Cell(r.head, i) \in C \ {last}
    <3>1. r.len - 1 \in C
      BY <1>1, <1>4
    <3>2. last \in C
      BY <1>1, <3>1, CellFacts
    <3>3. ASSUME NEW i \in C, i # r.len - 1
          PROVE  Cell(r.head, i) \in C \ {last}
      BY <1>1, <3>1, <3>3, CellFacts
    <3> QED BY <3>2, <3>3
  <2>3. R \in StripRing
    BY <1>0, <1>1, <1>4, <2>0, <2>2 DEF StripRing, Window, CodeTails
  <2>4. R.codes[last] = 0 /\ \A i \in C : i # r.len - 1 => R.codes[Cell(r.head, i)] = r.codes[Cell(r.head, i)]
    BY <1>0, <2>1, <2>2
  <2>5. Shows(R, S)
    <3>1. ASSUME NEW i \in 0..(R.len - 1)
          PROVE  R.codes[Cell(R.head, i)] = StripCode(S.events[S.len - R.len + i])
      <4>1. S.len - R.len + i = s.len - r.len + i
        BY <1>1, <2>1
      <4>2. i \in 0..(r.len - 2) /\ i \in C /\ i # r.len - 1
        BY <1>1, <2>1
      <4> QED BY <1>2, <2>1, <2>4, <4>1, <4>2
    <3>2. R.len <= S.len
      BY <1>1, <1>2, <2>1
    <3> QED BY <3>1, <3>2 DEF Shows
  <2>6. RingClean(R)
    BY <1>1, <1>4, <2>1, <2>4 DEF RingClean
  <2> QED BY <2>3, <2>5, <2>6
<1> QED BY <1>1, <1>3, <1>4

---------------------------------------------------------------------------
(* Scrubbing what is pushed over or taken back. *)

LEMMA PushesClean ==
  ASSUME NEW s \in PhysicalSession, NEW g \in PhysicalStaging, NEW v,
         s.len < MaxEvents, SessionClean(s), StagingClean(g)
  PROVE  /\ SessionClean(PushRoll(s, v)) /\ SessionClean(PushFlip(s, v))
         /\ g.diceLen < MaxEvents => StagingClean(PushDice(g, v))
         /\ g.coinLen < MaxEvents => StagingClean(PushCoin(g, v))
<1>1. /\ MaxEvents \in Nat /\ s.len \in 0..MaxEvents
      /\ g.diceLen \in 0..MaxEvents /\ g.coinLen \in 0..MaxEvents
  BY CapacityAssumption DEF PhysicalSession, PhysicalStaging
<1>2. s.events \in [Slots -> PackedEvent]
  BY DEF PhysicalSession
<1>3. g.dice \in [Slots -> 0..6] /\ g.coin \in [Slots -> 0..1]
  BY DEF PhysicalStaging
<1>4. SessionClean(PushRoll(s, v)) /\ SessionClean(PushFlip(s, v))
  <2>1. ASSUME NEW S, NEW e, S.len = s.len + 1, S.events = [s.events EXCEPT ![s.len] = e]
        PROVE  SessionClean(S)
    BY <1>1, <1>2, <2>1 DEF SessionClean, Slots
  <2>2. SessionClean(PushRoll(s, v))
    <3>1. /\ PushRoll(s, v).len = s.len + 1
          /\ PushRoll(s, v).events = [s.events EXCEPT ![s.len] = [tag |-> TagRoll, value |-> v]]
      BY SessionFields
    <3> QED BY <2>1, <3>1, Zenon
  <2>3. SessionClean(PushFlip(s, v))
    <3>1. /\ PushFlip(s, v).len = s.len + 1
          /\ PushFlip(s, v).events = [s.events EXCEPT ![s.len] = [tag |-> TagFlip, value |-> v]]
      BY SessionFields
    <3> QED BY <2>1, <3>1, Zenon
  <2> QED BY <2>2, <2>3
<1>5. g.diceLen < MaxEvents => StagingClean(PushDice(g, v))
  <2> DEFINE G == PushDice(g, v)
  <2>1. /\ G.diceLen = g.diceLen + 1 /\ G.coinLen = g.coinLen /\ G.coin = g.coin
        /\ G.dice = [g.dice EXCEPT ![g.diceLen] = v]
    BY StagingForms
  <2>2. ASSUME NEW k \in (g.diceLen + 1)..(MaxEvents - 1) PROVE G.dice[k] = 0
    BY <1>1, <1>3, <2>1 DEF StagingClean, Slots
  <2> QED BY <2>1, <2>2 DEF StagingClean
<1>6. g.coinLen < MaxEvents => StagingClean(PushCoin(g, v))
  <2> DEFINE G == PushCoin(g, v)
  <2>1. /\ G.coinLen = g.coinLen + 1 /\ G.diceLen = g.diceLen /\ G.dice = g.dice
        /\ G.coin = [g.coin EXCEPT ![g.coinLen] = v]
    BY StagingForms
  <2>2. ASSUME NEW k \in (g.coinLen + 1)..(MaxEvents - 1) PROVE G.coin[k] = 0
    BY <1>1, <1>3, <2>1 DEF StagingClean, Slots
  <2> QED BY <2>1, <2>2 DEF StagingClean
<1> QED BY <1>4, <1>5, <1>6

LEMMA UndosClean ==
  ASSUME NEW s \in PhysicalSession, NEW g \in PhysicalStaging,
         s.len > 0, SessionClean(s), StagingClean(g)
  PROVE  /\ SessionClean(UndoRoll(s)) /\ SessionClean(UndoFlip(s))
         /\ g.diceLen > 0 => StagingClean(UndoDice(g))
         /\ g.coinLen > 0 => StagingClean(UndoCoin(g))
<1>1. /\ MaxEvents \in Nat /\ s.len \in 0..MaxEvents
      /\ g.diceLen \in 0..MaxEvents /\ g.coinLen \in 0..MaxEvents
  BY CapacityAssumption DEF PhysicalSession, PhysicalStaging
<1>2. s.events \in [Slots -> PackedEvent]
  BY DEF PhysicalSession
<1>3. g.dice \in [Slots -> 0..6] /\ g.coin \in [Slots -> 0..1]
  BY DEF PhysicalStaging
<1>4. SessionClean(UndoRoll(s)) /\ SessionClean(UndoFlip(s))
  <2>1. ASSUME NEW S, S.len = s.len - 1, S.events = [s.events EXCEPT ![s.len - 1] = ZeroEvent]
        PROVE  SessionClean(S)
    <3> SUFFICES ASSUME NEW k \in (s.len - 1)..(MaxEvents - 1) PROVE S.events[k] = ZeroEvent
      BY <1>1, <2>1 DEF SessionClean
    <3>1. CASE k = s.len - 1
      BY <1>1, <1>2, <2>1, <3>1 DEF Slots
    <3>2. CASE k \in s.len..(MaxEvents - 1)
      BY <1>1, <1>2, <2>1, <3>2 DEF SessionClean, Slots
    <3> QED BY <1>1, <3>1, <3>2
  <2> QED BY <2>1, SessionFields
<1>5. g.diceLen > 0 => StagingClean(UndoDice(g))
  <2> SUFFICES ASSUME g.diceLen > 0 PROVE StagingClean(UndoDice(g))
    OBVIOUS
  <2> DEFINE G == UndoDice(g)
  <2>1. /\ G.diceLen = g.diceLen - 1 /\ G.coinLen = g.coinLen /\ G.coin = g.coin
        /\ G.dice = [g.dice EXCEPT ![g.diceLen - 1] = 0]
    BY StagingForms
  <2>2. ASSUME NEW k \in (g.diceLen - 1)..(MaxEvents - 1) PROVE G.dice[k] = 0
    BY <1>1, <1>3, <2>1 DEF StagingClean, Slots
  <2> QED BY <2>1, <2>2 DEF StagingClean
<1>6. g.coinLen > 0 => StagingClean(UndoCoin(g))
  <2> SUFFICES ASSUME g.coinLen > 0 PROVE StagingClean(UndoCoin(g))
    OBVIOUS
  <2> DEFINE G == UndoCoin(g)
  <2>1. /\ G.coinLen = g.coinLen - 1 /\ G.diceLen = g.diceLen /\ G.dice = g.dice
        /\ G.coin = [g.coin EXCEPT ![g.coinLen - 1] = 0]
    BY StagingForms
  <2>2. ASSUME NEW k \in (g.coinLen - 1)..(MaxEvents - 1) PROVE G.coin[k] = 0
    BY <1>1, <1>3, <2>1 DEF StagingClean, Slots
  <2> QED BY <2>1, <2>2 DEF StagingClean
<1> QED BY <1>4, <1>5, <1>6

(* The empty stores. *)
LEMMA EmptyStores ==
  /\ EmptySession \in PhysicalSession /\ EmptyStaging \in PhysicalStaging
  /\ EmptyRing \in StripRing
  /\ Matches(EmptySession, EmptyStaging)
  /\ SessionClean(EmptySession) /\ StagingClean(EmptyStaging) /\ RingClean(EmptyRing)
  /\ \A s \in PhysicalSession : Shows(EmptyRing, s)
<1>1. EmptySession \in PhysicalSession
  BY CapacityAssumption DEF EmptySession, PhysicalSession, PackedEvent, ZeroEvent, TagRoll
<1>2. EmptyStaging \in PhysicalStaging
  BY CapacityAssumption DEF EmptyStaging, PhysicalStaging
<1>3. EmptyRing \in StripRing
  BY CapacityAssumption DEF EmptyRing, StripRing, CodeTails
<1>4. Matches(EmptySession, EmptyStaging)
  BY CountZero DEF EmptySession, EmptyStaging, Matches, Placed
<1>5. SessionClean(EmptySession) /\ StagingClean(EmptyStaging)
  BY CapacityAssumption DEF EmptySession, EmptyStaging, SessionClean, StagingClean, Slots
<1>6. RingClean(EmptyRing)
  BY CapacityAssumption, CellFacts DEF EmptyRing, RingClean
<1>7. \A s \in PhysicalSession : Shows(EmptyRing, s)
  BY CapacityAssumption DEF EmptyRing, PhysicalSession, Shows
<1> QED BY <1>1, <1>2, <1>3, <1>4, <1>5, <1>6, <1>7

---------------------------------------------------------------------------
(* The rounding of the budget. *)

(* 2585 is log2(6) in milli-bits rounded up.  Up to 256 bits the excess    *)
(* never buys an event: a sum that reaches the target is either the target *)
(* exactly, and then made of flips alone, or at least 5 milli-bits above,  *)
(* which is all that 125 rolls are credited too much; 126 rolls are far    *)
(* above any target.                                                       *)
LEMMA RoundingBuysNothing ==
  ASSUME NEW r \in Nat, NEW f \in Nat, BudgetX1000(r, f) >= 1000 * Target
  PROVE  258496 * r + 100000 * f >= 100000 * Target
<1>1. Target \in 1..256 /\ 2585 * r + 1000 * f >= 1000 * Target
  BY TargetAssumption DEF BudgetX1000
<1>2. CASE r >= 126
  BY <1>1, <1>2
<1>3. CASE r <= 125 /\ 2585 * r + 1000 * f >= 1000 * Target + 5
  BY <1>1, <1>3
<1>4. CASE r <= 125 /\ 2585 * r + 1000 * f < 1000 * Target + 5
  <2>1. 517 * r + 200 * f >= 200 * Target /\ 517 * r + 200 * f < 200 * Target + 1
    BY <1>1, <1>4
  <2>2. 517 * r = 200 * (Target - f)
    BY <1>1, <2>1
  <2>3. r = 0
    BY <1>1, <1>4, <2>2, SMTT(20)
  <2> QED BY <1>1, <2>1, <2>3
<1> QED BY <1>1, <1>2, <1>3, <1>4

---------------------------------------------------------------------------
(* The inductive invariant: all of the properties of the run at once.      *)

IInv == TypeOK /\ Lockstep /\ StripShowsLatest /\ DeadSlotsZero /\ WitnessedBits

LEMMA InitIInv == Init => IInv
BY EmptyStores DEF Init, IInv, TypeOK, Places, Lockstep, StripShowsLatest,
  DeadSlotsZero, WitnessedBits, EmptySession

(* What a push or an undo has to show. *)
LEMMA EntryStep ==
  ASSUME IInv, pc = "entry", UNCHANGED pc,
         session' \in PhysicalSession, staging' \in PhysicalStaging, ring' \in StripRing,
         Matches(session', staging'), Shows(ring', session'),
         SessionClean(session'), StagingClean(staging'), RingClean(ring')
  PROVE  IInv'
BY DEF IInv, TypeOK, Lockstep, StripShowsLatest, DeadSlotsZero, WitnessedBits

LEMMA NextIInv == IInv /\ [Next]_vars => IInv'
<1> SUFFICES ASSUME IInv, [Next]_vars PROVE IInv'
  OBVIOUS
<1>0. /\ pc \in Places /\ session \in PhysicalSession /\ staging \in PhysicalStaging
      /\ ring \in StripRing /\ Shows(ring, session)
      /\ SessionClean(session) /\ StagingClean(staging) /\ RingClean(ring)
      /\ pc \in {"entry", "clearing"} => Matches(session, staging)
  BY DEF IInv, TypeOK, Lockstep, StripShowsLatest, DeadSlotsZero
<1>a. MaxEvents \in Nat /\ session.len \in 0..MaxEvents
  BY <1>0, CapacityAssumption DEF PhysicalSession
<1>1. ASSUME NEW v \in Faces, Face(v) PROVE IInv'
  <2>1. /\ pc = "entry" /\ session.len < MaxEvents /\ UNCHANGED pc /\ Matches(session, staging)
        /\ session' = PushRoll(session, v) /\ staging' = PushDice(staging, v)
        /\ ring' = PushStrip(ring, v)
    BY <1>0, <1>1 DEF Face
  <2>2. /\ session' \in PhysicalSession /\ staging' \in PhysicalStaging
        /\ Matches(session', staging')
    BY <1>0, <2>1, PushRollMatches
  <2>3. session'.len = session.len + 1
        /\ session'.events = [session.events EXCEPT ![session.len] = [tag |-> TagRoll, value |-> v]]
    BY <1>0, <2>1, SessionFields
  <2>4. /\ StripCode(session'.events[session.len]) = v
        /\ \A j \in 0..(session.len - 1) : session'.events[j] = session.events[j]
    BY <1>0, <1>a, <2>1, <2>3 DEF StripCode, PhysicalSession, Slots
  <2>5. v \in 1..CodeTails
    BY FacesAssumption DEF CodeTails
  <2>6. ring' \in StripRing /\ Shows(ring', session') /\ RingClean(ring')
    BY <1>0, <2>1, <2>3, <2>4, <2>5, PushStripShows
  <2>7. staging.diceLen < MaxEvents
    BY <1>0, <1>a, <2>1, Room
  <2>8. SessionClean(session') /\ StagingClean(staging')
    BY <1>0, <2>1, <2>7, PushesClean
  <2> QED BY <2>1, <2>2, <2>6, <2>8, EntryStep
<1>2. ASSUME NEW v \in 0..1, NEW code, Side(v, code),
             code = IF v = 1 THEN CodeHeads ELSE CodeTails
      PROVE  IInv'
  <2>1. /\ pc = "entry" /\ session.len < MaxEvents /\ UNCHANGED pc /\ Matches(session, staging)
        /\ session' = PushFlip(session, v) /\ staging' = PushCoin(staging, v)
        /\ ring' = PushStrip(ring, code)
    BY <1>0, <1>2 DEF Side
  <2>2. /\ session' \in PhysicalSession /\ staging' \in PhysicalStaging
        /\ Matches(session', staging')
    BY <1>0, <2>1, PushFlipMatches
  <2>3. session'.len = session.len + 1
        /\ session'.events = [session.events EXCEPT ![session.len] = [tag |-> TagFlip, value |-> v]]
    BY <1>0, <2>1, SessionFields
  <2>4. /\ StripCode(session'.events[session.len]) = code
        /\ \A j \in 0..(session.len - 1) : session'.events[j] = session.events[j]
    BY <1>0, <1>2, <1>a, <2>1, <2>3 DEF StripCode, PhysicalSession, Slots, TagRoll, TagFlip
  <2>5. code \in 1..CodeTails
    BY <1>2 DEF CodeTails, CodeHeads
  <2>6. ring' \in StripRing /\ Shows(ring', session') /\ RingClean(ring')
    BY <1>0, <2>1, <2>3, <2>4, <2>5, PushStripShows
  <2>7. staging.coinLen < MaxEvents
    BY <1>0, <1>a, <2>1, Room
  <2>8. SessionClean(session') /\ StagingClean(staging')
    BY <1>0, <2>1, <2>7, PushesClean
  <2> QED BY <2>1, <2>2, <2>6, <2>8, EntryStep
<1>3. ASSUME session.len > 0, pc = "entry", UNCHANGED pc, ring' = PopStrip(ring),
             \/ /\ Last(session).tag = TagRoll
                /\ session' = UndoRoll(session) /\ staging' = UndoDice(staging)
             \/ /\ Last(session).tag = TagFlip
                /\ session' = UndoFlip(session) /\ staging' = UndoCoin(staging)
      PROVE  IInv'
  <2>1. Matches(session, staging)
    BY <1>0, <1>3
  <2>2. /\ session' \in PhysicalSession /\ staging' \in PhysicalStaging
        /\ Matches(session', staging')
    BY <1>0, <1>3, <2>1, UndoRollMatches, UndoFlipMatches
  <2>3. session'.len = session.len - 1
        /\ session'.events = [session.events EXCEPT ![session.len - 1] = ZeroEvent]
    BY <1>0, <1>3, SessionFields
  <2>4. \A j \in 0..(session.len - 2) : session'.events[j] = session.events[j]
    BY <1>0, <1>a, <2>3 DEF PhysicalSession, Slots
  <2>5. ring' \in StripRing /\ Shows(ring', session') /\ RingClean(ring')
    BY <1>0, <1>3, <2>3, <2>4, PopStripShows
  <2>6. SessionClean(session') /\ StagingClean(staging')
    BY <1>0, <1>3, <2>1, UndosClean, UndoRollMatches, UndoFlipMatches
  <2> QED BY <1>3, <2>2, <2>5, <2>6, EntryStep
<1>4. CASE AskClear \/ DeclineClear
  BY <1>4, <1>0 DEF AskClear, DeclineClear, Places, IInv, TypeOK, Lockstep,
    StripShowsLatest, DeadSlotsZero, WitnessedBits
<1>5. CASE ConfirmClear
  BY <1>5, EmptyStores DEF ConfirmClear, Places, IInv, TypeOK, Lockstep,
    StripShowsLatest, DeadSlotsZero, WitnessedBits
<1>6. CASE Finish
  <2>1. /\ pc' = "generate" /\ session' = EmptySession /\ ring' = EmptyRing
        /\ staging' = staging /\ Matches(session, staging) /\ BudgetMet(session)
    BY <1>0, <1>6 DEF Finish, DropLocals
  <2>2. 258496 * staging.diceLen + 100000 * staging.coinLen >= 100000 * Target
    <3>1. /\ session.rolls \in Nat /\ staging.diceLen = session.rolls
          /\ session.flips \in Nat /\ staging.coinLen = session.flips
      BY <1>0, <2>1, Room
    <3> QED BY <2>1, <3>1, RoundingBuysNothing DEF BudgetMet
  <2>3. session'.len = 0 /\ ring'.len = 0
    BY <2>1 DEF EmptySession, EmptyRing
  <2> QED BY <1>0, <2>1, <2>2, <2>3, EmptyStores DEF Places, IInv, TypeOK, Lockstep,
        StripShowsLatest, DeadSlotsZero, WitnessedBits
<1>7. CASE Back
  <2>1. /\ pc' = "setup" /\ session' = EmptySession /\ ring' = EmptyRing
        /\ staging' = EmptyStaging
    BY <1>7 DEF Back, DropLocals
  <2>2. /\ session'.len = 0 /\ ring'.len = 0
        /\ staging'.diceLen = 0 /\ staging'.coinLen = 0
    BY <2>1 DEF EmptySession, EmptyRing, EmptyStaging
  <2> QED BY <2>1, <2>2, EmptyStores DEF Places, IInv, TypeOK, Lockstep,
        StripShowsLatest, DeadSlotsZero, WitnessedBits
<1>8. CASE GenerateBack \/ Derive
  BY <1>8, EmptyStores DEF GenerateBack, Derive, Places, IInv, TypeOK, Lockstep,
    StripShowsLatest, DeadSlotsZero, WitnessedBits, EmptyStaging
<1>9. CASE Revisit
  <2>1. /\ pc' = "entry" /\ session' = EmptySession /\ ring' = EmptyRing /\ staging' = staging
        /\ staging.diceLen = 0 /\ staging.coinLen = 0
    BY <1>9 DEF Revisit, IInv, DeadSlotsZero
  <2>2. Matches(EmptySession, staging)
    BY <2>1, CountZero DEF EmptySession, Matches, Placed
  <2> QED BY <1>0, <2>1, <2>2, EmptyStores DEF Places, IInv, TypeOK, Lockstep,
        StripShowsLatest, DeadSlotsZero, WitnessedBits
<1>10. CASE UNCHANGED vars
  BY <1>10 DEF vars, IInv, TypeOK, Lockstep, StripShowsLatest, DeadSlotsZero, WitnessedBits
<1>11. Heads \/ Tails => IInv'
  BY <1>2 DEF Heads, Tails
<1>12. UndoneRoll \/ UndoneFlip => IInv'
  <2>1. session.len > 0 => Last(session).tag \in {TagRoll, TagFlip}
    BY <1>0, <1>a DEF Last, PhysicalSession, PackedEvent, Slots
  <2> QED BY <1>3, <2>1 DEF UndoneRoll, UndoneFlip
<1> QED BY <1>1, <1>4, <1>5, <1>6, <1>7, <1>8, <1>9, <1>10, <1>11, <1>12 DEF Next

LEMMA Invariance == Spec => []IInv
BY InitIInv, NextIInv, PTL DEF Spec

---------------------------------------------------------------------------
(* The theorems. *)

(* No length, counter or slot leaves its range: in particular no push runs *)
(* past a staging buffer, which push_dice and push_coin index unchecked,   *)
(* and no undo takes a staging length below zero, which only a             *)
(* debug_assert guards.                                                    *)
THEOREM TypeCorrect == Spec => []TypeOK
BY Invariance, PTL DEF IInv

(* The staged bytes are the events counted, in their order, whatever was   *)
(* typed, undone and cleared and however many visits were made.            *)
THEOREM StoresInLockstep == Spec => []Lockstep
BY Invariance, PTL DEF IInv

(* The sources carry the target at less than log2(6) bits a roll.          *)
THEOREM SourcesCarryTarget == Spec => []WitnessedBits
BY Invariance, PTL DEF IInv

(* The strip is a gapless suffix of the history, for every width.          *)
THEOREM StripIsSuffix == Spec => []StripShowsLatest
BY Invariance, PTL DEF IInv

(* No event that was undone, cleared, discarded or derived from is left.   *)
THEOREM NothingLeftBehind == Spec => []DeadSlotsZero
BY Invariance, PTL DEF IInv

(* A full history meets the budget: the screen is never a trap.            *)
THEOREM NeverTrapped == Spec => []FullIsEnough
<1>1. IInv => FullIsEnough
  <2> SUFFICES ASSUME IInv, pc = "entry", session.len = MaxEvents
               PROVE  BudgetMet(session)
    BY DEF FullIsEnough
  <2>1. /\ session.rolls \in Nat /\ session.flips \in Nat /\ MaxEvents \in Nat
        /\ session.rolls + session.flips = MaxEvents
    BY Room DEF IInv, TypeOK, Lockstep
  <2>2. Target \in 1..256 /\ Target <= MaxEvents
    BY TargetAssumption
  <2> QED BY <2>1, <2>2 DEF BudgetMet, BudgetX1000
<1> QED BY <1>1, Invariance, PTL

---------------------------------------------------------------------------
(* The refinement of PhysicalHistory. *)

(* Each number below the count of a tag is the number of events of that    *)
(* tag before one of them: the least place with more before it tells       *)
(* which.                                                                  *)
LEMMA CountReached ==
  ASSUME NEW ev, NEW t, NEW n \in Nat, NEW c \in 0..(CountBefore(ev, t, n) - 1)
  PROVE  \E i \in 0..(n - 1) : ev[i].tag = t /\ CountBefore(ev, t, i) = c
<1> DEFINE S == {k \in Nat : CountBefore(ev, t, k) > c}
           R == OpToRel(<, Nat)
<1>1. n \in S /\ S \subseteq Nat /\ c \in Nat
  BY CountType
<1>2. PICK m \in S : \A k \in S : ~ (<<k, m>> \in R)
  BY <1>1, NatLessThanWellFounded, WFMin
<1>3. \A k \in S : ~ (k < m)
  BY <1>2 DEF OpToRel
<1>4. m \in Nat /\ m <= n /\ CountBefore(ev, t, m) > c
  BY <1>1, <1>3
<1>5. m # 0
  BY <1>1, <1>4, CountZero
<1>6. m - 1 \in Nat /\ m - 1 \in 0..(n - 1) /\ (m - 1) + 1 = m
  BY <1>1, <1>4, <1>5
<1>7. CountBefore(ev, t, m - 1) <= c /\ CountBefore(ev, t, m - 1) \in Nat
  BY <1>1, <1>3, <1>4, <1>6, CountType
<1>8. CountBefore(ev, t, m) = IF ev[m - 1].tag = t THEN CountBefore(ev, t, m - 1) + 1
                              ELSE CountBefore(ev, t, m - 1)
  <2>1. CountBefore(ev, t, (m - 1) + 1) = IF ev[m - 1].tag = t THEN CountBefore(ev, t, m - 1) + 1
                              ELSE CountBefore(ev, t, m - 1)
    BY <1>6, CountStep
  <2> QED BY <1>6, <2>1
<1>9. ev[m - 1].tag = t /\ CountBefore(ev, t, m - 1) = c
  BY <1>1, <1>4, <1>7, <1>8, CountType
<1> QED BY <1>6, <1>9

(* The history a session stands for, its places of one kind, what is read  *)
(* at some of them, and the bytes handed on.                               *)
Kept(s) == [i \in 1..s.len |->
              [kind |-> IF s.events[i - 1].tag = TagRoll THEN "roll" ELSE "flip",
               value |-> s.events[i - 1].value]]
Record(e) == [kind |-> IF e.tag = TagRoll THEN "roll" ELSE "flip", value |-> e.value]
Where(s, kind) == {i \in DOMAIN Kept(s) : Kept(s)[i].kind = kind}
Values(s, at) == [k \in DOMAIN at |-> Kept(s)[at[k]].value]
Bytes(b, n) == [k \in 1..n |-> b[k - 1]]
Records == [kind : {"roll", "flip"}, value : 0..6]

(* The history is a sequence as long as the session.                       *)
LEMMA KeptFacts ==
  ASSUME NEW s \in PhysicalSession
  PROVE  /\ s.len \in Nat /\ Kept(s) \in Seq(Records) /\ Len(Kept(s)) = s.len
         /\ \A i \in 1..s.len : Kept(s)[i] = Record(s.events[i - 1])
         /\ Kept(s) = <<>> <=> s.len = 0
<1>1. MaxEvents \in Nat /\ s.len \in 0..MaxEvents /\ s.events \in [Slots -> PackedEvent]
  BY CapacityAssumption DEF PhysicalSession
<1>2. ASSUME NEW i \in 1..s.len
      PROVE  Kept(s)[i] = Record(s.events[i - 1]) /\ Record(s.events[i - 1]) \in Records
  <2>1. i - 1 \in Slots
    BY <1>1 DEF Slots
  <2>2. s.events[i - 1] \in PackedEvent
    BY <1>1, <2>1
  <2> QED BY <2>2 DEF Kept, Record, Records, PackedEvent
<1>3. Kept(s) \in [1..s.len -> Records]
  BY <1>2 DEF Kept
<1>4. Kept(s) \in Seq(Records) /\ Len(Kept(s)) = s.len
  BY <1>1, <1>3
<1>5. Kept(s) = <<>> <=> s.len = 0
  BY <1>4
<1> QED BY <1>1, <1>2, <1>4, <1>5

(* A push appends to the history.                                          *)
LEMMA KeptPush ==
  ASSUME NEW s \in PhysicalSession, NEW S \in PhysicalSession, NEW e \in PackedEvent,
         s.len < MaxEvents, S.len = s.len + 1, S.events = [s.events EXCEPT ![s.len] = e]
  PROVE  Kept(S) = Append(Kept(s), Record(e))
<1>1. MaxEvents \in Nat /\ s.len \in 0..MaxEvents /\ s.events \in [Slots -> PackedEvent]
  BY CapacityAssumption DEF PhysicalSession
<1>2. Record(e) \in Records
  BY DEF Record, Records, PackedEvent
<1> DEFINE L == Kept(S)   R == Append(Kept(s), Record(e))
<1>3. /\ R \in Seq(Records) /\ Len(R) = s.len + 1 /\ R[s.len + 1] = Record(e)
      /\ \A i \in 1..s.len : R[i] = Record(s.events[i - 1])
  BY <1>2, KeptFacts, AppendProperties
<1>4. /\ L \in Seq(Records) /\ Len(L) = s.len + 1
      /\ \A i \in 1..(s.len + 1) : L[i] = Record(S.events[i - 1])
  BY KeptFacts
<1>5. /\ S.events[s.len] = e
      /\ \A i \in 1..s.len : S.events[i - 1] = s.events[i - 1]
  BY <1>1 DEF Slots
<1> HIDE DEF L, R
<1>6. \A i \in 1..Len(L) : L[i] = R[i]
  <2> SUFFICES ASSUME NEW i \in 1..(s.len + 1) PROVE L[i] = R[i]
    BY <1>4
  <2>1. CASE i = s.len + 1
    BY <1>1, <1>3, <1>4, <1>5, <2>1
  <2>2. CASE i \in 1..s.len
    BY <1>3, <1>4, <1>5, <2>2
  <2> QED BY <1>1, <2>1, <2>2
<1>7. L = R
  BY <1>3, <1>4, <1>6, SeqEqual
<1> QED BY <1>7 DEF L, R

(* An undo takes the last event away.                                      *)
LEMMA KeptPop ==
  ASSUME NEW s \in PhysicalSession, NEW S \in PhysicalSession,
         s.len > 0, S.len = s.len - 1,
         \A j \in 0..(s.len - 2) : S.events[j] = s.events[j]
  PROVE  Kept(S) = SubSeq(Kept(s), 1, Len(Kept(s)) - 1)
<1>1. s.len \in Nat /\ Len(Kept(s)) = s.len
  BY KeptFacts
<1> DEFINE L == Kept(S)   R == SubSeq(Kept(s), 1, s.len - 1)
<1>2. /\ R \in Seq(Records) /\ Len(R) = s.len - 1
      /\ \A i \in 1..(s.len - 1) : R[i] = Kept(s)[i]
  BY <1>1, KeptFacts
<1>3. /\ L \in Seq(Records) /\ Len(L) = s.len - 1
      /\ \A i \in 1..(s.len - 1) : L[i] = Record(S.events[i - 1])
  BY KeptFacts
<1>4. \A i \in 1..(s.len - 1) : L[i] = R[i]
  <2> SUFFICES ASSUME NEW i \in 1..(s.len - 1) PROVE L[i] = R[i]
    OBVIOUS
  <2>1. i - 1 \in 0..(s.len - 2) /\ i \in 1..s.len
    BY <1>1
  <2>2. L[i] = Record(S.events[i - 1])
    BY <1>3
  <2>3. R[i] = Record(s.events[i - 1])
    BY <1>2, <2>1, KeptFacts
  <2> QED BY <2>1, <2>2, <2>3
<1> HIDE DEF L, R
<1>5. L = R
  BY <1>2, <1>3, <1>4, SeqEqual
<1> QED BY <1>1, <1>5 DEF L, R

(* PhysicalHistory counts as this module does.                             *)
LEMMA SameCardinality == ASSUME NEW S PROVE Abstract!Cardinality(S) = Cardinality(S)
BY DEF Abstract!Cardinality, Cardinality

(* The places of a kind, counted from one, and the events of a tag,        *)
(* counted from zero, are as many.                                         *)
LEMMA PlacesCounted ==
  ASSUME NEW s \in PhysicalSession, NEW kind, NEW t,
         <<kind, t>> \in {<<"roll", TagRoll>>, <<"flip", TagFlip>>}
  PROVE  /\ Where(s, kind) = {i \in 1..s.len : s.events[i - 1].tag = t}
         /\ Cardinality(Where(s, kind)) = CountBefore(s.events, t, s.len)
<1> DEFINE P == Where(s, kind)
           Q == {j \in 0..(s.len - 1) : s.events[j].tag = t}
           f == [j \in Q |-> j + 1]
<1>1. /\ MaxEvents \in Nat /\ s.len \in 0..MaxEvents /\ s.events \in [Slots -> PackedEvent]
      /\ s.len \in Nat
  BY CapacityAssumption DEF PhysicalSession
<1>2. DOMAIN Kept(s) = 1..s.len
  BY DEF Kept
<1>3. ASSUME NEW i \in 1..s.len PROVE Kept(s)[i].kind = kind <=> s.events[i - 1].tag = t
  <2>1. i - 1 \in Slots
    BY <1>1 DEF Slots
  <2>2. s.events[i - 1].tag \in {TagRoll, TagFlip}
    BY <1>1, <2>1 DEF PackedEvent
  <2>3. Kept(s)[i].kind = IF s.events[i - 1].tag = TagRoll THEN "roll" ELSE "flip"
    BY DEF Kept
  <2> QED BY <2>2, <2>3 DEF TagRoll, TagFlip
<1>4. P = {i \in 1..s.len : s.events[i - 1].tag = t}
  BY <1>2, <1>3 DEF Where
<1> HIDE DEF P
<1>5. \A j \in Q : j + 1 \in P
  BY <1>1, <1>4
<1>6. \A i \in P : i - 1 \in Q /\ (i - 1) + 1 = i
  BY <1>1, <1>4
<1>7. f \in Bijection(Q, P)
  <2>1. f \in [Q -> P]
    BY <1>5
  <2>2. \A i, j \in Q : f[i] = f[j] => i = j
    BY <1>1
  <2>3. \A i \in P : \E j \in Q : f[j] = i
    BY <1>6
  <2> QED BY <2>1, <2>2, <2>3 DEF Bijection, Injection, Surjection, IsInjective
<1>8. IsFiniteSet(Q)
  <2>1. IsFiniteSet(0..(s.len - 1)) /\ Q \in SUBSET (0..(s.len - 1))
    BY <1>1, FS_Interval
  <2> QED BY <2>1, FS_Subset
<1>9. Cardinality(P) = Cardinality(Q)
  BY <1>7, <1>8, FS_Bijection, Fun_ExistsBij
<1> QED BY <1>4, <1>9 DEF CountBefore, P

(* The bytes of a tag are the values at the places of its kind, in their   *)
(* order.                                                                  *)
LEMMA BytesAscend ==
  ASSUME NEW s \in PhysicalSession, NEW kind, NEW t, NEW b,
         <<kind, t>> \in {<<"roll", TagRoll>>, <<"flip", TagFlip>>},
         Placed(s.events, s.len, t, b)
  PROVE  \E at \in Abstract!Ascending(Where(s, kind)) :
           Values(s, at) = Bytes(b, CountBefore(s.events, t, s.len))
<1> DEFINE P == Where(s, kind)
           n == CountBefore(s.events, t, s.len)
           Is(k, i) == s.events[i - 1].tag = t /\ CountBefore(s.events, t, i - 1) = k - 1
           at == [k \in 1..n |-> CHOOSE i \in 1..s.len : Is(k, i)]
<1>1. s.len \in Nat /\ n \in Nat
  BY KeptFacts, CountType
<1>2. P = {i \in 1..s.len : s.events[i - 1].tag = t} /\ Cardinality(P) = n
  BY PlacesCounted
<1>3. ASSUME NEW k \in 1..n PROVE at[k] \in 1..s.len /\ Is(k, at[k])
  <2>1. k - 1 \in 0..(CountBefore(s.events, t, s.len) - 1)
    BY <1>1
  <2>2. PICK j \in 0..(s.len - 1) : s.events[j].tag = t /\ CountBefore(s.events, t, j) = k - 1
    BY <1>1, <2>1, CountReached
  <2>3. j + 1 \in 1..s.len /\ (j + 1) - 1 = j
    BY <1>1
  <2>4. Is(k, j + 1)
    BY <2>2, <2>3
  <2>5. at[k] = CHOOSE i \in 1..s.len : Is(k, i)
    OBVIOUS
  <2> HIDE DEF Is, at
  <2> QED BY <2>3, <2>4, <2>5
<1>4. at \in [1..n -> P]
  <2>1. \A k \in 1..n : at[k] \in P
    BY <1>2, <1>3
  <2>2. DOMAIN at = 1..n /\ at = [k \in 1..n |-> at[k]]
    OBVIOUS
  <2> HIDE DEF at, P, n
  <2> QED BY <2>1, <2>2
<1> HIDE DEF at, P, n
<1>5. ASSUME NEW i \in 1..n, NEW j \in 1..n, i < j PROVE at[i] < at[j]
  <2>1. /\ at[i] \in 1..s.len /\ at[j] \in 1..s.len
        /\ CountBefore(s.events, t, at[i] - 1) = i - 1
        /\ CountBefore(s.events, t, at[j] - 1) = j - 1
    BY <1>3
  <2>2. CASE at[j] <= at[i]
    <3>1. at[i] - 1 \in Nat /\ at[j] - 1 \in 0..(at[i] - 1)
      BY <1>1, <2>1, <2>2
    <3>2. j - 1 <= i - 1
      BY <2>1, <3>1, CountMonotone
    <3> QED BY <1>1, <1>5, <3>2
  <2> QED BY <1>1, <2>1, <2>2
<1>6. at \in Abstract!Ascending(P)
  <2>1. \A i, j \in 1..Cardinality(P) : i < j => at[i] < at[j]
    BY <1>2, <1>5
  <2>2. at \in [1..Cardinality(P) -> P]
    BY <1>2, <1>4
  <2> QED BY <2>1, <2>2, SameCardinality DEF Abstract!Ascending
<1>7. ASSUME NEW k \in 1..n PROVE Kept(s)[at[k]].value = b[k - 1]
  <2>1. /\ at[k] \in 1..s.len /\ at[k] - 1 \in 0..(s.len - 1)
        /\ s.events[at[k] - 1].tag = t /\ CountBefore(s.events, t, at[k] - 1) = k - 1
    BY <1>1, <1>3
  <2>2. b[k - 1] = s.events[at[k] - 1].value
    BY <2>1 DEF Placed
  <2>3. Kept(s)[at[k]] = Record(s.events[at[k] - 1])
    BY <2>1, KeptFacts
  <2> QED BY <2>2, <2>3 DEF Record
<1>8. Values(s, at) = Bytes(b, n)
  BY <1>4, <1>7 DEF Values, Bytes
<1> QED BY <1>6, <1>8 DEF P, n

(* What the Generate screen holds.                                         *)
Given == IF pc = "generate"
           THEN [dice |-> [i \in 1..staging.diceLen |-> staging.dice[i - 1]],
                 coin |-> [i \in 1..staging.coinLen |-> staging.coin[i - 1]]]
           ELSE Abstract!Nothing

(* The actions of PhysicalHistory, of the history a session stands for.    *)
LEMMA HistorySteps ==
  /\ Abstract!Init <=> Kept(session) = <<>> /\ Given = Abstract!Nothing
  /\ Abstract!Enter <=> \E e \in Abstract!Events :
       /\ Given = Abstract!Nothing /\ Len(Kept(session)) < MaxEvents
       /\ Kept(session)' = Append(Kept(session), e) /\ Given' = Given
  /\ Abstract!TakeBack <=>
       /\ Kept(session) # <<>>
       /\ Kept(session)' = SubSeq(Kept(session), 1, Len(Kept(session)) - 1) /\ Given' = Given
  /\ Abstract!HandOn <=>
       /\ 2585 * Cardinality(Where(session, "roll"))
            + 1000 * Cardinality(Where(session, "flip")) >= 1000 * Target
       /\ \E rolls \in Abstract!Ascending(Where(session, "roll")),
             flips \in Abstract!Ascending(Where(session, "flip")) :
            Given' = [dice |-> Values(session, rolls), coin |-> Values(session, flips)]
       /\ Kept(session)' = <<>>
  /\ Abstract!Discard <=> Kept(session)' = <<>> /\ Given' = Abstract!Nothing
  /\ (UNCHANGED Abstract!vars) <=> Kept(session)' = Kept(session) /\ Given' = Given
<1>1. Abstract!Init <=> Kept(session) = <<>> /\ Given = Abstract!Nothing
  BY DEF Abstract!Init, Abstract!Nothing, Kept, Given
<1>2. Abstract!Enter <=> \E e \in Abstract!Events :
       /\ Given = Abstract!Nothing /\ Len(Kept(session)) < MaxEvents
       /\ Kept(session)' = Append(Kept(session), e) /\ Given' = Given
  BY DEF Abstract!Enter, Abstract!Nothing, Kept, Given
<1>3. Abstract!TakeBack <=>
       /\ Kept(session) # <<>>
       /\ Kept(session)' = SubSeq(Kept(session), 1, Len(Kept(session)) - 1) /\ Given' = Given
  BY DEF Abstract!TakeBack, Abstract!Nothing, Kept, Given
<1>4. Abstract!HandOn <=>
       /\ 2585 * Cardinality(Where(session, "roll"))
            + 1000 * Cardinality(Where(session, "flip")) >= 1000 * Target
       /\ \E rolls \in Abstract!Ascending(Where(session, "roll")),
             flips \in Abstract!Ascending(Where(session, "flip")) :
            Given' = [dice |-> Values(session, rolls), coin |-> Values(session, flips)]
       /\ Kept(session)' = <<>>
  <2>1. /\ Abstract!Places("roll") = Where(session, "roll")
        /\ Abstract!Places("flip") = Where(session, "flip")
    BY DEF Abstract!Places, Where, Kept
  <2>2. \A at : Abstract!Values(at) = Values(session, at)
    BY DEF Abstract!Values, Values, Kept
  <2>3. Abstract!HandOn <=>
          /\ 2585 * Abstract!Cardinality(Abstract!Places("roll"))
               + 1000 * Abstract!Cardinality(Abstract!Places("flip")) >= 1000 * Target
          /\ \E rolls \in Abstract!Ascending(Abstract!Places("roll")),
                flips \in Abstract!Ascending(Abstract!Places("flip")) :
               Given' = [dice |-> Abstract!Values(rolls), coin |-> Abstract!Values(flips)]
          /\ Kept(session)' = <<>>
    BY DEF Abstract!HandOn, Abstract!Nothing, Kept, Given
  <2> QED BY <2>1, <2>2, <2>3, SameCardinality
<1>5. Abstract!Discard <=> Kept(session)' = <<>> /\ Given' = Abstract!Nothing
  BY DEF Abstract!Discard, Abstract!Nothing, Kept, Given
<1>6. (UNCHANGED Abstract!vars) <=> Kept(session)' = Kept(session) /\ Given' = Given
  BY DEF Abstract!vars, Abstract!Nothing, Kept, Given
<1> QED BY <1>1, <1>2, <1>3, <1>4, <1>5, <1>6

---------------------------------------------------------------------------
(* Every step is one of PhysicalHistory, or none. *)

(* The screen opens on an empty history.                                   *)
LEMMA InitMaps == Init => Abstract!Init
<1> SUFFICES ASSUME Init PROVE Abstract!Init
  OBVIOUS
<1>1. session = EmptySession /\ pc = "entry"
  BY DEF Init
<1>2. session \in PhysicalSession /\ session.len = 0
  BY <1>1, EmptyStores DEF EmptySession
<1> QED BY <1>1, <1>2, KeptFacts, HistorySteps DEF Given

(* A push extends the history, an undo takes back, Enter hands on, what    *)
(* scrubs discards, and the question whether to clear leaves all as it is. *)
LEMMA NextMaps == IInv /\ [Next]_vars => [Abstract!Next]_(Abstract!vars)
<1> SUFFICES ASSUME IInv, [Next]_vars PROVE Abstract!Next \/ UNCHANGED Abstract!vars
  OBVIOUS
<1>0. /\ session \in PhysicalSession /\ staging \in PhysicalStaging
      /\ pc = "entry" => Matches(session, staging)
      /\ pc \in {"generate", "setup", "derived"} => session.len = 0
      /\ IInv'
  BY NextIInv DEF IInv, TypeOK, Lockstep, DeadSlotsZero
<1>1. session' \in PhysicalSession
  BY <1>0 DEF IInv, TypeOK
<1>2. ASSUME NEW e \in PackedEvent, Record(e) \in Abstract!Events,
             pc = "entry", pc' = pc, session.len < MaxEvents,
             session'.len = session.len + 1,
             session'.events = [session.events EXCEPT ![session.len] = e]
      PROVE  Abstract!Enter
  <2>1. Kept(session') = Append(Kept(session), Record(e))
    BY <1>0, <1>1, <1>2, KeptPush
  <2>2. Kept(session)' = Kept(session')
    BY DEF Kept
  <2>3. Given = Abstract!Nothing /\ Given' = Given
    BY <1>2 DEF Given
  <2>4. Len(Kept(session)) < MaxEvents
    BY <1>0, <1>2, KeptFacts
  <2> QED BY <1>2, <2>1, <2>2, <2>3, <2>4, HistorySteps
<1>3. ASSUME NEW v \in Faces, Face(v) PROVE Abstract!Enter
  <2> DEFINE e == [tag |-> TagRoll, value |-> v]
  <2>1. e \in PackedEvent /\ Record(e) = [kind |-> "roll", value |-> v]
    BY FacesAssumption DEF PackedEvent, Record
  <2>2. Record(e) \in Abstract!Events
    BY <2>1 DEF Abstract!Events, Abstract!Roll
  <2>3. /\ pc = "entry" /\ pc' = pc /\ session.len < MaxEvents
        /\ session'.len = session.len + 1
        /\ session'.events = [session.events EXCEPT ![session.len] = e]
    BY <1>0, <1>3, SessionFields DEF Face
  <2> HIDE DEF e
  <2> QED BY <1>2, <2>1, <2>2, <2>3
<1>4. ASSUME NEW v \in 0..1, NEW code, Side(v, code) PROVE Abstract!Enter
  <2> DEFINE e == [tag |-> TagFlip, value |-> v]
  <2>1. e \in PackedEvent /\ Record(e) = [kind |-> "flip", value |-> v]
    BY DEF PackedEvent, Record, TagFlip, TagRoll
  <2>2. Record(e) \in Abstract!Events
    BY <2>1 DEF Abstract!Events, Abstract!Flip
  <2>3. /\ pc = "entry" /\ pc' = pc /\ session.len < MaxEvents
        /\ session'.len = session.len + 1
        /\ session'.events = [session.events EXCEPT ![session.len] = e]
    BY <1>0, <1>4, SessionFields DEF Side
  <2> HIDE DEF e
  <2> QED BY <1>2, <2>1, <2>2, <2>3
<1>5. CASE UndoneRoll \/ UndoneFlip
  <2>1. /\ pc = "entry" /\ pc' = pc /\ session.len > 0 /\ session'.len = session.len - 1
        /\ session'.events = [session.events EXCEPT ![session.len - 1] = ZeroEvent]
    BY <1>0, <1>5, SessionFields DEF UndoneRoll, UndoneFlip
  <2>2. \A j \in 0..(session.len - 2) : session'.events[j] = session.events[j]
    BY <1>0, <2>1, CapacityAssumption DEF PhysicalSession, Slots
  <2>3. Kept(session') = SubSeq(Kept(session), 1, Len(Kept(session)) - 1)
    BY <1>0, <1>1, <2>1, <2>2, KeptPop
  <2>4. Kept(session)' = Kept(session')
    BY DEF Kept
  <2>5. Kept(session) # <<>>
    BY <1>0, <2>1, KeptFacts
  <2>6. Given' = Given
    BY <2>1 DEF Given
  <2>7. Abstract!TakeBack
    BY <2>3, <2>4, <2>5, <2>6, HistorySteps
  <2> QED BY <2>7 DEF Abstract!Next
<1>6. ASSUME session'.len = 0, pc' # "generate" PROVE Abstract!Discard
  <2>1. Kept(session)' = <<>>
    BY <1>1, <1>6, KeptFacts DEF Kept
  <2>2. Given' = Abstract!Nothing
    BY <1>6 DEF Given
  <2> QED BY <2>1, <2>2, HistorySteps
<1>7. CASE ConfirmClear \/ Back \/ GenerateBack \/ Derive \/ Revisit
  <2>1. session'.len = 0 /\ pc' # "generate"
    BY <1>0, <1>7 DEF ConfirmClear, Back, DropLocals, GenerateBack, Derive, Revisit, EmptySession
  <2> QED BY <1>6, <2>1 DEF Abstract!Next
<1>8. CASE Finish
  <2>1. /\ Matches(session, staging) /\ BudgetMet(session) /\ session' = EmptySession
        /\ pc' = "generate" /\ staging' = staging
    BY <1>0, <1>8 DEF Finish, DropLocals
  <2>2. /\ staging.diceLen = session.rolls /\ staging.coinLen = session.flips
        /\ session.rolls = CountBefore(session.events, TagRoll, session.len)
        /\ session.flips = CountBefore(session.events, TagFlip, session.len)
        /\ Placed(session.events, session.len, TagRoll, staging.dice)
        /\ Placed(session.events, session.len, TagFlip, staging.coin)
    BY <1>0, <2>1, Room
  <2>3. /\ Cardinality(Where(session, "roll")) = session.rolls
        /\ Cardinality(Where(session, "flip")) = session.flips
    BY <1>0, <2>2, PlacesCounted
  <2>4. PICK rolls \in Abstract!Ascending(Where(session, "roll")) :
          Values(session, rolls) = Bytes(staging.dice, session.rolls)
    <3>1. <<"roll", TagRoll>> \in {<<"roll", TagRoll>>, <<"flip", TagFlip>>}
      OBVIOUS
    <3> QED BY <1>0, <2>2, <3>1, BytesAscend
  <2>5. PICK flips \in Abstract!Ascending(Where(session, "flip")) :
          Values(session, flips) = Bytes(staging.coin, session.flips)
    <3>1. <<"flip", TagFlip>> \in {<<"roll", TagRoll>>, <<"flip", TagFlip>>}
      OBVIOUS
    <3> QED BY <1>0, <2>2, <3>1, BytesAscend
  <2>6. Given' = [dice |-> Values(session, rolls), coin |-> Values(session, flips)]
    <3>1. Given' = [dice |-> Bytes(staging.dice, session.rolls),
                    coin |-> Bytes(staging.coin, session.flips)]
      BY <2>1, <2>2 DEF Given, Bytes
    <3> QED BY <2>4, <2>5, <3>1
  <2>7. Kept(session)' = <<>>
    BY <1>1, <2>1, KeptFacts DEF Kept, EmptySession
  <2>8. 2585 * session.rolls + 1000 * session.flips >= 1000 * Target
    BY <2>1 DEF BudgetMet, BudgetX1000
  <2>9. Abstract!HandOn
    BY <2>3, <2>6, <2>7, <2>8, HistorySteps
  <2> QED BY <2>9 DEF Abstract!Next
<1>9. CASE AskClear \/ DeclineClear \/ UNCHANGED vars
  <2>1. /\ session' = session
        /\ UNCHANGED <<pc, staging>> \/ {pc, pc'} \subseteq {"entry", "clearing"}
    BY <1>9 DEF AskClear, DeclineClear, vars
  <2>2. Kept(session)' = Kept(session) /\ Given' = Given
    BY <2>1 DEF Kept, Given
  <2> QED BY <2>2, HistorySteps
<1> QED
  BY <1>3, <1>4, <1>5, <1>7, <1>8, <1>9 DEF Next, Heads, Tails, Abstract!Next

(* The bytes derived from are the dice and the coins of the history the    *)
(* operator built up, each in the order they fell, for every capacity and  *)
(* every target, whatever was undone and cleared on the way.               *)
THEOREM HandsOnHistory == Spec => KeepsHistory
<1>1. Spec => Abstract!Init /\ [][Abstract!Next]_(Abstract!vars)
  BY InitMaps, NextMaps, Invariance, PTL DEF Spec
<1> QED BY <1>1 DEF KeepsHistory, Abstract!Spec

=============================================================================
