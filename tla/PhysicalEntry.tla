--------------------------- MODULE PhysicalEntry ---------------------------
(***************************************************************************)
(* The dice and coin screen: run_physical_entry with the three stores it   *)
(* writes in parallel, and the visits run_secret_flow makes to it.         *)
(*                                                                         *)
(*   session   the packed event history with its two counters, local to a  *)
(*             visit; it decides whether the budget is met                 *)
(*   staging   the dice bytes and the coin bytes, the driver's; they are   *)
(*             what the key material is derived from                       *)
(*   ring      the last StripCap events for the history strip, local to a  *)
(*             visit                                                       *)
(*                                                                         *)
(* Only the session is authoritative.  That the bytes derived from are the *)
(* events counted rests on three stores being pushed, undone, cleared and  *)
(* scrubbed in lockstep.  A slot that holds no live event holds zero.      *)
(*                                                                         *)
(* The leading instrument ([K]) is layout and left out, as are keys with   *)
(* no effect: an event at capacity, Backspace on an empty history.         *)
(***************************************************************************)
EXTENDS Integers, Sequences, FiniteSets

CONSTANTS
  MaxEvents,  \* MAX_PHYSICAL_EVENTS
  StripCap,   \* STRIP_TAIL_CAP
  Target,     \* TargetBits of the committed word count
  Faces       \* the die faces rolled

ASSUME CapacityAssumption == MaxEvents \in Nat /\ StripCap \in Nat \ {0}
(* TargetBits is 128 or 256 and the buffer has 512 slots. *)
ASSUME TargetAssumption == Target \in 1..256 /\ Target <= MaxEvents
ASSUME FacesAssumption == Faces \subseteq 1..6

VARIABLES
  pc,       \* the key read that is pending
  session,  \* PhysicalSession
  staging,  \* PhysicalStaging
  ring      \* StripRing

vars == <<pc, session, staging, ring>>

Places == {"entry", "clearing", "generate", "setup", "derived"}

TagRoll == 0
TagFlip == 1
CodeHeads == 7
CodeTails == 8

Slots == 0..(MaxEvents - 1)
PackedEvent == [tag : {TagRoll, TagFlip}, value : 0..6]
ZeroEvent == [tag |-> TagRoll, value |-> 0]

PhysicalSession == [events : [Slots -> PackedEvent], len : 0..MaxEvents,
                    rolls : 0..MaxEvents, flips : 0..MaxEvents]
PhysicalStaging == [dice : [Slots -> 0..6], diceLen : 0..MaxEvents,
                    coin : [Slots -> 0..1], coinLen : 0..MaxEvents]
StripRing == [codes : [0..(StripCap - 1) -> 0..CodeTails],
              len : 0..StripCap, head : 0..(StripCap - 1)]

EmptySession == [events |-> [i \in Slots |-> ZeroEvent],
                 len |-> 0, rolls |-> 0, flips |-> 0]
EmptyStaging == [dice |-> [i \in Slots |-> 0], diceLen |-> 0,
                 coin |-> [i \in Slots |-> 0], coinLen |-> 0]
EmptyRing == [codes |-> [i \in 0..(StripCap - 1) |-> 0], len |-> 0, head |-> 0]

TypeOK ==
  /\ pc \in Places
  /\ session \in PhysicalSession
  /\ staging \in PhysicalStaging
  /\ ring \in StripRing

Init ==
  /\ pc = "entry"
  /\ session = EmptySession /\ staging = EmptyStaging /\ ring = EmptyRing

---------------------------------------------------------------------------
(* The stores. *)

PushRaw(s, t, v) ==
  [events |-> [s.events EXCEPT ![s.len] = [tag |-> t, value |-> v]],
   len |-> s.len + 1, rolls |-> s.rolls, flips |-> s.flips]
PushRoll(s, v) == [PushRaw(s, TagRoll, v) EXCEPT !.rolls = @ + 1]
\* Mutant: a flip counted as a roll.
PushFlipAsRoll(s, v) == [PushRaw(s, TagFlip, v) EXCEPT !.rolls = @ + 1]
PushFlip(s, v) == [PushRaw(s, TagFlip, v) EXCEPT !.flips = @ + 1]

Last(s) == s.events[s.len - 1]
Unpush(s) ==
  [events |-> [s.events EXCEPT ![s.len - 1] = ZeroEvent],
   len |-> s.len - 1, rolls |-> s.rolls, flips |-> s.flips]
UndoRoll(s) == [Unpush(s) EXCEPT !.rolls = @ - 1]
UndoFlip(s) == [Unpush(s) EXCEPT !.flips = @ - 1]

WithDice(g, bytes, len) ==
  [dice |-> bytes, diceLen |-> len, coin |-> g.coin, coinLen |-> g.coinLen]
WithCoin(g, bytes, len) ==
  [dice |-> g.dice, diceLen |-> g.diceLen, coin |-> bytes, coinLen |-> len]

PushDice(g, v) == WithDice(g, [g.dice EXCEPT ![g.diceLen] = v], g.diceLen + 1)
PushCoin(g, v) == WithCoin(g, [g.coin EXCEPT ![g.coinLen] = v], g.coinLen + 1)
\* Mutant: the oldest byte is undone.
UndoDiceFirst(g) == WithDice(g, [g.dice EXCEPT ![0] = 0], g.diceLen - 1)
\* Mutant: the byte undone is left in place.
UndoDiceUnscrubbed(g) == WithDice(g, g.dice, g.diceLen - 1)
UndoDice(g) == WithDice(g, [g.dice EXCEPT ![g.diceLen - 1] = 0], g.diceLen - 1)
UndoCoin(g) == WithCoin(g, [g.coin EXCEPT ![g.coinLen - 1] = 0], g.coinLen - 1)

(* The cell i places after cell h, both below StripCap. *)
Cell(h, i) == IF h + i < StripCap THEN h + i ELSE h + i - StripCap

Window(codes, len, head) == [codes |-> codes, len |-> len, head |-> head]

\* Mutant: the window does not advance.
PushStripKeepingHead(r, code) ==
  IF r.len < StripCap
    THEN Window([r.codes EXCEPT ![Cell(r.head, r.len)] = code], r.len + 1, r.head)
    ELSE Window([r.codes EXCEPT ![r.head] = code], r.len, r.head)

PushStrip(r, code) ==
  IF r.len < StripCap
    THEN Window([r.codes EXCEPT ![Cell(r.head, r.len)] = code], r.len + 1, r.head)
    ELSE Window([r.codes EXCEPT ![r.head] = code], r.len, Cell(r.head, 1))

PopStrip(r) ==
  IF r.len = 0 THEN r
  ELSE Window([r.codes EXCEPT ![Cell(r.head, r.len - 1)] = 0], r.len - 1, r.head)

\* Mutant: flips earn nothing.
BudgetWithoutCoins(rolls, flips) == 2585 * rolls
BudgetX1000(rolls, flips) == 2585 * rolls + 1000 * flips

BudgetMet(s) == BudgetX1000(s.rolls, s.flips) >= 1000 * Target

---------------------------------------------------------------------------
(* The keys of the screen. *)

Face(v) ==
  /\ pc = "entry" /\ session.len < MaxEvents
  /\ session' = PushRoll(session, v)
  /\ staging' = PushDice(staging, v)
  /\ ring' = PushStrip(ring, v)
  /\ UNCHANGED pc

Side(v, code) ==
  /\ pc = "entry" /\ session.len < MaxEvents
  /\ session' = PushFlip(session, v)
  /\ staging' = PushCoin(staging, v)
  /\ ring' = PushStrip(ring, code)
  /\ UNCHANGED pc

Heads == Side(1, CodeHeads)
Tails == Side(0, CodeTails)

UndoneRoll ==
  /\ pc = "entry" /\ session.len > 0 /\ Last(session).tag = TagRoll
  /\ session' = UndoRoll(session)
  /\ staging' = UndoDice(staging)
  /\ ring' = PopStrip(ring)
  /\ UNCHANGED pc

UndoneFlip ==
  /\ pc = "entry" /\ session.len > 0 /\ Last(session).tag # TagRoll
  /\ session' = UndoFlip(session)
  /\ staging' = UndoCoin(staging)
  /\ ring' = PopStrip(ring)
  /\ UNCHANGED pc

AskClear == pc = "entry" /\ pc' = "clearing" /\ UNCHANGED <<session, staging, ring>>

DeclineClear == pc = "clearing" /\ pc' = "entry" /\ UNCHANGED <<session, staging, ring>>

ConfirmClear ==
  /\ pc = "clearing" /\ pc' = "entry"
  /\ session' = EmptySession /\ staging' = EmptyStaging /\ ring' = EmptyRing

---------------------------------------------------------------------------
(* Leaving the screen: session and ring are dropped, and scrubbed by it. *)

DropLocals == session' = EmptySession /\ ring' = EmptyRing

Finish ==
  /\ pc = "entry" /\ BudgetMet(session)
  /\ pc' = "generate" /\ DropLocals /\ UNCHANGED staging

\* Mutant: the bytes survive going back.
BackKeepingStaging ==
  /\ pc = "entry"
  /\ pc' = "setup" /\ DropLocals /\ UNCHANGED staging

Back ==
  /\ pc = "entry"
  /\ pc' = "setup" /\ DropLocals /\ staging' = EmptyStaging

(* What the driver does next: the Generate screen, or setup and a new visit. *)
GenerateBack ==
  /\ pc = "generate" /\ pc' = "setup"
  /\ staging' = EmptyStaging /\ UNCHANGED <<session, ring>>

Derive ==
  /\ pc = "generate" /\ pc' = "derived"
  /\ staging' = EmptyStaging /\ UNCHANGED <<session, ring>>

Revisit ==
  /\ pc = "setup" /\ pc' = "entry"
  /\ session' = EmptySession /\ ring' = EmptyRing /\ UNCHANGED staging

Next ==
  \/ \E v \in Faces : Face(v)
  \/ Heads \/ Tails \/ UndoneRoll \/ UndoneFlip
  \/ AskClear \/ DeclineClear \/ ConfirmClear
  \/ Finish \/ Back \/ GenerateBack \/ Derive \/ Revisit

Spec == Init /\ [][Next]_vars

---------------------------------------------------------------------------
(* Properties. *)

CountBefore(events, t, k) == Cardinality({j \in 0..(k - 1) : events[j].tag = t})

(* Of the first n events, those of tag t are in bytes, in their order. *)
Placed(events, n, t, bytes) == \A k \in 0..(n - 1) :
  events[k].tag = t => bytes[CountBefore(events, t, k)] = events[k].value

(* The bytes of g are the events of s: the n-th roll is the n-th die byte, *)
(* the n-th flip the n-th coin byte, and there are no others.              *)
Matches(s, g) ==
  /\ s.rolls + s.flips = s.len
  /\ s.rolls = CountBefore(s.events, TagRoll, s.len) /\ g.diceLen = s.rolls
  /\ s.flips = CountBefore(s.events, TagFlip, s.len) /\ g.coinLen = s.flips
  /\ Placed(s.events, s.len, TagRoll, g.dice)
  /\ Placed(s.events, s.len, TagFlip, g.coin)

(* The bytes staged are the events counted.  physical.rs keeps the two     *)
(* stores apart and relies on every accepted push, undo and clear reaching *)
(* both, on every visit to the screen.                                     *)
Lockstep == pc \in {"entry", "clearing"} => Matches(session, staging)

(* The sources that reach the Generate screen carry the target: at less    *)
(* than log2(6) = 2.58496... bits per die byte, not at the 2.585 that      *)
(* budget_bits_x1000 rounds up to, and counted on the staged bytes, not on *)
(* the session that passed the check.                                      *)
WitnessedBits ==
  pc = "generate" =>
    258496 * staging.diceLen + 100000 * staging.coinLen >= 100000 * Target

(* A full history buffer is never a trap: pushes are refused there, but    *)
(* the budget is met, so Enter leaves the screen.                          *)
FullIsEnough == pc = "entry" /\ session.len = MaxEvents => BudgetMet(session)

StripCode(e) == IF e.tag = TagRoll THEN e.value
                ELSE IF e.value = 1 THEN CodeHeads ELSE CodeTails

Shows(r, s) ==
  /\ r.len <= s.len
  /\ \A i \in 0..(r.len - 1) :
       r.codes[Cell(r.head, i)] = StripCode(s.events[s.len - r.len + i])

(* The strip shows the latest events in the order they were entered, with  *)
(* no gap and none that was taken back, also after undoing past a tile     *)
(* that had scrolled off.                                                  *)
StripShowsLatest == Shows(ring, session)

SessionClean(s) == \A k \in s.len..(MaxEvents - 1) : s.events[k] = ZeroEvent
StagingClean(g) ==
  /\ \A k \in g.diceLen..(MaxEvents - 1) : g.dice[k] = 0
  /\ \A k \in g.coinLen..(MaxEvents - 1) : g.coin[k] = 0
RingClean(r) == \A i \in r.len..(StripCap - 1) : r.codes[Cell(r.head, i)] = 0

(* Whatever was undone, cleared, discarded or used is overwritten: a slot  *)
(* of any of the stores that holds no live event is zero, and outside the  *)
(* screen only the bytes of a met budget are live.                         *)
DeadSlotsZero ==
  /\ SessionClean(session) /\ StagingClean(staging) /\ RingClean(ring)
  /\ pc \in {"setup", "derived"} => staging.diceLen = 0 /\ staging.coinLen = 0
  /\ pc \in {"generate", "setup", "derived"} => session.len = 0 /\ ring.len = 0

Abstract == INSTANCE PhysicalHistory WITH
  history <- [i \in 1..session.len |->
                [kind |-> IF session.events[i - 1].tag = TagRoll THEN "roll" ELSE "flip",
                 value |-> session.events[i - 1].value]],
  handed <- IF pc = "generate"
              THEN [dice |-> [i \in 1..staging.diceLen |-> staging.dice[i - 1]],
                    coin |-> [i \in 1..staging.coinLen |-> staging.coin[i - 1]]]
              ELSE [dice |-> <<>>, coin |-> <<>>]

(* The screen implements the promise of PhysicalHistory: the dice and the  *)
(* coins handed on are those of the history the operator built up.         *)
KeepsHistory == Abstract!Spec
=============================================================================
