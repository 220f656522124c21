---------------------------- MODULE SetupScreen ----------------------------
(***************************************************************************)
(* The setup screen (screens/setup.rs) and its loop in the pre-secret      *)
(* driver: word count, entropy mode, instrument and optional sources are   *)
(* chosen on one screen, row by row.                                       *)
(*                                                                         *)
(* What can be chosen is asked again for every frame (driver.rs:503-506),  *)
(* so the offer may change between any two keys, under whatever has been   *)
(* chosen so far.                                                          *)
(***************************************************************************)
EXTENDS Integers, Sequences, SequencesExt

VARIABLES
  offer,       \* ModeAvailability of the frame on the screen
  row,         \* the active row
  words24, mode, instrument,
  extras,      \* the optional sources switched on
  committed    \* history: what was committed and what was on offer then, at most one

setup == <<offer, row, words24, mode, instrument, extras, committed>>
choices == <<words24, mode, instrument, extras>>

ModeOrder       == <<"Combined", "DiceOnly", "MachineOnly">>
InstrumentOrder == <<"Dice", "Coins", "Both">>
ExtraOrder      == <<"tpm", "usb_trng">>

(* What the gate answers of one primary source. *)
Answer == [approved : BOOLEAN, sole_source_allowed : BOOLEAN]

(* compute_mode_availability *)
ModeAvailability(rng, seed, optional) ==
  LET primary == {rng, seed}
      any     == \E s \in primary : s.approved
      sole    == \E s \in primary : s.approved /\ s.sole_source_allowed
  IN  [modes  |-> {"DiceOnly"} \cup (IF any THEN {"Combined"} ELSE {})
                               \cup (IF sole THEN {"MachineOnly"} ELSE {}),
       extras |-> optional]

Offers == {ModeAvailability(rng, seed, optional) :
             rng \in Answer, seed \in Answer, optional \in SUBSET Range(ExtraOrder)}

NoOffer == [modes |-> {}, extras |-> {}]

IsPhysical(m) == m \in {"Combined", "DiceOnly"}
UsesMachineSources(m) == m \in {"Combined", "MachineOnly"}
ExtrasRowActive == UsesMachineSources(mode) /\ offer.extras # {}

---------------------------------------------------------------------------
(* The n-th after the current one, wrapping; something that is not there   *)
(* counts as the first.                                                    *)
Neighbour(order, current, n) ==
  LET i == IF Contains(order, current) THEN CHOOSE k \in DOMAIN order : order[k] = current ELSE 1
  IN  order[((i - 1 + n) % Len(order)) + 1]

(* One step back is all the others forward. *)
Stride(order, step) == IF step = 1 THEN 1 ELSE Len(order) - 1

ValidRows ==
  <<"words", "mode">> \o (IF ExtrasRowActive THEN <<"extras">> ELSE <<>>)
                      \o (IF IsPhysical(mode) THEN <<"instrument">> ELSE <<>>)

\* Mutant: a mode not on offer is not skipped.
CycleModeUnchecked(step) == Neighbour(ModeOrder, mode, Stride(ModeOrder, step))

(* cycle_mode: the nearest mode on offer in that direction. *)
CycleMode(step) ==
  LET Nth(n)  == Neighbour(ModeOrder, mode, n * Stride(ModeOrder, step))
      offered == {n \in 1 .. 3 : Nth(n) \in offer.modes}
  IN  IF offered = {} THEN mode ELSE Nth(Min(offered))

Offered == SelectSeq(ExtraOrder, LAMBDA x : x \in offer.extras)
Toggled(x) == IF x \in extras THEN extras \ {x} ELSE extras \cup {x}

\* Mutant: what was switched on under another mode goes with the commit.
EffectiveExtrasUnmasked == extras \cap offer.extras

EffectiveExtras == IF UsesMachineSources(mode) THEN extras \cap offer.extras ELSE {}

---------------------------------------------------------------------------
(* SetupState::new *)
Fresh ==
  /\ row' = "words" /\ words24' = FALSE /\ mode' = "Combined"
  /\ instrument' = "Both" /\ extras' = {}

SetupInit ==
  /\ offer \in Offers
  /\ row = "words" /\ words24 = FALSE /\ mode = "Combined"
  /\ instrument = "Both" /\ extras = {}
  /\ committed = <<>>

(* A key is taken against the frame it was pressed on; the next frame asks *)
(* anew.                                                                   *)
NextFrame == offer' \in Offers /\ UNCHANGED committed

MoveRow(step) ==
  /\ row' = Neighbour(ValidRows, row, Stride(ValidRows, step))
  /\ UNCHANGED choices
  /\ NextFrame

CycleWords == row = "words" /\ words24' = ~words24 /\ UNCHANGED <<mode, instrument, extras>>

CycleModes(step) ==
  /\ row = "mode"
  /\ mode' = CycleMode(step)
  /\ UNCHANGED <<words24, instrument, extras>>

CycleInstrument(step) ==
  /\ row = "instrument" /\ IsPhysical(mode)
  /\ instrument' = Neighbour(InstrumentOrder, instrument, Stride(InstrumentOrder, step))
  /\ UNCHANGED <<words24, mode, extras>>

CycleExtras ==
  /\ row = "extras" /\ ExtrasRowActive
  /\ extras' = Toggled(Offered[1])
  /\ UNCHANGED <<words24, mode, instrument>>

CycleActive(step) ==
  /\ CycleWords \/ CycleModes(step) \/ CycleInstrument(step) \/ CycleExtras
  /\ UNCHANGED row
  /\ NextFrame

SelectWords(n) ==
  /\ row = "words" /\ n <= 2
  /\ words24' = (n = 2)
  /\ UNCHANGED <<mode, instrument, extras>>

SelectMode(n) ==
  /\ row = "mode" /\ ModeOrder[n] \in offer.modes
  /\ mode' = ModeOrder[n]
  /\ UNCHANGED <<words24, instrument, extras>>

SelectInstrument(n) ==
  /\ row = "instrument" /\ IsPhysical(mode)
  /\ instrument' = InstrumentOrder[n]
  /\ UNCHANGED <<words24, mode, extras>>

SelectExtra(n) ==
  /\ row = "extras" /\ ExtrasRowActive /\ n \in DOMAIN Offered
  /\ extras' = Toggled(Offered[n])
  /\ UNCHANGED <<words24, mode, instrument>>

DirectSelect(n) ==
  /\ SelectWords(n) \/ SelectMode(n) \/ SelectInstrument(n) \/ SelectExtra(n)
  /\ UNCHANGED row
  /\ NextFrame

(* A key without a meaning here, Enter on a mode not on offer among them:  *)
(* the frame is drawn again.                                               *)
Ignored == UNCHANGED <<row, choices>> /\ NextFrame

(* Esc leaves the screen; the loop of the gates opens a new one. *)
SetupBack == Fresh /\ NextFrame

SetupKey ==
  \/ SetupBack
  \/ \E step \in {-1, 1} : MoveRow(step) \/ CycleActive(step)
  \/ \E n \in 1 .. 3 : DirectSelect(n)
  \/ Ignored

(* Enter.  The screen's state ends with it. *)
Commit ==
  /\ mode \in offer.modes
  /\ committed' = << [words24 |-> words24, mode |-> mode, instrument |-> instrument,
                      extras |-> EffectiveExtras, offer |-> offer] >>
  /\ Fresh
  /\ offer' = NoOffer
===========================================================================
