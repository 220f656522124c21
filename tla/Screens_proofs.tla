---------------------------- MODULE Screens_proofs --------------------------
(***************************************************************************)
(* The screens, for limits of any size, any numbers of the purposes, and   *)
(* texts of any length.                                                    *)
(*                                                                         *)
(* Each screen keeps an invariant of its own (IInv), so the proof goes     *)
(* screen by screen: first what its operators compute, then which steps    *)
(* touch its state at all, then those steps.  The path builder's promise   *)
(* rests on two facts about texts: the written path is read back as it     *)
(* was (WrittenReadsBack), and two texts that are read as one path are     *)
(* the same but for the markers (ReadingIsFaithful) - of all texts, not    *)
(* only of those one slip away.                                            *)
(***************************************************************************)
EXTENDS Screens, SequenceTheorems, WellFoundedInduction, TLAPS

---------------------------------------------------------------------------
(* A nonempty set of natural numbers has a least one. *)
LEMMA MinIsIn ==
  ASSUME NEW S \in SUBSET Nat, S # {}
  PROVE  /\ Min(S) \in S
         /\ \A n \in S : Min(S) <= n
<1> DEFINE R == OpToRel(<, Nat)
<1>1. PICK m \in S : \A k \in S : ~ (<<k, m>> \in R)
  BY NatLessThanWellFounded, WFMin
<1>2. \A k \in S : ~ (k < m)
  BY <1>1 DEF OpToRel
<1>3. m \in Nat /\ S \subseteq Nat
  OBVIOUS
<1>4. \A k \in S : m <= k
  BY <1>2, <1>3
<1> QED BY <1>4 DEF Min

---------------------------------------------------------------------------
(* The setup screen. *)

(* Dice are always on offer (compute_mode_availability).                   *)
LEMMA OfferFacts ==
  ASSUME NEW o \in Offers
  PROVE  "DiceOnly" \in o.modes
<1>1. PICK rng \in Answer, seed \in Answer, optional \in SUBSET Range(ExtraOrder) :
        o = ModeAvailability(rng, seed, optional)
  BY DEF Offers
<1> QED BY <1>1 DEF ModeAvailability

(* One to three steps from any mode, in either direction, are the dice.    *)
LEMMA ModeReached ==
  ASSUME NEW current, NEW step \in {-1, 1}
  PROVE  \E n \in 1 .. 3 : Neighbour(ModeOrder, current, n * Stride(ModeOrder, step)) = "DiceOnly"
<1> DEFINE i == IF Contains(ModeOrder, current)
                  THEN CHOOSE k \in DOMAIN ModeOrder : ModeOrder[k] = current ELSE 1
           s == Stride(ModeOrder, step)
<1>1. Len(ModeOrder) = 3 /\ DOMAIN ModeOrder = 1 .. 3 /\ ModeOrder[2] = "DiceOnly"
  BY DEF ModeOrder
<1>2. i \in {1, 2, 3}
  BY <1>1 DEF Contains
<1>3. s \in {1, 2}
  BY <1>1 DEF Stride
<1> HIDE DEF i, s
<1>4. \E n \in 1 .. 3 : ((i - 1 + n * s) % 3) + 1 = 2
  <2>1. s = 1 => \/ ((i - 1 + 1 * s) % 3) + 1 = 2
                 \/ ((i - 1 + 2 * s) % 3) + 1 = 2
                 \/ ((i - 1 + 3 * s) % 3) + 1 = 2
    BY <1>2
  <2>2. s = 2 => \/ ((i - 1 + 1 * s) % 3) + 1 = 2
                 \/ ((i - 1 + 2 * s) % 3) + 1 = 2
                 \/ ((i - 1 + 3 * s) % 3) + 1 = 2
    BY <1>2
  <2> QED BY <1>3, <2>1, <2>2
<1>5. PICK n \in 1 .. 3 : ((i - 1 + n * s) % 3) + 1 = 2
  BY <1>4
<1>6. Neighbour(ModeOrder, current, n * s) = ModeOrder[((i - 1 + n * s) % 3) + 1]
  BY <1>1 DEF Neighbour, i
<1> QED BY <1>1, <1>5, <1>6 DEF s

(* cycle_mode ends on a mode on offer, wherever it starts.                 *)
LEMMA CycledModeIsOffered ==
  ASSUME "DiceOnly" \in offer.modes, NEW step \in {-1, 1}
  PROVE  CycleMode(step) \in offer.modes
<1> DEFINE Nth(n) == Neighbour(ModeOrder, mode, n * Stride(ModeOrder, step))
           offered == {n \in 1 .. 3 : Nth(n) \in offer.modes}
<1>1. offered # {}
  BY ModeReached
<1>2. CycleMode(step) = Nth(Min(offered))
  BY <1>1 DEF CycleMode
<1>3. offered \in SUBSET Nat
  OBVIOUS
<1> HIDE DEF Nth
<1>4. \A n \in offered : Nth(n) \in offer.modes
  OBVIOUS
<1> HIDE DEF offered
<1>5. Min(offered) \in offered
  BY <1>1, <1>3, MinIsIn
<1> QED BY <1>2, <1>4, <1>5

(* The mode row is the second of every screen.                             *)
LEMMA RowsShown ==
  /\ Len(ValidRows) \in {2, 3, 4}
  /\ DOMAIN ValidRows = 1 .. Len(ValidRows)
  /\ ValidRows[2] = "mode"
<1>1. CASE ExtrasRowActive /\ IsPhysical(mode)
  <2>1. ValidRows = <<"words", "mode">> \o <<"extras">> \o <<"instrument">>
    BY <1>1 DEF ValidRows
  <2> QED BY <2>1
<1>2. CASE ExtrasRowActive /\ ~IsPhysical(mode)
  <2>1. ValidRows = <<"words", "mode">> \o <<"extras">> \o << >>
    BY <1>2 DEF ValidRows
  <2> QED BY <2>1
<1>3. CASE ~ExtrasRowActive /\ IsPhysical(mode)
  <2>1. ValidRows = <<"words", "mode">> \o << >> \o <<"instrument">>
    BY <1>3 DEF ValidRows
  <2> QED BY <2>1
<1>4. CASE ~ExtrasRowActive /\ ~IsPhysical(mode)
  <2>1. ValidRows = <<"words", "mode">> \o << >> \o << >>
    BY <1>4 DEF ValidRows
  <2> QED BY <2>1
<1> QED BY <1>1, <1>2, <1>3, <1>4

(* From any row, also one that is no longer shown, the mode row is near.   *)
LEMMA ModeRowNear == row = "mode" \/ \E n \in 1 .. 3 : Neighbour(ValidRows, row, n) = "mode"
<1> DEFINE L == Len(ValidRows)
           i == IF Contains(ValidRows, row)
                  THEN CHOOSE k \in DOMAIN ValidRows : ValidRows[k] = row ELSE 1
<1>1. L \in {2, 3, 4} /\ DOMAIN ValidRows = 1 .. L /\ ValidRows[2] = "mode"
  BY RowsShown
<1>2. i \in 1 .. L
  BY <1>1 DEF Contains
<1>3. \A n \in 1 .. 3 : Neighbour(ValidRows, row, n) = ValidRows[((i - 1 + n) % L) + 1]
  BY DEF Neighbour
<1>4. i = 2 => row = "mode"
  BY <1>1 DEF Contains
<1> HIDE DEF i, L
<1>5. i = 2 \/ \E n \in 1 .. 3 : ((i - 1 + n) % L) + 1 = 2
  BY <1>1, <1>2
<1> QED BY <1>1, <1>3, <1>4, <1>5

(* The screen shows what is on offer. *)
OfferShown == screen = "setup" => offer \in Offers

(* Who touches the choices, and that the screen is not come back to.       *)
LEMMA SetupSteps ==
  ASSUME [Next]_vars
  PROVE  \/ AtSetup \/ CommitSetup \/ EnterVerify
         \/ UNCHANGED setup /\ (screen' = "setup" => screen = "setup")
<1> USE DEF Goto, Leave
<1>1. CASE Reveal \/ Finish \/ OpenGrid \/ GridKey \/ CloseGrid
  BY <1>1 DEF Reveal, Finish, OpenGrid, GridKey, CloseGrid
<1>2. CASE OpenBuilder \/ AtBuilder \/ CloseBuilder \/ RefusePath \/ CosignerExport
  BY <1>2 DEF OpenBuilder, AtBuilder, CloseBuilder, RefusePath, CosignerExport
<1>3. CASE DerivePath \/ DerivePathFails \/ AcknowledgePath
  BY <1>3 DEF DerivePath, DerivePathFails, AcknowledgePath
<1>4. CASE OpenExport \/ DeclineExport \/ AcceptExport \/ ExportKey \/ ExportFails \/ LeaveExport
  BY <1>4 DEF OpenExport, DeclineExport, AcceptExport, ExportKey, ExportFails, LeaveExport
<1>5. CASE UNCHANGED vars
  BY <1>5 DEF vars
<1> QED BY <1>1, <1>2, <1>3, <1>4, <1>5 DEF Next

(* A key of the screen draws a frame with a new offer, and commits         *)
(* nothing.                                                                *)
LEMMA KeysKeepCommits ==
  ASSUME SetupKey
  PROVE  offer' \in Offers /\ committed' = committed
<1> USE DEF NextFrame
<1>1. CASE SetupBack
  BY <1>1 DEF SetupBack
<1>2. CASE Ignored
  BY <1>2 DEF Ignored
<1>3. ASSUME NEW step \in {-1, 1}, MoveRow(step) \/ CycleActive(step)
      PROVE  offer' \in Offers /\ committed' = committed
  BY <1>3 DEF MoveRow, CycleActive
<1>4. ASSUME NEW n \in 1 .. 3, DirectSelect(n)
      PROVE  offer' \in Offers /\ committed' = committed
  BY <1>4 DEF DirectSelect
<1> QED BY <1>1, <1>2, <1>3, <1>4 DEF SetupKey

(* Enter commits what the frame offers, and no other step commits.         *)
LEMMA SetupKept ==
  ASSUME SetupCommitsOffered, OfferShown, [Next]_vars
  PROVE  SetupCommitsOffered' /\ OfferShown'
<1>1. CASE AtSetup
  <2>1. offer' \in Offers /\ committed' = committed
    BY <1>1, KeysKeepCommits DEF AtSetup
  <2> QED BY <2>1 DEF SetupCommitsOffered, OfferShown
<1>2. CASE CommitSetup
  <2> DEFINE c == [words24 |-> words24, mode |-> mode, instrument |-> instrument,
                   extras |-> EffectiveExtras, offer |-> offer]
  <2>1. committed' = <<c>> /\ mode \in offer.modes /\ screen' = "ceremony"
    BY <1>2 DEF CommitSetup, Commit, Goto
  <2>2. c.mode \in c.offer.modes /\ c.extras \subseteq c.offer.extras
    BY <2>1 DEF EffectiveExtras
  <2>3. c.mode = "DiceOnly" => c.extras = {}
    BY DEF EffectiveExtras, UsesMachineSources
  <2>4. DOMAIN committed' = {1} /\ committed'[1] = c
    BY <2>1
  <2> HIDE DEF c
  <2> QED BY <2>1, <2>2, <2>3, <2>4 DEF SetupCommitsOffered, OfferShown
<1>3. CASE EnterVerify
  BY <1>3 DEF EnterVerify, SetupCommitsOffered, OfferShown, Goto
<1>4. CASE UNCHANGED setup /\ (screen' = "setup" => screen = "setup")
  BY <1>4 DEF setup, SetupCommitsOffered, OfferShown
<1> QED BY <1>1, <1>2, <1>3, <1>4, SetupSteps

(* With an offer on the screen there is a way to a mode on offer.          *)
LEMMA OfferOnScreenSuffices ==
  ASSUME OfferShown
  PROVE  SetupNeverTraps
<1>1. ASSUME screen = "setup", NEW step \in {-1, 1}
      PROVE  CycleMode(step) \in offer.modes
  BY <1>1, OfferFacts, CycledModeIsOffered DEF OfferShown
<1> QED BY <1>1, ModeRowNear DEF SetupNeverTraps

---------------------------------------------------------------------------
(* The grid. *)

(* The slots are numbered in mixed radix. *)
Digit(x, n, r) == x * n + r

(* A number has one quotient and one remainder.                            *)
LEMMA DigitsAreUnique ==
  ASSUME NEW x \in Int, NEW y \in Int, NEW n \in Nat, NEW r \in 0 .. n - 1, NEW q \in 0 .. n - 1,
         Digit(x, n, r) = Digit(y, n, q)
  PROVE  x = y /\ r = q
<1> USE DEF Digit
<1>1. CASE x < y
  <2>1. PICK d \in Nat : y = x + 1 + d
    <3>1. y - x - 1 \in Nat
      BY <1>1
    <3> QED BY <3>1
  <2>2. y * n = x * n + n + d * n
    BY <2>1
  <2>3. d * n \in Nat
    BY <2>1
  <2> QED BY <2>2, <2>3
<1>2. CASE y < x
  <2>1. PICK d \in Nat : x = y + 1 + d
    <3>1. x - y - 1 \in Nat
      BY <1>2
    <3> QED BY <3>1
  <2>2. x * n = y * n + n + d * n
    BY <2>1
  <2>3. d * n \in Nat
    BY <2>1
  <2> QED BY <2>2, <2>3
<1> QED BY <1>1, <1>2

(* ExtendedVerificationValues::index gives no slot to two coordinates.     *)
LEMMA SlotsAreDistinct ==
  ASSUME NEW c \in Coordinates, NEW d \in Coordinates, Slot(c) = Slot(d)
  PROVE  c = d
<1> DEFINE X(e) == Digit(e.standard, NAccountMax + 1, e.account)
           Y(e) == Digit(X(e), 2, e.change)
<1>1. NAccountMax + 1 \in Nat /\ NIndexMax + 1 \in Nat
  BY GridAssumption
<1>2. \A e \in Coordinates :
        /\ e.standard \in Int
        /\ e.account \in 0 .. (NAccountMax + 1) - 1
        /\ e.change \in 0 .. 2 - 1
        /\ e.index \in 0 .. (NIndexMax + 1) - 1
  BY GridAssumption DEF Coordinates
<1>3. \A e \in Coordinates : X(e) \in Int
  BY <1>1, <1>2 DEF Digit
<1>4. \A e \in Coordinates : Y(e) \in Int
  <2> HIDE DEF X
  <2> QED BY <1>2, <1>3 DEF Digit
<1>5. \A e \in Coordinates : Slot(e) = Digit(Y(e), NIndexMax + 1, e.index)
  BY DEF Slot, Digit
<1>6. Y(c) = Y(d) /\ c.index = d.index
  <2> HIDE DEF Y
  <2> QED BY <1>1, <1>2, <1>4, <1>5, DigitsAreUnique
<1>7. X(c) = X(d) /\ c.change = d.change
  <2> HIDE DEF X
  <2> QED BY <1>2, <1>3, <1>6, DigitsAreUnique
<1>8. c.standard = d.standard /\ c.account = d.account
  BY <1>1, <1>2, <1>7, DigitsAreUnique, SMTT(20)
<1> QED BY <1>6, <1>7, <1>8 DEF Coordinates

(* So no address of the grid overwrites another.                           *)
LEMMA CellsHoldTheirOwn ==
  ASSUME NEW c \in Coordinates
  PROVE  Cells[Slot(c)] = c
<1> DEFINE Holder(slot) ==
      CHOOSE e \in Coordinates :
        /\ Slot(e) = slot
        /\ \A d \in Coordinates \ {e} : Slot(d) = slot => d.standard <= e.standard
<1>1. Slot(c) \in {Slot(e) : e \in Coordinates}
  OBVIOUS
<1>2. Cells[Slot(c)] = Holder(Slot(c))
  BY <1>1 DEF Cells
<1>3. \A d \in Coordinates \ {c} : Slot(d) # Slot(c)
  BY SlotsAreDistinct
<1>4. Holder(Slot(c)) \in Coordinates /\ Slot(Holder(Slot(c))) = Slot(c)
  BY <1>3
<1> HIDE DEF Holder
<1> QED BY <1>2, <1>4, SlotsAreDistinct

---------------------------------------------------------------------------
(* What a typist can type: of the characters that are no digits the parser *)
(* tells the markers from the others.                                      *)
Character == Markers \cup {"p", "x", "4"}
Tokens == [number : Nat \cup {NoNumber}, rest : Seq(Character)]
Texts == [master : BOOLEAN, blank : BOOLEAN, tokens : Seq(Tokens)]

(* The child a token stands for. *)
Level(t) == t.number + (IF t.rest # <<>> THEN HardenedOffset ELSE 0)

(* parse_element takes what write_path writes of a level.                  *)
LEMMA ElementAccepted ==
  ASSUME NEW t \in Tokens, t.number \in 0 .. MaxLevelValue, t.rest \in {<<>>, <<"'">>}
  PROVE  ParseElement(t) = <<"Ok", Level(t)>>
<1>1. t.number # NoNumber /\ t.number < HardenedOffset /\ ~(t.number > 2 * HardenedOffset - 1)
  BY NumbersAssumption DEF NoNumber, HardenedOffset
<1>2. ~(Len(t.rest) = 1 /\ t.rest[1] \notin Markers) /\ ~(Len(t.rest) > 1)
  <2>1. CASE t.rest = <<>>
    BY <2>1
  <2>2. CASE t.rest = <<"'">>
    BY <2>2 DEF Markers
  <2> QED BY <2>1, <2>2
<1>3. ~(t.number >= HardenedOffset)
  BY <1>1, NumbersAssumption DEF HardenedOffset
<1> QED BY <1>1, <1>2, <1>3 DEF ParseElement, Level

(* What parse_element takes is a number below the hardened bit.            *)
LEMMA ElementRead ==
  ASSUME NEW t \in Tokens, ParseElement(t)[1] = "Ok"
  PROVE  t.number \in 0 .. MaxLevelValue /\ ParseElement(t) = <<"Ok", Level(t)>>
<1>1. t.number # NoNumber
  <2> SUFFICES ASSUME t.number = NoNumber PROVE FALSE
    OBVIOUS
  <2>1. ParseElement(t) \in
          {<<"EmptySegment">>, <<"BadDigit">>, <<"MissingNumber">>, <<"BadMarker">>}
    <3>1. CASE t.rest = <<>>
      BY <3>1 DEF ParseElement
    <3>2. CASE t.rest # <<>> /\ t.rest[1] \notin Markers
      BY <3>2 DEF ParseElement
    <3>3. CASE t.rest # <<>> /\ t.rest[1] \in Markers
      BY <3>3 DEF ParseElement
    <3> QED BY <3>1, <3>2, <3>3
  <2> QED BY <2>1
<1>2. /\ ~(t.number > 2 * HardenedOffset - 1)
      /\ ~(Len(t.rest) = 1 /\ t.rest[1] \notin Markers)
      /\ ~(Len(t.rest) > 1)
      /\ ~(t.number >= HardenedOffset)
  BY <1>1 DEF ParseElement
<1>3. ParseElement(t) = <<"Ok", Level(t)>>
  BY <1>1, <1>2 DEF ParseElement, Level
<1>4. t.number \in Nat
  BY <1>1 DEF Tokens
<1>5. t.number < MaxLevelValue + 1
  BY <1>2, <1>4, NumbersAssumption DEF HardenedOffset
<1> QED BY <1>3, <1>4, <1>5, NumbersAssumption

(* What parse_path takes is read level by level.                           *)
LEMMA PathRead ==
  ASSUME NEW text \in Texts, NEW p, ParsePath(text) = <<"Ok", p>>
  PROVE  /\ ~text.blank /\ text.master
         /\ \A i \in DOMAIN text.tokens : text.tokens[i].number \in 0 .. MaxLevelValue
         /\ p = [i \in DOMAIN text.tokens |-> Level(text.tokens[i])]
<1> DEFINE Outcome(i) == IF i > MaxDepth THEN <<"TooDeep">> ELSE ParseElement(text.tokens[i])
           bad == {i \in DOMAIN text.tokens : Outcome(i)[1] # "Ok"}
<1>1. ParsePath(text) =
        IF text.blank THEN <<"Whitespace">>
        ELSE IF ~text.master THEN <<"MissingMasterPrefix">>
        ELSE IF bad # {} THEN Outcome(Min(bad))
        ELSE IF text.tokens = <<>> THEN <<"Empty">>
        ELSE <<"Ok", [i \in DOMAIN text.tokens |-> Outcome(i)[2]]>>
  BY DEF ParsePath
<1>2. text.tokens \in Seq(Tokens)
  BY DEF Texts
<1>3. bad = {}
  <2> SUFFICES ASSUME bad # {} PROVE FALSE
    OBVIOUS
  <2>1. bad \in SUBSET Nat
    BY <1>2
  <2>2. Min(bad) \in bad
    <3> HIDE DEF bad
    <3> QED BY <2>1, MinIsIn
  <2>3. Outcome(Min(bad))[1] # "Ok"
    BY <2>2
  <2> HIDE DEF bad, Outcome
  <2>4. ParsePath(text)[1] # "Ok"
    BY <1>1, <2>3
  <2> QED BY <2>4
<1>4. ~text.blank /\ text.master /\ p = [i \in DOMAIN text.tokens |-> Outcome(i)[2]]
  <2> HIDE DEF bad, Outcome
  <2>1. ParsePath(text)[1] = "Ok" /\ ParsePath(text)[2] = p
    OBVIOUS
  <2>2. ~text.blank /\ text.master /\ text.tokens # <<>>
    BY <1>1, <1>3, <2>1
  <2> QED BY <1>1, <1>3, <2>1, <2>2
<1>5. ASSUME NEW i \in DOMAIN text.tokens
      PROVE  text.tokens[i].number \in 0 .. MaxLevelValue /\ Outcome(i)[2] = Level(text.tokens[i])
  <2>1. text.tokens[i] \in Tokens
    BY <1>2
  <2>2. Outcome(i)[1] = "Ok"
    BY <1>3
  <2>3. Outcome(i) = ParseElement(text.tokens[i])
    BY <2>2
  <2> QED BY <2>1, <2>2, <2>3, ElementRead
<1> QED BY <1>4, <1>5

(* Two typed texts that read as one path are one text, but for how a       *)
(* hardened level is marked.                                               *)
LEMMA ReadingIsFaithful ==
  ASSUME NEW t \in Texts, NEW u \in Texts, NEW p,
         ParsePath(t) = <<"Ok", p>>, ParsePath(u) = <<"Ok", p>>
  PROVE  SamePath(t, u)
<1>1. /\ ~t.blank /\ t.master
      /\ \A i \in DOMAIN t.tokens : t.tokens[i].number \in 0 .. MaxLevelValue
      /\ p = [i \in DOMAIN t.tokens |-> Level(t.tokens[i])]
  BY PathRead
<1>2. /\ ~u.blank /\ u.master
      /\ \A i \in DOMAIN u.tokens : u.tokens[i].number \in 0 .. MaxLevelValue
      /\ p = [i \in DOMAIN u.tokens |-> Level(u.tokens[i])]
  BY PathRead
<1>3. t.tokens \in Seq(Tokens) /\ u.tokens \in Seq(Tokens)
  BY DEF Texts
<1>4. DOMAIN t.tokens = DOMAIN u.tokens
  BY <1>1, <1>2
<1>5. Len(t.tokens) = Len(u.tokens)
  BY <1>3, <1>4
<1>6. ASSUME NEW i \in DOMAIN t.tokens
      PROVE  /\ t.tokens[i].number = u.tokens[i].number
             /\ t.tokens[i].rest = <<>> <=> u.tokens[i].rest = <<>>
  <2> DEFINE x == t.tokens[i]
             y == u.tokens[i]
  <2>1. x.number \in 0 .. MaxLevelValue /\ y.number \in 0 .. MaxLevelValue
    BY <1>1, <1>2, <1>4
  <2>2. Level(x) = Level(y)
    BY <1>1, <1>2, <1>4
  <2> HIDE DEF x, y
  <2>3. x.number = y.number /\ (x.rest = <<>> <=> y.rest = <<>>)
    BY <2>1, <2>2, NumbersAssumption DEF Level, HardenedOffset
  <2> QED BY <2>3 DEF x, y
<1>7. t.blank = u.blank /\ t.master = u.master
  BY <1>1, <1>2 DEF Texts
<1> QED BY <1>5, <1>6, <1>7 DEF SamePath

---------------------------------------------------------------------------
(* The builder, and what its keys rely on. *)
BuilderTyped ==
  /\ values \in [Slots -> 0 .. MaxLevelValue]
  /\ hardened \in [Slots -> BOOLEAN]
  /\ depth \in Slots /\ cursor \in 1 .. depth

(* What write_path writes is a text.                                       *)
LEMMA WrittenIsText ==
  ASSUME BuilderTyped
  PROVE  WritePath \in Texts
<1>1. depth \in Nat /\ 1 .. depth \subseteq Slots
  BY DepthAssumption DEF BuilderTyped, Slots
<1>2. ASSUME NEW i \in 1 .. depth
      PROVE  [number |-> values[i], rest |-> IF hardened[i] THEN <<"'">> ELSE <<>>] \in Tokens
  <2>1. values[i] \in Nat
    BY <1>1, NumbersAssumption DEF BuilderTyped
  <2>2. <<"'">> \in Seq(Character)
    BY DEF Character, Markers
  <2>3. <<>> \in Seq(Character)
    BY EmptySeq
  <2> QED BY <2>1, <2>2, <2>3 DEF Tokens
<1>3. WritePath.tokens \in Seq(Tokens)
  BY <1>1, <1>2 DEF WritePath
<1> QED BY <1>3 DEF WritePath, Texts

(* The path on the screen, typed, is the path that is derived.             *)
LEMMA WrittenReadsBack ==
  ASSUME BuilderTyped
  PROVE  ParsePath(WritePath) = <<"Ok", BuildPath>>
<1> DEFINE text == WritePath
           Outcome(i) == IF i > MaxDepth THEN <<"TooDeep">> ELSE ParseElement(text.tokens[i])
           bad == {i \in DOMAIN text.tokens : Outcome(i)[1] # "Ok"}
<1>1. DOMAIN text.tokens = 1 .. depth /\ ~text.blank /\ text.master
  BY DEF WritePath
<1>2. depth \in Nat /\ depth >= 1 /\ 1 .. depth \subseteq Slots
  BY DepthAssumption DEF BuilderTyped, Slots
<1>3. text.tokens \in Seq(Tokens)
  BY WrittenIsText DEF Texts
<1>4. ASSUME NEW i \in 1 .. depth
      PROVE  Outcome(i) = <<"Ok", BuildPath[i]>>
  <2>1. text.tokens[i] = [number |-> values[i], rest |-> IF hardened[i] THEN <<"'">> ELSE <<>>]
    BY DEF WritePath
  <2>2. text.tokens[i] \in Tokens /\ i \in Slots
    BY <1>1, <1>2, <1>3
  <2>3. values[i] \in 0 .. MaxLevelValue /\ ~(i > MaxDepth)
    BY <2>2, DepthAssumption DEF BuilderTyped, Slots
  <2>4. ParseElement(text.tokens[i]) = <<"Ok", Level(text.tokens[i])>>
    BY <2>1, <2>2, <2>3, ElementAccepted
  <2>5. <<"'">> # <<>>
    OBVIOUS
  <2>6. Level(text.tokens[i]) = BuildPath[i]
    BY <2>1, <2>5 DEF Level, BuildPath
  <2> QED BY <2>3, <2>4, <2>6
<1>5. bad = {} /\ text.tokens # <<>>
  <2>1. \A i \in 1 .. depth : Outcome(i)[1] = "Ok"
    BY <1>4
  <2>2. 1 \in DOMAIN text.tokens
    BY <1>1, <1>2
  <2>3. text.tokens # <<>>
    BY <2>2
  <2> HIDE DEF Outcome, text
  <2>4. bad = {}
    BY <1>1, <2>1
  <2> QED BY <2>3, <2>4
<1>6. [i \in DOMAIN text.tokens |-> Outcome(i)[2]] = BuildPath
  <2> HIDE DEF Outcome, text
  <2>1. \A i \in 1 .. depth : Outcome(i)[2] = BuildPath[i]
    BY <1>4
  <2> QED BY <1>1, <2>1 DEF BuildPath
<1>7. ParsePath(text) =
        IF text.blank THEN <<"Whitespace">>
        ELSE IF ~text.master THEN <<"MissingMasterPrefix">>
        ELSE IF bad # {} THEN Outcome(Min(bad))
        ELSE IF text.tokens = <<>> THEN <<"Empty">>
        ELSE <<"Ok", [i \in DOMAIN text.tokens |-> Outcome(i)[2]]>>
  BY DEF ParsePath
<1> HIDE DEF Outcome, bad
<1> QED BY <1>1, <1>5, <1>6, <1>7

(* The purpose of the derived path is the one that was classified.         *)
LEMMA PurposeReadsBack ==
  ASSUME BuilderTyped
  PROVE  ClassifyPurposeChild(BuildPath[1]) = Purpose
<1>1. 1 \in 1 .. depth /\ 1 \in Slots
  BY DepthAssumption DEF BuilderTyped, Slots
<1>2. values[1] \in 0 .. MaxLevelValue /\ hardened[1] \in BOOLEAN
  BY <1>1 DEF BuilderTyped
<1>3. BuildPath[1] = values[1] + (IF hardened[1] THEN HardenedOffset ELSE 0)
  BY <1>1 DEF BuildPath
<1>4. CASE hardened[1]
  <2>1. BuildPath[1] >= HardenedOffset /\ BuildPath[1] - HardenedOffset = values[1]
    BY <1>2, <1>3, <1>4, NumbersAssumption DEF HardenedOffset
  <2>2. ClassifyPurposeChild(BuildPath[1]) = ClassifyPurpose(values[1], TRUE)
    BY <2>1 DEF ClassifyPurposeChild
  <2>3. Purpose = ClassifyPurpose(values[1], TRUE)
    BY <1>4 DEF ClassifyPurpose, Purpose
  <2> QED BY <2>2, <2>3
<1>5. CASE ~hardened[1]
  <2>1. ~(BuildPath[1] >= HardenedOffset) /\ BuildPath[1] = values[1]
    BY <1>2, <1>3, <1>5, NumbersAssumption DEF HardenedOffset
  <2>2. ClassifyPurposeChild(BuildPath[1]) = "Unknown"
    BY <2>1 DEF ClassifyPurposeChild, ClassifyPurpose
  <2>3. Purpose = "Unknown"
    BY <1>5 DEF ClassifyPurpose, Purpose
  <2> QED BY <2>2, <2>3
<1> QED BY <1>4, <1>5

(* A slip makes a text of a text.                                          *)
LEMMA SlipsAreTexts ==
  ASSUME NEW text \in Texts,
         \A i \in DOMAIN text.tokens : text.tokens[i].number \in Nat
  PROVE  Slips(text) \subseteq Texts
<1> DEFINE toks == text.tokens
           Retyped(i, t) == [text EXCEPT !.tokens[i] = t]
           Rests == {<<>>, <<"'">>, <<"h">>, <<"H">>, <<"p">>, <<"'", "'">>, <<"x", "4">>}
           Numbers(n) == {NoNumber, n - 1, n + 1, HardenedOffset, 2 * HardenedOffset}
<1>1. toks \in Seq(Tokens)
  BY DEF Texts
<1>2. ASSUME NEW i \in DOMAIN toks, NEW t \in Tokens
      PROVE  Retyped(i, t) \in Texts
  <2>1. [toks EXCEPT ![i] = t] \in Seq(Tokens)
    BY <1>1
  <2> QED BY <2>1 DEF Texts
<1>3. ASSUME NEW i \in DOMAIN toks, NEW r \in Rests
      PROVE  [toks[i] EXCEPT !.rest = r] \in Tokens
  <2>1. toks[i] \in Tokens
    BY <1>1
  <2>2. <<>> \in Seq(Character)
    BY EmptySeq
  <2>3. /\ <<"'">> \in Seq(Character) /\ <<"h">> \in Seq(Character) /\ <<"H">> \in Seq(Character)
        /\ <<"p">> \in Seq(Character) /\ <<"x", "4">> \in Seq(Character)
        /\ <<"'", "'">> \in Seq(Character)
    BY DEF Character, Markers
  <2>4. r \in Seq(Character)
    BY <2>2, <2>3
  <2> QED BY <2>1, <2>4 DEF Tokens
<1>4. ASSUME NEW i \in DOMAIN toks, NEW n \in Numbers(toks[i].number)
      PROVE  [toks[i] EXCEPT !.number = n] \in Tokens
  <2>1. toks[i] \in Tokens
    BY <1>1
  <2>2. n \in Nat \cup {NoNumber}
    BY NumbersAssumption DEF NoNumber, HardenedOffset
  <2> QED BY <2>1, <2>2 DEF Tokens
<1>5. ASSUME NEW s \in Seq(Tokens)
      PROVE  [text EXCEPT !.tokens = s] \in Texts
  BY DEF Texts
<1>6. /\ [text EXCEPT !.tokens = SubSeq(toks, 1, Len(toks) - 1)] \in Texts
      /\ [text EXCEPT !.tokens = Append(toks, [number |-> 0, rest |-> <<>>])] \in Texts
      /\ [text EXCEPT !.tokens = Append(toks, [number |-> NoNumber, rest |-> <<>>])] \in Texts
  <2>1. SubSeq(toks, 1, Len(toks) - 1) \in Seq(Tokens)
    BY <1>1
  <2>2. [number |-> 0, rest |-> <<>>] \in Tokens /\ [number |-> NoNumber, rest |-> <<>>] \in Tokens
    BY DEF Tokens
  <2>3. /\ Append(toks, [number |-> 0, rest |-> <<>>]) \in Seq(Tokens)
        /\ Append(toks, [number |-> NoNumber, rest |-> <<>>]) \in Seq(Tokens)
    BY <1>1, <2>2
  <2> QED BY <1>5, <2>1, <2>3
<1>7. [text EXCEPT !.master = FALSE] \in Texts /\ [text EXCEPT !.blank = TRUE] \in Texts
  BY DEF Texts
<1> DEFINE Changed(i) ==
             {Retyped(i, [toks[i] EXCEPT !.rest = r]) : r \in Rests}
             \cup {Retyped(i, [toks[i] EXCEPT !.number = n]) : n \in Numbers(toks[i].number)}
           Retypings == UNION {Changed(i) : i \in DOMAIN toks}
           Others ==
             {[text EXCEPT !.tokens = SubSeq(toks, 1, Len(toks) - 1)],
              [text EXCEPT !.tokens = Append(toks, [number |-> 0, rest |-> <<>>])],
              [text EXCEPT !.tokens = Append(toks, [number |-> NoNumber, rest |-> <<>>])],
              [text EXCEPT !.master = FALSE], [text EXCEPT !.blank = TRUE]}
<1>8. Slips(text) = Retypings \cup Others
  BY DEF Slips
<1>9. Others \subseteq Texts
  BY <1>6, <1>7
<1>10. ASSUME NEW i \in DOMAIN toks
       PROVE  Changed(i) \subseteq Texts
  <2> HIDE DEF Retyped, Rests, Numbers, toks
  <2>1. {Retyped(i, [toks[i] EXCEPT !.rest = r]) : r \in Rests} \subseteq Texts
    BY <1>2, <1>3
  <2>2. {Retyped(i, [toks[i] EXCEPT !.number = n]) : n \in Numbers(toks[i].number)} \subseteq Texts
    BY <1>2, <1>4
  <2> QED BY <2>1, <2>2
<1>11. Retypings \subseteq Texts
  <2> HIDE DEF Changed
  <2> QED BY <1>10
<1> HIDE DEF Retypings, Others
<1> QED BY <1>8, <1>9, <1>11

(* The screens on which the addresses of the ceremony may be looked at. *)
Opened == {"verify", "grid", "builder", "blocked", "warning", "result", "export"}

(* The grid lives as long as they do. *)
GridFollows ==
  /\ screen \in Opened => grid = "derived"
  /\ screen = "finish" => grid = "empty"
  /\ screen = "failure" => grid # "derived"

(* The selected cell is one of the grid. *)
CellTyped == cell \in [at : Coordinates, table : BOOLEAN]

(* The cell the grid opens on is one of its cells.                         *)
LEMMA FirstCellFits == FirstCell \in Coordinates
  BY GridAssumption DEF FirstCell, Coordinates

(* The grid is derived behind the verification screen, and leaving scrubs  *)
(* it.                                                                     *)
LEMMA GridFollowsKept ==
  ASSUME GridFollows, [Next]_vars
  PROVE  GridFollows'
<1> USE DEF Goto, Leave, GridFollows, Opened
<1>1. CASE AtSetup \/ CommitSetup \/ EnterVerify
  BY <1>1 DEF AtSetup, CommitSetup, EnterVerify
<1>2. CASE Reveal \/ Finish \/ OpenGrid \/ GridKey \/ CloseGrid
  BY <1>2 DEF Reveal, Finish, OpenGrid, GridKey, CloseGrid
<1>3. CASE OpenBuilder \/ AtBuilder \/ CloseBuilder \/ RefusePath \/ CosignerExport
  BY <1>3 DEF OpenBuilder, AtBuilder, CloseBuilder, RefusePath, CosignerExport
<1>4. CASE DerivePath \/ DerivePathFails \/ AcknowledgePath
  BY <1>4 DEF DerivePath, DerivePathFails, AcknowledgePath
<1>5. CASE OpenExport \/ DeclineExport \/ AcceptExport \/ ExportKey \/ ExportFails \/ LeaveExport
  BY <1>5 DEF OpenExport, DeclineExport, AcceptExport, ExportKey, ExportFails, LeaveExport
<1>6. CASE UNCHANGED vars
  BY <1>6 DEF vars
<1> QED BY <1>1, <1>2, <1>3, <1>4, <1>5, <1>6 DEF Next

(* Who moves the selected cell.                                            *)
LEMMA CellSteps ==
  ASSUME [Next]_vars
  PROVE  OpenGrid \/ GridKey \/ CloseGrid \/ UNCHANGED cell
<1> USE DEF Leave
<1>1. CASE AtSetup \/ CommitSetup \/ EnterVerify \/ Reveal \/ Finish
  BY <1>1 DEF AtSetup, CommitSetup, EnterVerify, Reveal, Finish
<1>2. CASE OpenBuilder \/ AtBuilder \/ CloseBuilder \/ RefusePath \/ CosignerExport
  BY <1>2 DEF OpenBuilder, AtBuilder, CloseBuilder, RefusePath, CosignerExport
<1>3. CASE DerivePath \/ DerivePathFails \/ AcknowledgePath
  BY <1>3 DEF DerivePath, DerivePathFails, AcknowledgePath
<1>4. CASE OpenExport \/ DeclineExport \/ AcceptExport \/ ExportKey \/ ExportFails \/ LeaveExport
  BY <1>4 DEF OpenExport, DeclineExport, AcceptExport, ExportKey, ExportFails, LeaveExport
<1>5. CASE UNCHANGED vars
  BY <1>5 DEF vars
<1> QED BY <1>1, <1>2, <1>3, <1>4, <1>5 DEF Next

(* The keys of the grid do not leave it.                                   *)
LEMMA CellKept ==
  ASSUME CellTyped, [Next]_vars
  PROVE  CellTyped'
<1>1. CASE OpenGrid \/ CloseGrid
  <2>1. [at |-> FirstCell, table |-> FALSE] \in [at : Coordinates, table : BOOLEAN]
    BY FirstCellFits
  <2> QED BY <1>1, <2>1 DEF OpenGrid, CloseGrid, CellTyped
<1>2. CASE GridKey
  <2> USE GridAssumption DEF CellTyped, Coordinates, Stepped
  <2>1. ASSUME NEW s \in 0 .. 3, cell' = [cell EXCEPT !.at.standard = s]
        PROVE  CellTyped'
    BY <2>1
  <2>2. CASE cell.at.account < NAccountMax /\ cell' = Stepped("account", 1)
    BY <2>2
  <2>3. CASE cell.at.account > 0 /\ cell' = Stepped("account", -1)
    BY <2>3
  <2>4. CASE cell.at.index < NIndexMax /\ cell' = Stepped("index", 1)
    BY <2>4
  <2>5. CASE cell.at.index > 0 /\ cell' = Stepped("index", -1)
    BY <2>5
  <2>6. CASE cell' = [cell EXCEPT !.at.change = 1 - @]
    BY <2>6
  <2>7. CASE cell' = [cell EXCEPT !.table = ~@]
    BY <2>7
  <2> QED BY <1>2, <2>1, <2>2, <2>3, <2>4, <2>5, <2>6, <2>7 DEF GridKey
<1>3. CASE UNCHANGED cell
  BY <1>3 DEF CellTyped
<1> QED BY <1>1, <1>2, <1>3, CellSteps

(* Each row of the grid screen shows the address of its coordinates.       *)
LEMMA RowsShowTheirOwn ==
  ASSUME CellTyped, NEW i \in GridRows
  PROVE  GridShows[i] = At(i)
<1>1. i \in 0 .. NIndexMax
  <2>1. CASE cell.table
    BY <2>1, GridAssumption DEF GridRows
  <2>2. CASE ~cell.table
    BY <2>2 DEF GridRows, CellTyped, Coordinates
  <2> QED BY <2>1, <2>2
<1>2. At(i) \in Coordinates
  BY <1>1 DEF At, CellTyped, Coordinates
<1> QED BY <1>2, CellsHoldTheirOwn DEF GridShows

---------------------------------------------------------------------------
(* The path builder. *)

(* What the result screen shows is of the path still in the builder. *)
ResultShown ==
  screen = "result" =>
    /\ result.path = BuildPath /\ result.text = WritePath
    /\ Purpose \notin Blocked

(* Who touches the builder, and how the result screen is entered.          *)
LEMMA BuilderSteps ==
  ASSUME [Next]_vars
  PROVE  \/ BuilderReset /\ screen' # "result"
         \/ BuilderKey /\ screen' # "result"
         \/ DerivePath
         \/ UNCHANGED <<builder, result>> /\ (screen' = "result" => screen = "result")
         \/ UNCHANGED builder /\ screen' # "result"
<1> USE DEF Goto, Leave
<1>1. CASE AtSetup \/ CommitSetup \/ EnterVerify
  BY <1>1 DEF AtSetup, CommitSetup, EnterVerify
<1>2. CASE Reveal \/ Finish \/ OpenGrid \/ GridKey \/ CloseGrid
  BY <1>2 DEF Reveal, Finish, OpenGrid, GridKey, CloseGrid
<1>3. CASE OpenBuilder \/ AtBuilder \/ CloseBuilder \/ RefusePath \/ CosignerExport
  BY <1>3 DEF OpenBuilder, AtBuilder, CloseBuilder, RefusePath, CosignerExport
<1>4. CASE DerivePath \/ DerivePathFails \/ AcknowledgePath
  BY <1>4 DEF DerivePathFails, AcknowledgePath
<1>5. CASE OpenExport \/ DeclineExport \/ AcceptExport \/ ExportKey \/ ExportFails \/ LeaveExport
  BY <1>5 DEF OpenExport, DeclineExport, AcceptExport, ExportKey, ExportFails, LeaveExport
<1>6. CASE UNCHANGED vars
  BY <1>6 DEF vars
<1> QED BY <1>1, <1>2, <1>3, <1>4, <1>5, <1>6 DEF Next

(* PathBuilder::new is a builder.                                          *)
LEMMA ScaffoldTyped ==
  /\ Scaffold.values \in [Slots -> 0 .. MaxLevelValue]
  /\ Scaffold.hardened \in [Slots -> BOOLEAN]
  /\ Scaffold.depth \in Slots /\ Scaffold.cursor \in 1 .. Scaffold.depth
<1>1. PurposeNumber["Bip84"] \in 0 .. MaxLevelValue
  BY NumbersAssumption DEF SingleSig
<1>2. LeafDepth \in Slots /\ 1 \in 1 .. LeafDepth
  BY DepthAssumption DEF Slots
<1>3. 0 \in 0 .. MaxLevelValue
  BY NumbersAssumption
<1> QED BY <1>1, <1>2, <1>3 DEF Scaffold

(* The keys keep each value below the hardened bit, and the cursor on a    *)
(* level.                                                                  *)
LEMMA KeysKeepBuilder ==
  ASSUME BuilderTyped, BuilderKey
  PROVE  BuilderTyped'
<1>1. /\ MaxDepth \in Nat /\ MaxLevelValue \in Nat
      /\ depth \in 1 .. MaxDepth /\ cursor \in 1 .. depth /\ cursor \in Slots
  BY DepthAssumption, NumbersAssumption DEF BuilderTyped, Slots
<1> USE DEF BuilderTyped
<1>2. CASE IncValue
  <2>1. values[cursor] + 1 \in 0 .. MaxLevelValue
    BY <1>1, <1>2 DEF IncValue
  <2> QED BY <1>1, <1>2, <2>1 DEF IncValue
<1>3. CASE DecValue
  <2>1. values[cursor] - 1 \in 0 .. MaxLevelValue
    BY <1>1, <1>3 DEF DecValue
  <2> QED BY <1>1, <1>3, <2>1 DEF DecValue
<1>4. CASE ToggleHardened
  BY <1>1, <1>4 DEF ToggleHardened
<1>5. CASE Grow
  <2>1. depth + 1 \in Slots /\ depth + 1 \in 1 .. depth + 1 /\ 0 \in 0 .. MaxLevelValue
    BY <1>1, <1>5 DEF Grow, Slots
  <2> QED BY <1>5, <2>1 DEF Grow
<1>6. CASE Shrink
  <2>1. depth - 1 \in Slots /\ 0 \in 0 .. MaxLevelValue
    BY <1>1, <1>6 DEF Shrink, Slots
  <2>2. (IF cursor >= depth THEN depth - 1 ELSE cursor) \in 1 .. depth - 1
    BY <1>1, <1>6 DEF Shrink
  <2> QED BY <1>6, <2>1, <2>2 DEF Shrink
<1>7. CASE MoveCursor
  <2>1. (cursor % depth) + 1 \in 1 .. depth
    BY <1>1
  <2> QED BY <1>7, <2>1 DEF MoveCursor
<1>8. ASSUME NEW s \in Scripts, SetScript(s)
      PROVE  BuilderTyped'
  BY <1>8 DEF SetScript
<1> QED BY <1>2, <1>3, <1>4, <1>5, <1>6, <1>7, <1>8 DEF BuilderKey

(* The result screen shows the path of the builder behind it.              *)
LEMMA BuilderKept ==
  ASSUME BuilderTyped, ResultShown, [Next]_vars
  PROVE  BuilderTyped' /\ ResultShown'
<1>1. CASE BuilderReset /\ screen' # "result"
  BY <1>1, ScaffoldTyped DEF BuilderReset, BuilderTyped, ResultShown
<1>2. CASE BuilderKey /\ screen' # "result"
  BY <1>2, KeysKeepBuilder DEF ResultShown
<1>3. CASE DerivePath
  <2>1. /\ UNCHANGED builder /\ Purpose \notin Blocked
        /\ result'.path = BuildPath /\ result'.text = WritePath
    BY <1>3 DEF DerivePath
  <2>2. BuildPath' = BuildPath /\ WritePath' = WritePath /\ Purpose' = Purpose
    BY <2>1 DEF builder, BuildPath, WritePath, Purpose
  <2>3. BuilderTyped'
    BY <2>1 DEF builder, BuilderTyped
  <2> QED BY <2>1, <2>2, <2>3 DEF ResultShown
<1>4. CASE UNCHANGED <<builder, result>> /\ (screen' = "result" => screen = "result")
  <2>1. BuildPath' = BuildPath /\ WritePath' = WritePath /\ Purpose' = Purpose
    BY <1>4 DEF builder, BuildPath, WritePath, Purpose
  <2>2. BuilderTyped'
    BY <1>4 DEF builder, BuilderTyped
  <2> QED BY <1>4, <2>1, <2>2 DEF ResultShown
<1>5. CASE UNCHANGED builder /\ screen' # "result"
  BY <1>5 DEF builder, BuilderTyped, ResultShown
<1> QED BY <1>1, <1>2, <1>3, <1>4, <1>5, BuilderSteps

(* The invariant suffices for what both address screens promise.           *)
LEMMA ResultIsItsPath ==
  ASSUME BuilderTyped, ResultShown, GridFollows, CellTyped
  PROVE  AddressMatchesPath
<1>1. WritePath \in Texts /\ ParsePath(WritePath) = <<"Ok", BuildPath>>
  BY WrittenIsText, WrittenReadsBack
<1>2. Slips(WritePath) \subseteq Texts
  <2>1. ASSUME NEW i \in DOMAIN WritePath.tokens
        PROVE  WritePath.tokens[i].number \in Nat
    <3>1. i \in 1 .. depth /\ i \in Slots
      BY DepthAssumption DEF WritePath, BuilderTyped, Slots
    <3> QED BY <3>1, NumbersAssumption DEF WritePath, BuilderTyped
  <2> QED BY <1>1, <2>1, SlipsAreTexts
<1>3. ASSUME NEW t \in Slips(WritePath), ParsePath(t) = <<"Ok", BuildPath>>
      PROVE  SamePath(t, WritePath)
  BY <1>1, <1>2, <1>3, ReadingIsFaithful
<1>4. screen = "result" =>
        /\ ParsePath(result.text) = <<"Ok", result.path>>
        /\ ClassifyPurposeChild(result.path[1]) = Purpose /\ Purpose \notin Blocked
        /\ \A t \in Slips(result.text) :
             ParsePath(t) = <<"Ok", result.path>> => SamePath(t, result.text)
  BY <1>1, <1>3, PurposeReadsBack DEF ResultShown
<1>5. screen = "grid" => grid = "derived" /\ \A i \in GridRows : GridShows[i] = At(i)
  BY RowsShowTheirOwn DEF GridFollows, Opened
<1> QED BY <1>4, <1>5 DEF AddressMatchesPath

(* The export branch. *)
Selection == [kind : Kinds, slip132 : BOOLEAN, account : Nat]

(* Selected, or waiting behind the warning to be. *)
SelectionsTyped == state \in Selection /\ committing \in Selection

(* The values follow the selection, and only on the screen. *)
ValuesShown ==
  /\ screen # "export" => exported = NoValues
  /\ screen = "export" =>
       IF refused THEN exported = NoValues ELSE exported = Computed(state, NoValues)

(* ExportState::new is a selection.                                        *)
LEMMA NewExportTyped == NewExport \in Selection
  BY DEF NewExport, Selection, Kinds, Descriptor

(* The keys of the export screen select selections.                        *)
LEMMA SelectionsAreTyped ==
  ASSUME state \in Selection
  PROVE  Selections \subseteq Selection
<1> USE DEF Selection
<1>1. ASSUME NEW k \in DOMAIN Descriptor
      PROVE  SelectSingleSig(k) \in Selection
  BY <1>1 DEF SelectSingleSig, Kinds
<1>2. SelectCosigner \in Selection
  <2>1. Cosigner \in Kinds
    BY DEF Kinds
  <2>2. (IF state.kind # Cosigner \/ state.account >= Bip48AccountMax
           THEN 0 ELSE state.account + 1) \in Nat
    OBVIOUS
  <2> QED BY <2>1, <2>2 DEF SelectCosigner
<1>3. ToggleSlip132 \in Selection
  BY DEF ToggleSlip132
<1> QED BY <1>1, <1>2, <1>3 DEF Selections

(* compute_export scrubs first: nothing of the former values goes in.      *)
LEMMA ComputedAnew ==
  ASSUME NEW st, NEW v
  PROVE  Computed(st, v) = Computed(st, NoValues)
  BY DEF Computed, Scrubbed

(* Who touches the values of the export screen.                            *)
LEMMA ExportSteps ==
  ASSUME [Next]_vars
  PROVE  \/ UNCHANGED export /\ screen # "export" /\ screen' # "export"
         \/ UNCHANGED export /\ UNCHANGED screen
         \/ AcceptExport \/ ExportKey
         \/ CloseExport /\ screen' # "export"
<1> USE DEF Goto, Leave
<1>1. CASE AtSetup \/ CommitSetup \/ EnterVerify
  BY <1>1 DEF AtSetup, CommitSetup, EnterVerify
<1>2. CASE Reveal \/ Finish \/ OpenGrid \/ GridKey \/ CloseGrid
  BY <1>2 DEF Reveal, Finish, OpenGrid, GridKey, CloseGrid
<1>3. CASE OpenBuilder \/ AtBuilder \/ CloseBuilder \/ RefusePath \/ CosignerExport
  BY <1>3 DEF OpenBuilder, AtBuilder, CloseBuilder, RefusePath, CosignerExport
<1>4. CASE DerivePath \/ DerivePathFails \/ AcknowledgePath
  BY <1>4 DEF DerivePath, DerivePathFails, AcknowledgePath
<1>5. CASE OpenExport \/ DeclineExport \/ ExportFails \/ LeaveExport
  BY <1>5 DEF OpenExport, DeclineExport, ExportFails, LeaveExport
<1>6. CASE UNCHANGED vars
  BY <1>6 DEF vars
<1> QED BY <1>1, <1>2, <1>3, <1>4, <1>5, <1>6 DEF Next

(* What a warning may be opened for.                                       *)
LEMMA CommittingSteps ==
  ASSUME [Next]_vars
  PROVE  committing' \in {committing, NewExport, [NewExport EXCEPT !.kind = Cosigner]}
<1> USE DEF Goto, Leave
<1>1. CASE AtSetup \/ CommitSetup \/ EnterVerify
  BY <1>1 DEF AtSetup, CommitSetup, EnterVerify
<1>2. CASE Reveal \/ Finish \/ OpenGrid \/ GridKey \/ CloseGrid
  BY <1>2 DEF Reveal, Finish, OpenGrid, GridKey, CloseGrid
<1>3. CASE OpenBuilder \/ AtBuilder \/ CloseBuilder \/ RefusePath \/ CosignerExport
  BY <1>3 DEF OpenBuilder, AtBuilder, CloseBuilder, RefusePath, CosignerExport
<1>4. CASE DerivePath \/ DerivePathFails \/ AcknowledgePath
  BY <1>4 DEF DerivePath, DerivePathFails, AcknowledgePath
<1>5. CASE OpenExport \/ DeclineExport \/ AcceptExport \/ ExportKey \/ ExportFails \/ LeaveExport
  BY <1>5 DEF OpenExport, DeclineExport, AcceptExport, ExportKey, ExportFails, LeaveExport
<1>6. CASE UNCHANGED vars
  BY <1>6 DEF vars
<1> QED BY <1>1, <1>2, <1>3, <1>4, <1>5, <1>6 DEF Next

(* A frame shows the values of its own selection, or a refusal and none.   *)
LEMMA ShownFollowsSelection ==
  ASSUME NEW st, ShowExport(st)
  PROVE  /\ state' = st
         /\ IF refused' THEN exported' = NoValues ELSE exported' = Computed(st, NoValues)
<1>1. CASE exported' = Computed(st, exported) /\ refused' = FALSE
  BY <1>1, ComputedAnew DEF ShowExport
<1>2. CASE exported' = Scrubbed(exported) /\ refused' = TRUE
  BY <1>2 DEF ShowExport, Scrubbed
<1> QED BY <1>1, <1>2 DEF ShowExport

(* The export screen is the only one with values.                          *)
LEMMA ExportKept ==
  ASSUME SelectionsTyped, ValuesShown, [Next]_vars
  PROVE  SelectionsTyped' /\ ValuesShown'
<1>1. committing' \in Selection
  <2>1. [NewExport EXCEPT !.kind = Cosigner] \in Selection
    BY DEF NewExport, Selection, Kinds
  <2> QED BY <2>1, NewExportTyped, CommittingSteps DEF SelectionsTyped
<1>2. CASE UNCHANGED export /\ screen # "export" /\ screen' # "export"
  BY <1>1, <1>2 DEF export, SelectionsTyped, ValuesShown
<1>3. CASE UNCHANGED export /\ UNCHANGED screen
  BY <1>1, <1>3 DEF export, SelectionsTyped, ValuesShown, Computed
<1>4. ASSUME NEW st \in Selection, ShowExport(st), screen' = "export"
      PROVE  SelectionsTyped' /\ ValuesShown'
  <2>1. /\ state' = st
        /\ IF refused' THEN exported' = NoValues ELSE exported' = Computed(state', NoValues)
    BY <1>4, ShownFollowsSelection
  <2>2. Computed(state, NoValues)' = Computed(state', NoValues)
    BY DEF Computed
  <2> QED BY <1>1, <1>4, <2>1, <2>2 DEF SelectionsTyped, ValuesShown
<1>5. CASE AcceptExport
  BY <1>4, <1>5 DEF AcceptExport, Goto, SelectionsTyped
<1>6. CASE ExportKey
  BY <1>4, <1>6, SelectionsAreTyped DEF ExportKey, Goto, SelectionsTyped
<1>7. CASE CloseExport /\ screen' # "export"
  BY <1>1, <1>7, NewExportTyped DEF CloseExport, Scrubbed, SelectionsTyped, ValuesShown
<1> QED BY <1>2, <1>3, <1>5, <1>6, <1>7, ExportSteps

(* One artifact is computed, the one selected, and the symbol encodes it.  *)
LEMMA ComputedIsOfTheSelection ==
  ASSUME NEW st \in Selection
  PROVE  LET v == Computed(st, NoValues)
             printed == IF st.kind = Cosigner THEN v.origin_key ELSE v.descriptor
         IN  /\ v.xpub = <<XpubVersion(st), AccountPath(st)>>
             /\ printed # NoText /\ printed[2] = AccountPath(st)
             /\ v.qr = printed
             /\ {v.descriptor, v.origin_key} = {printed, NoText}
<1> DEFINE path == AccountPath(st)
           xpub == <<XpubVersion(st), path>>
           v == Computed(st, NoValues)
<1>1. CASE st.kind = Cosigner
  <2> DEFINE key == <<"origin", path, xpub>>
  <2>1. key # NoText /\ key[2] = path
    BY DEF NoText
  <2>2. v.xpub = xpub /\ v.origin_key = key /\ v.descriptor = NoText /\ v.qr = key
    BY <1>1 DEF Computed, Scrubbed, NoValues, QrPayload
  <2> HIDE DEF key
  <2> QED BY <1>1, <2>1, <2>2
<1>2. CASE st.kind # Cosigner
  <2> DEFINE text == <<Descriptor[st.kind], path, xpub>>
  <2>1. text # NoText /\ text[2] = path
    BY DEF NoText
  <2>2. v.xpub = xpub /\ v.descriptor = text /\ v.origin_key = NoText
    BY <1>2 DEF Computed, Scrubbed, NoValues
  <2>3. v.qr = text
    BY <1>2, <2>1 DEF Computed, Scrubbed, NoValues, QrPayload
  <2> HIDE DEF text
  <2> QED BY <1>2, <2>1, <2>2, <2>3
<1> QED BY <1>1, <1>2

(* The invariant suffices for what the export screen promises.             *)
LEMMA ExportIsOfTheSelection ==
  ASSUME SelectionsTyped, ValuesShown, GridFollows
  PROVE  ExportShowsSelected
  BY ComputedIsOfTheSelection DEF SelectionsTyped, ValuesShown, GridFollows, ExportShowsSelected

---------------------------------------------------------------------------
(* The invariant. *)
IInv ==
  /\ SetupCommitsOffered /\ OfferShown
  /\ GridFollows /\ CellTyped
  /\ BuilderTyped /\ ResultShown
  /\ SelectionsTyped /\ ValuesShown

(* The screens open in the invariant.                                      *)
LEMMA InitEstablishes == Init => IInv
<1> SUFFICES ASSUME Init PROVE IInv
  OBVIOUS
<1>1. SetupCommitsOffered /\ OfferShown
  BY DEF Init, SetupInit, SetupCommitsOffered, OfferShown
<1>2. GridFollows /\ CellTyped
  BY FirstCellFits DEF Init, GridFollows, Opened, CellTyped
<1>3. BuilderTyped /\ ResultShown
  BY ScaffoldTyped DEF Init, BuilderInit, BuilderTyped, ResultShown
<1>4. SelectionsTyped /\ ValuesShown
  BY NewExportTyped DEF Init, ExportInit, SelectionsTyped, ValuesShown
<1> QED BY <1>1, <1>2, <1>3, <1>4 DEF IInv

(* No key leads out of it.                                                 *)
LEMMA StepsKeep == IInv /\ [Next]_vars => IInv'
  BY SetupKept, GridFollowsKept, CellKept, BuilderKept, ExportKept DEF IInv

(* Everything below follows from the invariant.                            *)
THEOREM Invariance == Spec => []IInv
  BY InitEstablishes, StepsKeep, PTL DEF Spec

(* The setup that is committed was on offer on the frame Enter was pressed *)
(* on, and one of dice alone carries no machine source.                    *)
THEOREM CommitsWhatIsOffered == Spec => []SetupCommitsOffered
<1>1. IInv => SetupCommitsOffered
  BY DEF IInv
<1> QED BY <1>1, Invariance, PTL

(* Whatever the offer has become under the choices, three keys lead to the *)
(* mode row, and from there one key to a mode on offer.                    *)
THEOREM NeverTraps == Spec => []SetupNeverTraps
<1>1. IInv => SetupNeverTraps
  BY OfferOnScreenSuffices DEF IInv
<1> QED BY <1>1, Invariance, PTL

(* An address is shown beside its own path: the path typed back is the     *)
(* derived one, no other text but for the markers is, and each cell of the *)
(* grid holds the address of its coordinates.                              *)
THEOREM AddressIsOfItsPath == Spec => []AddressMatchesPath
<1>1. IInv => AddressMatchesPath
  BY ResultIsItsPath DEF IInv
<1> QED BY <1>1, Invariance, PTL

(* The export screen shows and encodes the selected artifact or nothing,   *)
(* nothing of it outlives the screen, and no address the verification      *)
(* screen.                                                                 *)
THEOREM ExportIsSelected == Spec => []ExportShowsSelected
<1>1. IInv => ExportShowsSelected
  BY ExportIsOfTheSelection DEF IInv
<1> QED BY <1>1, Invariance, PTL
=============================================================================
