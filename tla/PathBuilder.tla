---------------------------- MODULE PathBuilder ----------------------------
(***************************************************************************)
(* The builder of custom derivation paths (flow_secret/custom_path.rs) and *)
(* the parser of typed paths (flow_secret/path_parse.rs) with which the    *)
(* separate verifier reads the path back.                                  *)
(*                                                                         *)
(* A path text is what lies between the slashes: whether it starts with    *)
(* "m", whether it holds a blank, and its tokens, each a number (or None)  *)
(* and the characters after it.                                            *)
(***************************************************************************)
EXTENDS Integers, Sequences, SequencesExt

CONSTANTS
  MaxDepth,        \* MAX_DEPTH
  LeafDepth,       \* CONVENTIONAL_LEAF_DEPTH
  MaxLevelValue,   \* MAX_LEVEL_VALUE
  PurposeNumber    \* the numbers of the known purposes: 44, 45, 47, 48, 49, 84, 86

SingleSig == {"Bip44", "Bip49", "Bip84", "Bip86"}
Blocked   == {"Bip45Multisig", "Bip47PaymentCode", "Bip48Multisig"}
Scripts   == {"P2pkh", "P2shP2wpkh", "P2wpkh", "P2tr"}

ASSUME DepthAssumption == LeafDepth \in 3 .. MaxDepth /\ MaxDepth \in Nat
ASSUME NumbersAssumption ==
  /\ MaxLevelValue \in Nat
  /\ PurposeNumber \in [SingleSig \cup Blocked -> 1 .. MaxLevelValue]
  /\ \A p, q \in DOMAIN PurposeNumber : PurposeNumber[p] = PurposeNumber[q] => p = q

VARIABLES
  values, hardened,   \* of every slot, also of those past the depth
  depth, cursor, script

builder == <<values, hardened, depth, cursor, script>>

HardenedOffset == MaxLevelValue + 1
Slots == 1 .. MaxDepth

(* PathBuilder::new: m/84'/0'/0'/0/0 as native segwit. *)
Scaffold ==
  [values   |-> [i \in Slots |-> IF i = 1 THEN PurposeNumber["Bip84"] ELSE 0],
   hardened |-> [i \in Slots |-> i <= 3],
   depth    |-> LeafDepth, cursor |-> 1, script |-> "P2wpkh"]

BuilderInit ==
  /\ values = Scaffold.values /\ hardened = Scaffold.hardened
  /\ depth = Scaffold.depth /\ cursor = Scaffold.cursor /\ script = Scaffold.script

BuilderReset ==
  /\ values' = Scaffold.values /\ hardened' = Scaffold.hardened
  /\ depth' = Scaffold.depth /\ cursor' = Scaffold.cursor /\ script' = Scaffold.script

---------------------------------------------------------------------------
(* The keys. *)

\* Mutant: the value of a level is not clamped.
IncValueUnclamped ==
  /\ values[cursor] < HardenedOffset
  /\ values' = [values EXCEPT ![cursor] = @ + 1]
  /\ UNCHANGED <<hardened, depth, cursor, script>>

IncValue ==
  /\ values[cursor] < MaxLevelValue
  /\ values' = [values EXCEPT ![cursor] = @ + 1]
  /\ UNCHANGED <<hardened, depth, cursor, script>>

DecValue ==
  /\ values[cursor] > 0
  /\ values' = [values EXCEPT ![cursor] = @ - 1]
  /\ UNCHANGED <<hardened, depth, cursor, script>>

ToggleHardened ==
  /\ hardened' = [hardened EXCEPT ![cursor] = ~@]
  /\ UNCHANGED <<values, depth, cursor, script>>

Grow ==
  /\ depth < MaxDepth
  /\ values' = [values EXCEPT ![depth + 1] = 0]
  /\ hardened' = [hardened EXCEPT ![depth + 1] = FALSE]
  /\ depth' = depth + 1 /\ cursor' = depth + 1
  /\ UNCHANGED script

Shrink ==
  /\ depth > 1
  /\ values' = [values EXCEPT ![depth] = 0]
  /\ hardened' = [hardened EXCEPT ![depth] = FALSE]
  /\ depth' = depth - 1
  /\ cursor' = IF cursor >= depth THEN depth - 1 ELSE cursor
  /\ UNCHANGED script

MoveCursor == cursor' = (cursor % depth) + 1 /\ UNCHANGED <<values, hardened, depth, script>>

SetScript(s) == script' = s /\ UNCHANGED <<values, hardened, depth, cursor>>

BuilderKey ==
  \/ IncValue \/ DecValue \/ ToggleHardened \/ Grow \/ Shrink \/ MoveCursor
  \/ \E s \in Scripts : SetScript(s)

---------------------------------------------------------------------------
(* What is derived, and what is shown beside it. *)

BuildPath == [i \in 1 .. depth |-> values[i] + (IF hardened[i] THEN HardenedOffset ELSE 0)]

ClassifyPurpose(value, isHardened) ==
  LET named == {p \in DOMAIN PurposeNumber : PurposeNumber[p] = value}
  IN  IF isHardened /\ named # {} THEN CHOOSE p \in named : TRUE ELSE "Unknown"

ClassifyPurposeChild(child) ==
  LET isHardened == child >= HardenedOffset
  IN  ClassifyPurpose(IF isHardened THEN child - HardenedOffset ELSE child, isHardened)

Purpose == ClassifyPurpose(values[1], hardened[1])

(* The text of the path (write_path). *)
Markers == {"'", "h", "H"}

WritePath ==
  [master |-> TRUE, blank |-> FALSE,
   tokens |-> [i \in 1 .. depth |->
                 [number |-> values[i], rest |-> IF hardened[i] THEN <<"'">> ELSE <<>>]]]

---------------------------------------------------------------------------
(* The parser. *)

NoNumber == -1

(* parse_element: <<"Ok", child>> or <<error>>, in the order of the code.  *)
ParseElement(t) ==
  IF t.number = NoNumber THEN
    CASE t.rest = <<>>            -> <<"EmptySegment">>
      [] t.rest # <<>> /\ t.rest[1] \notin Markers -> <<"BadDigit">>
      [] OTHER -> <<IF Len(t.rest) = 1 THEN "MissingNumber" ELSE "BadMarker">>
  ELSE IF t.number > 2 * HardenedOffset - 1 THEN <<"NumberOverflow">>
  ELSE IF Len(t.rest) = 1 /\ t.rest[1] \notin Markers THEN <<"BadMarker">>
  ELSE IF Len(t.rest) > 1 THEN <<IF t.rest[1] \in Markers THEN "BadMarker" ELSE "BadDigit">>
  ELSE IF t.number >= HardenedOffset THEN <<"NumberTooLarge">>
  ELSE <<"Ok", t.number + (IF t.rest # <<>> THEN HardenedOffset ELSE 0)>>

(* parse_path: the first error from the left, the depth before the token.  *)
ParsePath(text) ==
  LET Outcome(i) == IF i > MaxDepth THEN <<"TooDeep">> ELSE ParseElement(text.tokens[i])
      bad == {i \in DOMAIN text.tokens : Outcome(i)[1] # "Ok"}
  IN  IF text.blank THEN <<"Whitespace">>
      ELSE IF ~text.master THEN <<"MissingMasterPrefix">>
      ELSE IF bad # {} THEN Outcome(Min(bad))
      ELSE IF text.tokens = <<>> THEN <<"Empty">>
      ELSE <<"Ok", [i \in DOMAIN text.tokens |-> Outcome(i)[2]]>>
===========================================================================
