------------------------------ MODULE Screens ------------------------------
(***************************************************************************)
(* The screens of a ceremony on which several fields are worked with       *)
(* single keys: the setup screen, and the verification screen              *)
(* (screens/verify.rs) with what it opens - the grid of addresses, the     *)
(* path builder and the export branch.  Between the two lies the rest of   *)
(* the ceremony, which SecretFlow models.                                  *)
(***************************************************************************)
EXTENDS SetupScreen, PathBuilder, ExportScreen

CONSTANTS
  NAccountMax,     \* N_ACCOUNT_MAX
  NIndexMax,       \* N_INDEX_MAX
  TableDefaultN    \* TABLE_DEFAULT_N

ASSUME GridAssumption ==
  /\ NAccountMax \in Nat /\ NIndexMax \in Nat
  /\ TableDefaultN \in 1 .. NIndexMax + 1

VARIABLES
  screen,      \* what is shown
  revealed,    \* VerifyState.show_addresses
  grid,        \* the addresses of the grid: "empty", "partial" or "derived"
  cell,        \* Selection: standard, account, change, index, table
  committing,  \* ExportState the warning was opened for
  result       \* what the result screen shows, or NoResult

vars == <<setup, builder, export, screen, revealed, grid, cell, committing, result>>

---------------------------------------------------------------------------
(* The grid. *)

Coordinates ==
  [standard : 0 .. 3, account : 0 .. NAccountMax, change : 0 .. 1, index : 0 .. NIndexMax]

(* ExtendedVerificationValues::index *)
Slot(c) ==
  ((c.standard * (NAccountMax + 1) + c.account) * 2 + c.change) * (NIndexMax + 1) + c.index

(* compute_extended_verification_values: the coordinates whose address     *)
(* each slot holds, the last one written.                                  *)
Cells ==
  [slot \in {Slot(c) : c \in Coordinates} |->
     CHOOSE c \in Coordinates :
       /\ Slot(c) = slot
       /\ \A d \in Coordinates \ {c} : Slot(d) = slot => d.standard <= c.standard]

FirstCell == [standard |-> 0, account |-> 0, change |-> 0, index |-> 0]

At(i) == [cell.at EXCEPT !.index = i]

(* render_more_options: the rows of the screen, each with the address it   *)
(* shows.                                                                  *)
GridRows == IF cell.table THEN 0 .. TableDefaultN - 1 ELSE {cell.at.index}
GridShows == [i \in GridRows |-> Cells[Slot(At(i))]]

---------------------------------------------------------------------------
NoResult == [path |-> <<>>, script |-> "none", text |-> "none"]

Init ==
  /\ SetupInit /\ BuilderInit /\ ExportInit
  /\ screen = "setup"
  /\ revealed = FALSE /\ grid = "empty"
  /\ cell = [at |-> FirstCell, table |-> FALSE]
  /\ committing = NewExport /\ result = NoResult

Goto(from, to) == screen = from /\ screen' = to

AtSetup ==
  /\ SetupKey
  /\ Goto("setup", "setup")
  /\ UNCHANGED <<builder, export, revealed, grid, cell, committing, result>>

CommitSetup ==
  /\ Commit
  /\ Goto("setup", "ceremony")
  /\ UNCHANGED <<builder, export, revealed, grid, cell, committing, result>>

(* The arm of DerivationVerificationDisplay: the grid is derived at once.  *)
(* A derivation that fails leaves what it has written so far.              *)
EnterVerify ==
  /\ \/ Goto("ceremony", "verify") /\ grid' = "derived"
     \/ Goto("ceremony", "failure") /\ grid' = "partial"
  /\ committed' = <<>>
  /\ UNCHANGED <<offer, row, choices, builder, export, revealed, cell, committing, result>>

Reveal ==
  /\ Goto("verify", "verify")
  /\ revealed' = ~revealed
  /\ UNCHANGED <<setup, builder, export, grid, cell, committing, result>>

(* The screen is left, to the ceremony's end or to the failure screen. *)
Leave ==
  /\ grid' = "empty"
  /\ revealed' = FALSE
  /\ UNCHANGED <<setup, cell>>

Finish == Goto("verify", "finish") /\ Leave /\ UNCHANGED <<builder, export, committing, result>>

OpenGrid ==
  /\ Goto("verify", "grid")
  /\ cell' = [at |-> FirstCell, table |-> FALSE]
  /\ UNCHANGED <<setup, builder, export, revealed, grid, committing, result>>

Stepped(field, by) == [cell EXCEPT !.at[field] = @ + by]

GridKey ==
  /\ Goto("grid", "grid")
  /\ \/ \E s \in 0 .. 3 : cell' = [cell EXCEPT !.at.standard = s]
     \/ cell.at.account < NAccountMax /\ cell' = Stepped("account", 1)
     \/ cell.at.account > 0 /\ cell' = Stepped("account", -1)
     \/ cell.at.index < NIndexMax /\ cell' = Stepped("index", 1)
     \/ cell.at.index > 0 /\ cell' = Stepped("index", -1)
     \/ cell' = [cell EXCEPT !.at.change = 1 - @]
     \/ cell' = [cell EXCEPT !.table = ~@]
  /\ UNCHANGED <<setup, builder, export, revealed, grid, committing, result>>

CloseGrid ==
  /\ Goto("grid", "verify")
  /\ cell' = [at |-> FirstCell, table |-> FALSE]
  /\ UNCHANGED <<setup, builder, export, revealed, grid, committing, result>>

---------------------------------------------------------------------------
(* The path builder (run_custom_builder). *)

OpenBuilder ==
  /\ Goto("verify", "builder")
  /\ BuilderReset
  /\ UNCHANGED <<setup, export, revealed, grid, cell, committing, result>>

AtBuilder ==
  /\ BuilderKey
  /\ Goto("builder", "builder")
  /\ UNCHANGED <<setup, export, revealed, grid, cell, committing, result>>

CloseBuilder ==
  /\ Goto("builder", "verify")
  /\ BuilderReset
  /\ UNCHANGED <<setup, export, revealed, grid, cell, committing, result>>

(* Enter: a purpose that one seed cannot serve is not derived; that of a   *)
(* cosigner leads to the export branch instead.                            *)
RefusePath ==
  /\ Purpose \in Blocked \ {"Bip48Multisig"}
  /\ Goto("builder", "blocked")
  /\ UNCHANGED <<setup, builder, export, revealed, grid, cell, committing, result>>

CosignerExport ==
  /\ Purpose = "Bip48Multisig"
  /\ Goto("builder", "warning")
  /\ BuilderReset
  /\ committing' = [NewExport EXCEPT !.kind = Cosigner]
  /\ UNCHANGED <<setup, export, revealed, grid, cell, result>>

DerivePath ==
  /\ Purpose \notin Blocked
  /\ Goto("builder", "result")
  /\ result' = [path |-> BuildPath, script |-> script, text |-> WritePath]
  /\ UNCHANGED <<setup, builder, export, revealed, grid, cell, committing>>

DerivePathFails ==
  /\ Purpose \notin Blocked
  /\ Goto("builder", "failure")
  /\ BuilderReset /\ Leave
  /\ UNCHANGED <<export, committing, result>>

AcknowledgePath ==
  /\ Goto("blocked", "builder") \/ Goto("result", "builder")
  /\ result' = NoResult
  /\ UNCHANGED <<setup, builder, export, revealed, grid, cell, committing>>

---------------------------------------------------------------------------
(* The export branch (run_export_branch), always behind its warning. *)

OpenExport ==
  /\ Goto("verify", "warning")
  /\ committing' = NewExport
  /\ UNCHANGED <<setup, builder, export, revealed, grid, cell, result>>

DeclineExport ==
  /\ Goto("warning", "verify")
  /\ committing' = NewExport
  /\ UNCHANGED <<setup, builder, export, revealed, grid, cell, result>>

(* The values are computed anew for every frame. *)
AcceptExport ==
  /\ Goto("warning", "export")
  /\ ShowExport(committing)
  /\ committing' = NewExport
  /\ UNCHANGED <<setup, builder, revealed, grid, cell, result>>

ExportKey ==
  /\ Goto("export", "export")
  /\ \E st \in Selections \cup {state} : ShowExport(st)
  /\ UNCHANGED <<setup, builder, revealed, grid, cell, committing, result>>

ExportFails ==
  /\ Goto("warning", "failure") \/ Goto("export", "failure")
  /\ CloseExport /\ Leave
  /\ committing' = NewExport
  /\ UNCHANGED <<builder, result>>

LeaveExport ==
  /\ Goto("export", "verify")
  /\ CloseExport
  /\ UNCHANGED <<setup, builder, revealed, grid, cell, committing, result>>

Next ==
  \/ AtSetup \/ CommitSetup \/ EnterVerify
  \/ Reveal \/ Finish \/ OpenGrid \/ GridKey \/ CloseGrid
  \/ OpenBuilder \/ AtBuilder \/ CloseBuilder
  \/ RefusePath \/ CosignerExport \/ DerivePath \/ DerivePathFails \/ AcknowledgePath
  \/ OpenExport \/ DeclineExport \/ AcceptExport \/ ExportKey \/ ExportFails \/ LeaveExport

Spec == Init /\ [][Next]_vars

---------------------------------------------------------------------------
(* Properties. *)

(* setup.rs:246 "a stale toggle from an earlier mode choice must never     *)
(* leak a machine probe into a physical-only ceremony", and no mode is     *)
(* committed that the frame on the screen did not offer, however the offer *)
(* changed while the screen was worked.                                    *)
SetupCommitsOffered ==
  \A i \in DOMAIN committed :
    LET c == committed[i]
    IN  /\ c.mode \in c.offer.modes
        /\ c.extras \subseteq c.offer.extras
        /\ c.mode = "DiceOnly" => c.extras = {}

(* Whatever row the screen was on when it vanished, the mode row is at     *)
(* most three keys away, and from there a mode on offer.                   *)
SetupNeverTraps ==
  screen = "setup" =>
    /\ row = "mode" \/ \E n \in 1 .. 3 : Neighbour(ValidRows, row, n) = "mode"
    /\ \A step \in {-1, 1} : CycleMode(step) \in offer.modes

(* What a typist can make of a path copied from the screen with one slip.  *)
Slips(text) ==
  LET toks == text.tokens
      Retyped(i, t) == [text EXCEPT !.tokens[i] = t]
      Rests == {<<>>, <<"'">>, <<"h">>, <<"H">>, <<"p">>, <<"'", "'">>, <<"x", "4">>}
      Numbers(n) == {NoNumber, n - 1, n + 1, HardenedOffset, 2 * HardenedOffset}
      Changed(i) == {Retyped(i, [toks[i] EXCEPT !.rest = r]) : r \in Rests}
                    \cup {Retyped(i, [toks[i] EXCEPT !.number = n]) : n \in Numbers(toks[i].number)}
  IN  (UNION {Changed(i) : i \in DOMAIN toks})
      \cup {[text EXCEPT !.tokens = SubSeq(toks, 1, Len(toks) - 1)],
            [text EXCEPT !.tokens = Append(toks, [number |-> 0, rest |-> <<>>])],
            [text EXCEPT !.tokens = Append(toks, [number |-> NoNumber, rest |-> <<>>])],
            [text EXCEPT !.master = FALSE], [text EXCEPT !.blank = TRUE]}

SamePath(t, u) ==
  /\ t.master = u.master /\ t.blank = u.blank
  /\ Len(t.tokens) = Len(u.tokens)
  /\ \A i \in DOMAIN t.tokens :
       /\ t.tokens[i].number = u.tokens[i].number
       /\ t.tokens[i].rest = <<>> <=> u.tokens[i].rest = <<>>

(* An address on a screen is that of the path beside it: the path the      *)
(* builder shows, typed into the verifier, is the path that was derived    *)
(* (no value runs into the hardened bit, no level is lost), with the same  *)
(* purpose, never a blocked one; typed with one slip, it is refused or is  *)
(* another path.  And each row of the grid shows the address of its own    *)
(* coordinates.                                                            *)
AddressMatchesPath ==
  /\ screen = "result" =>
       /\ ParsePath(result.text) = <<"Ok", result.path>>
       /\ ClassifyPurposeChild(result.path[1]) = Purpose /\ Purpose \notin Blocked
       /\ \A t \in Slips(result.text) :
            ParsePath(t) = <<"Ok", result.path>> => SamePath(t, result.text)
  /\ screen = "grid" =>
       grid = "derived" /\ \A i \in GridRows : GridShows[i] = At(i)

(* The export screen shows, and encodes in its symbol, the artifact of the *)
(* selection it shows, or nothing: never a descriptor beside a cosigner's  *)
(* key, nor that of the selection before.  Off the screen no value is      *)
(* left, and once the verification screen was shown and left, no address.  *)
ExportShowsSelected ==
  /\ screen # "export" => exported = NoValues
  /\ screen = "export" =>
       IF refused THEN exported = NoValues
       ELSE LET printed == IF state.kind = Cosigner THEN exported.origin_key ELSE exported.descriptor
            IN  /\ exported.xpub = <<XpubVersion(state), AccountPath(state)>>
                /\ printed # NoText /\ printed[2] = AccountPath(state)
                /\ exported.qr = printed
                /\ {exported.descriptor, exported.origin_key} = {printed, NoText}
  /\ screen = "finish" => grid = "empty"
  /\ screen = "failure" => grid # "derived"
===========================================================================
