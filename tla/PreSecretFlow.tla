--------------------------- MODULE PreSecretFlow ---------------------------
(***************************************************************************)
(* The pre-secret driver of seed-flow (driver.rs, run_pre_secret_flow): it *)
(* disables the watchdog, walks the state machine from Start through the   *)
(* acknowledgements, the four mandatory gates and the setup screen, and    *)
(* either hands over to the secret phase or refuses.                       *)
(*                                                                         *)
(* The driver is one thread.  The environment chooses every result of a    *)
(* gate check, every key of the operator, and whether a watchdog call      *)
(* fails; at most MaxFailures re-assertions fail in a run.                 *)
(*                                                                         *)
(* step_recoverable is a subroutine: `event` is its argument, `site` names *)
(* the caller it returns to, and pc = "step" / "errorScreen" / "landed"    *)
(* are its call of transition(), its error screen and its return.          *)
(***************************************************************************)
EXTENDS AleaStateMachine, Naturals

CONSTANTS
  MaxFailures,      \* bound on failing watchdog re-assertions in a run
  SkipNeedsSecondKey \* KeyboardSelfTestSkipPolicy: FALSE is DesktopOptional

ASSUME MaxFailuresAssumption == MaxFailures \in Nat
ASSUME SkipAssumption == SkipNeedsSecondKey \in BOOLEAN

VARIABLES
  sm,         \* the StateMachine
  pc,         \* where run_pre_secret_flow is
  event,      \* the event step_recoverable is driving
  site,       \* who called step_recoverable
  gate,       \* the gate that call belongs to
  last,       \* the latest result of each gate's check (last_platform, ...;
              \* the graphics entry is kept only by this model)
  acks,       \* PrepareState.checked
  skipArmed,  \* DeviceState.skip_armed
  attempts,   \* iterations of the forced exit left
  failures,   \* failed re-assertions so far
  outcome     \* PreSecretOutcome

vars == <<sm, pc, event, site, gate, last, acks, skipArmed, attempts,
          failures, outcome>>

Items == 1 .. 3
ForcedExitAttempts == 8

Init ==
  /\ sm = NewMachine
  /\ pc = "launch"
  /\ event = Plain("Continue")
  /\ site = "opening"
  /\ gate = "PlatformAndVirtualizationCheck"
  /\ last = [g \in Gates |-> "unchecked"]
  /\ acks = {}
  /\ skipArmed = FALSE
  /\ attempts = ForcedExitAttempts
  /\ failures = 0
  /\ outcome = "Running"

---------------------------------------------------------------------------
(* How a run ends. *)

OutcomeAt(s) ==
  CASE s = "ExitToFirmware" -> "ExitedToFirmware"
    [] s = "Start"          -> "BackToCaller"
    [] s \in {"MachineEntropyAcquisition", "PhysicalCollection"} -> "HandoffToSecretPhase"
    [] OTHER                -> "Unexpected"

Finish ==
  /\ pc' = "done"
  /\ outcome' = OutcomeAt(sm.state)
  /\ UNCHANGED <<sm, event, site, gate, last, acks, skipArmed, attempts, failures>>

(* Calling step_recoverable(e) from caller s; the caller says what it has  *)
(* changed besides.                                                        *)
Drive(e, s) == pc' = "step" /\ event' = e /\ site' = s

---------------------------------------------------------------------------
(* step_recoverable. *)

Reassert(fails) ==
  /\ fails => failures < MaxFailures
  /\ failures' = IF fails THEN failures + 1 ELSE failures

StepTransition(fails) ==
  /\ pc = "step"
  /\ Reassert(fails)
  /\ sm' \in Transition(sm, event, fails)
  /\ pc' = IF sm'.state = "PreSecretError" THEN "errorScreen" ELSE "landed"
  /\ UNCHANGED <<event, site, gate, last, acks, skipArmed, attempts, outcome>>

(* The operator answers the error screen with Enter or Escape. *)
AnswerErrorScreen(kind) ==
  /\ pc = "errorScreen"
  /\ pc' = "step"
  /\ event' = Plain(kind)
  /\ UNCHANGED <<sm, site, gate, last, acks, skipArmed, attempts, failures, outcome>>

---------------------------------------------------------------------------
(* Launch, acknowledgements. *)

DisableWatchdog ==
  /\ pc = "launch"
  /\ Drive(Plain("Continue"), "opening")
  /\ UNCHANGED <<sm, gate, last, acks, skipArmed, attempts, failures, outcome>>

DisableFails ==
  /\ pc = "launch"
  /\ pc' = "done"
  /\ outcome' = "ExitedToFirmware"
  /\ UNCHANGED <<sm, event, site, gate, last, acks, skipArmed, attempts, failures>>

ToggleItem(i) ==
  /\ pc = "prepare"
  /\ acks' = IF i \in acks THEN acks \ {i} ELSE acks \cup {i}
  /\ UNCHANGED <<sm, pc, event, site, gate, last, skipArmed, attempts, failures, outcome>>

BeginCeremony ==
  /\ pc = "prepare"
  /\ acks = Items
  /\ Drive(Plain("Continue"), "acknowledged")
  /\ UNCHANGED <<sm, gate, last, acks, skipArmed, attempts, failures, outcome>>

LeavePrepare ==
  /\ pc = "prepare"
  /\ Drive(Plain("Back"), "exit")
  /\ UNCHANGED <<sm, gate, last, acks, skipArmed, attempts, failures, outcome>>

---------------------------------------------------------------------------
(* Where a returning step_recoverable takes each caller. *)

(* The state that counts as progress for a gate: its legitimate successor. *)
Advance(g) ==
  CASE g = "PlatformAndVirtualizationCheck" -> "ConsoleTopologyCheck"
    [] g = "ConsoleTopologyCheck"           -> "GraphicsAndKeyboardSelfTest"
    [] g = "GraphicsAndKeyboardSelfTest"    -> "CryptographicSelfTest"
    [] g = "CryptographicSelfTest"          -> "SetupSelection"

\* Mutant: the setup screen counts as progress of any gate.
LandedAnywhere(g, s) == s \in {g, Advance(g), "SetupSelection"}

(* drive_gate_step, and the same test spelled out in the graphics arm. *)
LandedAsExpected(g, s) == s \in {g, Advance(g)}

Goto(p) ==
  /\ pc' = p
  /\ UNCHANGED <<sm, event, site, gate, last, acks, skipArmed, attempts, failures, outcome>>

LandOpening ==
  /\ pc = "landed" /\ site = "opening"
  /\ IF sm.state = "ReleaseAndEnvironmentWarning" THEN Goto("prepare") ELSE Finish

LandAcknowledged ==
  /\ pc = "landed" /\ site = "acknowledged"
  /\ \/ /\ sm.state = "WatchdogDisable"
        /\ Drive(Plain("Continue"), "tick")
        /\ UNCHANGED <<sm, gate, last, acks, skipArmed, attempts, failures, outcome>>
     \/ sm.state # "WatchdogDisable" /\ Finish

LandTick ==
  /\ pc = "landed" /\ site = "tick"
  /\ IF sm.state = "PlatformAndVirtualizationCheck" THEN Goto("gates") ELSE Finish

LandGate ==
  /\ pc = "landed" /\ site = "gate"
  /\ \/ sm.state = "ExitToFirmware" /\ Finish
     \/ sm.state # "ExitToFirmware" /\ LandedAsExpected(gate, sm.state) /\ Goto("gates")
     \/ sm.state # "ExitToFirmware" /\ ~LandedAsExpected(gate, sm.state) /\ Goto("bypass")

LandSetupBack ==
  /\ pc = "landed" /\ site = "setupBack"
  /\ IF sm.state = "GraphicsAndKeyboardSelfTest" THEN Goto("gates") ELSE Finish

LandFinal ==
  /\ pc = "landed" /\ site \in {"exit", "commit"}
  /\ Finish

---------------------------------------------------------------------------
(* The gate loop. *)

(* A check's result is recorded before the transition it causes, and       *)
(* whatever that transition turns out to be.                               *)
ReportCheck(g, result, e) ==
  /\ last' = [last EXCEPT ![g] = result]
  /\ gate' = g
  /\ Drive(e, "gate")

AutomaticGates == Gates \ {"GraphicsAndKeyboardSelfTest"}

CheckClean(g) ==
  /\ pc = "gates" /\ sm.state = g
  /\ ReportCheck(g, "clean", Plain("CheckPassed"))
  /\ UNCHANGED <<sm, acks, skipArmed, attempts, failures, outcome>>

(* Failed and Inconclusive alike (CheckOutcome::blocks_generation); for    *)
(* the graphics gate, a refused mode.                                      *)
CheckBlocked(g, class) ==
  /\ pc = "gates" /\ sm.state = g
  /\ ReportCheck(g, "blocked", CheckFailed(class, "ReturnToMenu"))
  /\ UNCHANGED <<sm, acks, skipArmed, attempts, failures, outcome>>

GraphicsAvailable ==
  /\ pc = "gates" /\ sm.state = "GraphicsAndKeyboardSelfTest"
  /\ pc' = "device" /\ skipArmed' = FALSE
  /\ UNCHANGED <<sm, event, site, gate, last, acks, attempts, failures, outcome>>

(* The device screen: Enter runs the keyboard test, two presses of S skip  *)
(* it (one, in the edition where the test is optional), N declines the     *)
(* display, any other key disarms the skip.                                *)
RunSelfTest ==
  /\ pc = "device"
  /\ pc' = "selfTest" /\ skipArmed' = FALSE
  /\ UNCHANGED <<sm, event, site, gate, last, acks, attempts, failures, outcome>>

DevicePassed ==
  /\ \/ pc = "selfTest"
     \/ pc = "device" /\ (skipArmed \/ ~SkipNeedsSecondKey)
  /\ ReportCheck("GraphicsAndKeyboardSelfTest", "clean", Plain("CheckPassed"))
  /\ skipArmed' = FALSE
  /\ UNCHANGED <<sm, acks, attempts, failures, outcome>>

DeviceFailed ==
  /\ pc \in {"selfTest", "device"}
  /\ ReportCheck("GraphicsAndKeyboardSelfTest", "blocked",
                 CheckFailed("GraphicsOrKeyboard", "ReturnToMenu"))
  /\ skipArmed' = FALSE
  /\ UNCHANGED <<sm, acks, attempts, failures, outcome>>

ArmSkip ==
  /\ pc = "device" /\ SkipNeedsSecondKey
  /\ skipArmed' = ~skipArmed
  /\ UNCHANGED <<sm, pc, event, site, gate, last, acks, attempts, failures, outcome>>

(* SetupSelection is shown only with the three recorded results in hand. *)
ResultsInHand == \A g \in AutomaticGates : last[g] # "unchecked"

EnterSetup ==
  /\ pc = "gates" /\ sm.state = "SetupSelection"
  /\ Goto(IF ResultsInHand THEN "setup" ELSE "bypass")

CommitSetupScreen(words, mode) ==
  /\ pc = "setup"
  /\ Drive(SetupCommitted(words, mode), "commit")
  /\ UNCHANGED <<sm, gate, last, acks, skipArmed, attempts, failures, outcome>>

BackFromSetup ==
  /\ pc = "setup"
  /\ Drive(Plain("Back"), "setupBack")
  /\ UNCHANGED <<sm, gate, last, acks, skipArmed, attempts, failures, outcome>>

---------------------------------------------------------------------------
(* force_exit_after_gate_bypass. *)

AcknowledgeRefusal == pc = "bypass" /\ Goto("forcing")

\* Mutant: one attempt only.
ForceExitOnce(failsFault, failsEscape) ==
  /\ pc = "forcing"
  /\ failures + (IF failsFault THEN 1 ELSE 0) + (IF failsEscape THEN 1 ELSE 0) <= MaxFailures
  /\ failures' = failures + (IF failsFault THEN 1 ELSE 0) + (IF failsEscape THEN 1 ELSE 0)
  /\ \E faulted \in Transition(sm, Fault("Watchdog"), failsFault) :
       sm' \in Transition(faulted, Plain("Escape"), failsEscape)
  /\ attempts' = 0
  /\ pc' = "done" /\ outcome' = OutcomeAt(sm'.state)
  /\ UNCHANGED <<event, site, gate, last, acks, skipArmed>>

(* One iteration: Fault(Watchdog), then Escape, each with a re-assertion   *)
(* of its own.                                                             *)
ForceExit(failsFault, failsEscape) ==
  /\ pc = "forcing"
  /\ failures + (IF failsFault THEN 1 ELSE 0) + (IF failsEscape THEN 1 ELSE 0) <= MaxFailures
  /\ failures' = failures + (IF failsFault THEN 1 ELSE 0) + (IF failsEscape THEN 1 ELSE 0)
  /\ \E faulted \in Transition(sm, Fault("Watchdog"), failsFault) :
       sm' \in Transition(faulted, Plain("Escape"), failsEscape)
  /\ attempts' = attempts - 1
  /\ IF sm'.state = "ExitToFirmware" \/ attempts' = 0
       THEN pc' = "done" /\ outcome' = OutcomeAt(sm'.state)
       ELSE UNCHANGED <<pc, outcome>>
  /\ UNCHANGED <<event, site, gate, last, acks, skipArmed>>

---------------------------------------------------------------------------

Operator ==
  \/ \E kind \in {"Continue", "Escape"} : AnswerErrorScreen(kind)
  \/ \E i \in Items : ToggleItem(i)
  \/ BeginCeremony \/ LeavePrepare
  \/ RunSelfTest \/ DevicePassed \/ DeviceFailed \/ ArmSkip
  \/ \E words \in WordCount, mode \in EntropyMode : CommitSetupScreen(words, mode)
  \/ BackFromSetup
  \/ AcknowledgeRefusal

Driver ==
  \/ DisableWatchdog \/ DisableFails
  \/ \E fails \in BOOLEAN : StepTransition(fails)
  \/ LandOpening \/ LandAcknowledged \/ LandTick \/ LandGate
  \/ LandSetupBack \/ LandFinal
  \/ \E g \in AutomaticGates : CheckClean(g)
  \/ \E g \in Gates : \E class \in FailureClasses(g) : CheckBlocked(g, class)
  \/ GraphicsAvailable \/ EnterSetup
  \/ \E f1, f2 \in BOOLEAN : ForceExit(f1, f2)

Next == Operator \/ Driver

Spec == Init /\ [][Next]_vars

(* The driver never waits for anything but a key.  The operator is not     *)
(* fair, except that the refusal screen offers one key only.               *)
FairSpec == Spec /\ WF_vars(Driver) /\ WF_vars(AcknowledgeRefusal)

---------------------------------------------------------------------------
(* Properties. *)

(* driver.rs:62-70: no run reaches the handoff with an unverified gate.    *)
(* A transient watchdog failure at the last gate breaks it.                *)
HandoffVerified ==
  outcome = "HandoffToSecretPhase" => \A g \in Gates : last[g] = "clean"

(* What the bypass guard does guarantee, whatever was blocked, retried,    *)
(* skipped or gone back from: as long as the watchdog has answered, the    *)
(* latest result of every gate is the clean one; under watchdog failures   *)
(* that still holds of the first three, and the last one was at least run. *)
HandoffGuarded ==
  outcome = "HandoffToSecretPhase" =>
    /\ \A g \in Gates \ {"CryptographicSelfTest"} : last[g] = "clean"
    /\ last["CryptographicSelfTest"] # "unchecked"
    /\ failures = 0 => last["CryptographicSelfTest"] = "clean"

(* force_exit_after_gate_bypass: once an unverified gate has been noticed, *)
(* the run ends in firmware, although the watchdog may go on failing.      *)
BypassEndsInFirmware == pc = "bypass" ~> outcome = "ExitedToFirmware"
===========================================================================
