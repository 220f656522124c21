------------------------- MODULE AleaStateMachine -------------------------
(***************************************************************************)
(* The application state machine of seed-protocol (state/mod.rs): the      *)
(* states, the events, the table of legal edges, the routing of an event   *)
(* that has no legal edge, and the watchdog re-assertion that precedes     *)
(* every transition.                                                       *)
(*                                                                         *)
(* This module has no variables: a machine is the record                   *)
(*    [state, error, wordCount, mode]                                      *)
(* where "error" is the class carried by AppState::PreSecretError (None in *)
(* every other state).  Transition(m, e, fails) is the set of machines one *)
(* call of StateMachine::transition may leave behind; the drivers          *)
(* (PreSecretFlow, SecretFlow) and the open environment (OpenMachine) take *)
(* their steps with it.  The presentation-only `instrument` field routes   *)
(* nothing and is left out.                                                *)
(***************************************************************************)

None == "None"

ErrorClass == {"Platform", "Watchdog", "ConsoleTopology", "Virtualization",
  "GraphicsOrKeyboard", "EntropyPolicy", "MachineSource",
  "PhysicalEntryState", "Derivation", "Cryptographic", "StateMachine",
  "Integrity", "Shutdown"}

Disposition == {"ReturnToMenu", "ExitToFirmware"}
EntropyMode == {"Combined", "DiceOnly", "MachineOnly"}
WordCount   == {"Twelve", "TwentyFour"}

NeedsMachine(mode)  == mode \in {"Combined", "MachineOnly"}
NeedsPhysical(mode) == mode \in {"Combined", "DiceOnly"}

---------------------------------------------------------------------------
(* States. *)

PreSecretStates == {"Start", "ReleaseAndEnvironmentWarning",
  "WatchdogDisable", "PlatformAndVirtualizationCheck",
  "ConsoleTopologyCheck", "GraphicsAndKeyboardSelfTest",
  "CryptographicSelfTest", "SetupSelection", "MachineEntropyAcquisition",
  "PhysicalCollection", "FinalGenerationConfirmation", "ExitToFirmware",
  "PreSecretError"}

CeremonyStates == {"FinalEntropyDerivation", "MnemonicGeneration",
  "MnemonicDisplay", "DestroyConfirm", "DisplayScrub",
  "CompleteHiddenReentry", "ReentryMismatchChoice", "PassphraseOffer",
  "PassphraseEntry", "PassphraseConfirm", "DerivationVerificationDisplay",
  "CompletionEducation"}

(* From the re-entry of the words to the completion screen. *)
AfterReveal == {"CompleteHiddenReentry", "ReentryMismatchChoice",
  "PassphraseOffer", "PassphraseEntry", "PassphraseConfirm",
  "DerivationVerificationDisplay", "CompletionEducation"}

CleanTeardown == {"SecretArenaScrub", "FramebufferScrub", "Shutdown"}
FatalChain    == {"ScrubWhatIsReachable", "BlankDisplay", "ShutdownOrHalt"}
Terminal      == {"ShutdownOrHalt", "ShutdownFailedHalt", "ExitToFirmware"}

(* AppState::is_post_secret: everything that is not listed as pre-secret.  *)
PostSecret == CeremonyStates \cup CleanTeardown \cup FatalChain
                \cup {"ShutdownFailedHalt"}

AppState == PreSecretStates \cup PostSecret

(* Only PreSecretError carries a class. *)
Machine ==
  {m \in [state : AppState, error : ErrorClass \cup {None},
          wordCount : WordCount \cup {None}, mode : EntropyMode \cup {None}] :
     m.state = "PreSecretError" <=> m.error # None}

NewMachine ==
  [state |-> "Start", error |-> None, wordCount |-> None, mode |-> None]

At(m, s)        == [m EXCEPT !.state = s, !.error = None]
Error(m, class) == [m EXCEPT !.state = "PreSecretError", !.error = class]

---------------------------------------------------------------------------
(* Events.  Every event is a record with the kind and the data it carries; *)
(* a field an event does not have is None.                                 *)

PlainKinds == {"Continue", "Escape", "Back", "CheckPassed",
  "MachineEntropyComplete", "PhysicalBudgetMet", "FinalConfirm",
  "DerivationComplete", "MnemonicReady", "HideAndReenter",
  "DestroyRequested", "DestroyConfirmed", "ScrubComplete",
  "ReentryPositionMatched", "ReentryComplete", "ReentryMismatch",
  "RetryPosition", "RevealAgain", "PassphraseOfferYes",
  "PassphraseUseEmpty", "PassphraseEntered", "PassphraseConfirmMatch",
  "PassphraseConfirmMismatch", "ShowVerification", "SkipVerification",
  "VerificationAcknowledged", "VerificationFailed",
  "EducationAcknowledged", "ShutdownRequested", "ShutdownFailed"}

EventRecord(kind, class, disp, words, mode) ==
  [kind |-> kind, class |-> class, disp |-> disp, words |-> words,
   mode |-> mode]

Plain(kind)              == EventRecord(kind, None, None, None, None)
CheckFailed(class, disp) == EventRecord("CheckFailed", class, disp, None, None)
MachineEntropyFailed(disp) ==
  EventRecord("MachineEntropyFailed", None, disp, None, None)
DerivationFailed(disp)   == EventRecord("DerivationFailed", None, disp, None, None)
Fault(class)             == EventRecord("Fault", class, None, None, None)
SetupCommitted(words, mode) ==
  EventRecord("SetupCommitted", None, None, words, mode)

Event ==
       {Plain(k) : k \in PlainKinds}
  \cup {CheckFailed(c, d) : c \in ErrorClass, d \in Disposition}
  \cup {MachineEntropyFailed(d) : d \in Disposition}
  \cup {DerivationFailed(d) : d \in Disposition}
  \cup {Fault(c) : c \in ErrorClass}
  \cup {SetupCommitted(w, md) : w \in WordCount, md \in EntropyMode}

---------------------------------------------------------------------------
(* The legal edges.  An edge whose target depends only on the state and    *)
(* the kind of the event is a triple; the others follow.                   *)

Gates == {"PlatformAndVirtualizationCheck", "ConsoleTopologyCheck",
          "GraphicsAndKeyboardSelfTest", "CryptographicSelfTest"}

GateEdges == {
  <<"Start", "Continue", "ReleaseAndEnvironmentWarning">>,
  <<"ReleaseAndEnvironmentWarning", "Continue", "WatchdogDisable">>,
  <<"ReleaseAndEnvironmentWarning", "Escape", "ExitToFirmware">>,
  <<"WatchdogDisable", "Continue", "PlatformAndVirtualizationCheck">>,
  <<"PlatformAndVirtualizationCheck", "CheckPassed", "ConsoleTopologyCheck">>,
  <<"ConsoleTopologyCheck", "CheckPassed", "GraphicsAndKeyboardSelfTest">>,
  <<"GraphicsAndKeyboardSelfTest", "CheckPassed", "CryptographicSelfTest">>,
  <<"CryptographicSelfTest", "CheckPassed", "SetupSelection">>,
  <<"PreSecretError", "Escape", "ExitToFirmware">>}

CollectionEdges == {
  <<"PhysicalCollection", "PhysicalBudgetMet", "FinalGenerationConfirmation">>,
  <<"FinalGenerationConfirmation", "FinalConfirm", "FinalEntropyDerivation">>,
  <<"FinalGenerationConfirmation", "Escape", "SetupSelection">>,
  <<"FinalEntropyDerivation", "DerivationComplete", "MnemonicGeneration">>,
  <<"MnemonicGeneration", "MnemonicReady", "MnemonicDisplay">>}

\* Mutant: re-entry starts with the words still on the screen.
DisplayEdgesWithoutScrub == {
  <<"MnemonicDisplay", "HideAndReenter", "CompleteHiddenReentry">>,
  <<"MnemonicDisplay", "DestroyRequested", "DestroyConfirm">>,
  <<"DestroyConfirm", "DestroyConfirmed", "SecretArenaScrub">>,
  <<"DestroyConfirm", "Continue", "MnemonicDisplay">>}

DisplayEdges == {
  <<"MnemonicDisplay", "HideAndReenter", "DisplayScrub">>,
  <<"MnemonicDisplay", "DestroyRequested", "DestroyConfirm">>,
  <<"DestroyConfirm", "DestroyConfirmed", "SecretArenaScrub">>,
  <<"DestroyConfirm", "Continue", "MnemonicDisplay">>,
  <<"DisplayScrub", "ScrubComplete", "CompleteHiddenReentry">>}

ReentryEdges == {
  <<"CompleteHiddenReentry", "ReentryPositionMatched", "CompleteHiddenReentry">>,
  <<"CompleteHiddenReentry", "ReentryComplete", "PassphraseOffer">>,
  <<"CompleteHiddenReentry", "ReentryMismatch", "ReentryMismatchChoice">>,
  <<"ReentryMismatchChoice", "RetryPosition", "CompleteHiddenReentry">>,
  <<"ReentryMismatchChoice", "RevealAgain", "MnemonicDisplay">>,
  <<"ReentryMismatchChoice", "DestroyRequested", "DestroyConfirm">>}

PassphraseEdges == {
  <<"PassphraseOffer", "PassphraseOfferYes", "PassphraseEntry">>,
  <<"PassphraseOffer", "PassphraseUseEmpty", "DerivationVerificationDisplay">>,
  <<"PassphraseEntry", "PassphraseEntered", "PassphraseConfirm">>,
  <<"PassphraseEntry", "PassphraseUseEmpty", "DerivationVerificationDisplay">>,
  <<"PassphraseConfirm", "PassphraseConfirmMatch", "DerivationVerificationDisplay">>,
  <<"PassphraseConfirm", "PassphraseConfirmMismatch", "PassphraseEntry">>}

ClosingEdges == {
  <<"DerivationVerificationDisplay", "ShowVerification", "DerivationVerificationDisplay">>,
  <<"DerivationVerificationDisplay", "SkipVerification", "CompletionEducation">>,
  <<"DerivationVerificationDisplay", "VerificationAcknowledged", "CompletionEducation">>,
  <<"DerivationVerificationDisplay", "VerificationFailed", "ScrubWhatIsReachable">>,
  <<"CompletionEducation", "EducationAcknowledged", "SecretArenaScrub">>,
  <<"SecretArenaScrub", "ScrubComplete", "FramebufferScrub">>,
  <<"FramebufferScrub", "ScrubComplete", "Shutdown">>,
  <<"Shutdown", "ShutdownRequested", "Shutdown">>,
  <<"Shutdown", "ShutdownFailed", "ShutdownFailedHalt">>}

(* Back navigation: one step to the preceding screen, except that          *)
(* SetupSelection skips the automatic cryptographic gate.                  *)
BackEdges == {
  <<"ReleaseAndEnvironmentWarning", "Back", "Start">>,
  <<"WatchdogDisable", "Back", "ReleaseAndEnvironmentWarning">>,
  <<"PlatformAndVirtualizationCheck", "Back", "WatchdogDisable">>,
  <<"ConsoleTopologyCheck", "Back", "PlatformAndVirtualizationCheck">>,
  <<"GraphicsAndKeyboardSelfTest", "Back", "ConsoleTopologyCheck">>,
  <<"CryptographicSelfTest", "Back", "GraphicsAndKeyboardSelfTest">>,
  <<"SetupSelection", "Back", "GraphicsAndKeyboardSelfTest">>,
  <<"MachineEntropyAcquisition", "Back", "SetupSelection">>,
  <<"PhysicalCollection", "Back", "SetupSelection">>,
  <<"FinalGenerationConfirmation", "Back", "SetupSelection">>}

PlainEdges == GateEdges \cup CollectionEdges \cup DisplayEdges
                \cup ReentryEdges \cup PassphraseEdges \cup ClosingEdges
                \cup BackEdges

(* The classes run_pre_secret_flow reports a gate's failure with. *)
FailureClasses(g) ==
  CASE g = "PlatformAndVirtualizationCheck" -> {"Platform", "Virtualization"}
    [] g = "ConsoleTopologyCheck"           -> {"ConsoleTopology"}
    [] g = "GraphicsAndKeyboardSelfTest"    -> {"GraphicsOrKeyboard"}
    [] g = "CryptographicSelfTest"          -> {"Cryptographic"}

(* check_failed_target: the disposition decides between the menu's error   *)
(* screen and the firmware.                                                *)
CheckFailedTarget(m, class, disp) ==
  IF disp = "ReturnToMenu" THEN Error(m, class) ELSE At(m, "ExitToFirmware")

\* Mutant: a cryptographic failure has no gate to go back to.
ResumeStateWithoutCrypto(class) ==
  CASE class \in {"Platform", "Virtualization"} -> "PlatformAndVirtualizationCheck"
    [] class = "ConsoleTopology"    -> "ConsoleTopologyCheck"
    [] class = "GraphicsOrKeyboard" -> "GraphicsAndKeyboardSelfTest"
    [] OTHER                        -> "SetupSelection"

(* ErrorClass::mandatory_gate_retry, with the SetupSelection it defaults   *)
(* to when PreSecretError is continued from.                               *)
ResumeState(class) ==
  CASE class \in {"Platform", "Virtualization"} -> "PlatformAndVirtualizationCheck"
    [] class = "ConsoleTopology"    -> "ConsoleTopologyCheck"
    [] class = "GraphicsOrKeyboard" -> "GraphicsAndKeyboardSelfTest"
    [] class = "Cryptographic"      -> "CryptographicSelfTest"
    [] OTHER                        -> "SetupSelection"

(* SetupCommitted stores the word count and the mode and forks on the mode. *)
CommitSetup(m, e) ==
  [state |-> IF NeedsMachine(e.mode) THEN "MachineEntropyAcquisition"
                                     ELSE "PhysicalCollection",
   error |-> None, wordCount |-> e.words, mode |-> e.mode]

\* Mutants: the dice are skipped; the confirmation is skipped.
AfterMachineWithoutPhysical(m) == "FinalGenerationConfirmation"
AfterMachineUnconfirmed(m) ==
  IF NeedsPhysical(m.mode) THEN "PhysicalCollection" ELSE "FinalEntropyDerivation"

(* Where MachineEntropyComplete leads depends on the committed mode; with  *)
(* no mode committed the code's is_some_and is false.                      *)
AfterMachine(m) ==
  IF NeedsPhysical(m.mode) THEN "PhysicalCollection"
                           ELSE "FinalGenerationConfirmation"

(* The machines a legal edge leads to; empty when `e` is illegal in `m`.   *)
LegalEdge(m, e) ==
       {At(m, x[3]) : x \in {y \in PlainEdges : y[1] = m.state /\ y[2] = e.kind}}
  \cup {CheckFailedTarget(m, e.class, e.disp) :
          g \in {h \in Gates : h = m.state /\ e.kind = "CheckFailed"}}
  \cup (IF m.state = "SetupSelection" /\ e.kind = "SetupCommitted"
          THEN {CommitSetup(m, e)} ELSE {})
  \cup (IF m.state = "MachineEntropyAcquisition" /\ e.kind = "MachineEntropyComplete"
          THEN {At(m, AfterMachine(m))} ELSE {})
  \cup (IF m.state = "MachineEntropyAcquisition" /\ e.kind = "MachineEntropyFailed"
          THEN {CheckFailedTarget(m, "MachineSource", e.disp)} ELSE {})
  \cup (IF m.state = "FinalEntropyDerivation" /\ e.kind = "DerivationFailed"
          THEN {At(m, "ScrubWhatIsReachable")} ELSE {})
  \cup (IF m.state = "PreSecretError" /\ e.kind = "Continue"
          THEN {At(m, ResumeState(m.error))} ELSE {})

(* illegal_edge: after the secret boundary every unexpected event enters   *)
(* the fatal chain; before it, an error event is routed by its disposition *)
(* and anything else is a StateMachine-class error.                        *)
IllegalEdge(m, e) ==
  CASE m.state \in PostSecret -> At(m, "ScrubWhatIsReachable")
    [] m.state \notin PostSecret /\ e.disp = "ExitToFirmware" -> At(m, "ExitToFirmware")
    [] m.state \notin PostSecret /\ e.disp = "ReturnToMenu" ->
         Error(m, CASE e.kind = "CheckFailed"          -> e.class
                    [] e.kind = "MachineEntropyFailed" -> "MachineSource"
                    [] e.kind = "DerivationFailed"     -> "Derivation")
    [] m.state \notin PostSecret /\ e.disp = None ->
         Error(m, IF e.kind = "Fault" THEN e.class ELSE "StateMachine")

(* The fatal chain advances whatever the event is.                         *)
ChainNext(s) ==
  CASE s = "ScrubWhatIsReachable" -> "BlankDisplay"
    [] s = "BlankDisplay"         -> "ShutdownOrHalt"

\* Mutant: a failed re-assertion always goes to the error screen.
WatchdogFailureRecoverable(m) == Error(m, "Watchdog")

(* A failed re-assertion overrides the event: fatal once a secret exists,  *)
(* an error screen before.                                                 *)
WatchdogFailure(m) ==
  IF m.state \in PostSecret THEN At(m, "ScrubWhatIsReachable")
                            ELSE Error(m, "Watchdog")

(* StateMachine::transition.  `fails` says whether this call's single      *)
(* watchdog re-assertion failed.                                           *)
Transition(m, e, fails) ==
  IF m.state \in Terminal THEN {m}
  ELSE IF m.state \in FatalChain THEN {At(m, ChainNext(m.state))}
  ELSE IF fails THEN {WatchdogFailure(m)}
  ELSE IF LegalEdge(m, e) # {} THEN LegalEdge(m, e)
  ELSE {IllegalEdge(m, e)}
===========================================================================
