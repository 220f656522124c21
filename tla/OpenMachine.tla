---------------------------- MODULE OpenMachine ----------------------------
(***************************************************************************)
(* The state machine of AleaStateMachine under an open environment: any    *)
(* event may be sent to it at any time, and any watchdog re-assertion may  *)
(* fail.  What holds here holds for every driver, correct or not.          *)
(*                                                                         *)
(* Four history variables record what the run has done so far: the gates   *)
(* whose latest check passed, the entropy stages completed since the setup *)
(* was last committed, whether the display has been scrubbed since the     *)
(* mnemonic was last shown, and whether every call so far was one a        *)
(* correct driver makes, with a watchdog that answered.                    *)
(***************************************************************************)
EXTENDS AleaStateMachine

VARIABLES
  sm,         \* the StateMachine
  verified,   \* gates whose latest check passed
  collected,  \* entropy stages completed since the last SetupCommitted
  hidden,     \* the display was scrubbed since the mnemonic was last shown
  steady      \* every call so far was disciplined, every re-assertion answered

vars == <<sm, verified, collected, hidden, steady>>

Stages == {"machine", "physical"}

TypeOK ==
  /\ sm \in Machine
  /\ verified \subseteq Gates
  /\ collected \subseteq Stages
  /\ hidden \in BOOLEAN
  /\ steady \in BOOLEAN

Init ==
  /\ sm = NewMachine
  /\ verified = {}
  /\ collected = {}
  /\ hidden = FALSE
  /\ steady = TRUE

---------------------------------------------------------------------------
(* A call a correct driver makes: a legal event, and a check reported with *)
(* a class of its own gate.                                                *)
Disciplined(e) ==
  /\ LegalEdge(sm, e) # {}
  /\ e.kind = "CheckFailed" => e.class \in FailureClasses(sm.state)

Observe(e) ==
  /\ verified' =
       IF sm.state \notin Gates THEN verified
       ELSE IF e.kind = "CheckPassed" THEN verified \cup {sm.state}
       ELSE IF e.kind = "CheckFailed" THEN verified \ {sm.state}
       ELSE verified
  /\ collected' =
       IF sm.state = "SetupSelection" /\ e.kind = "SetupCommitted" THEN {}
       ELSE IF sm.state = "MachineEntropyAcquisition" /\ e.kind = "MachineEntropyComplete"
         THEN collected \cup {"machine"}
       ELSE IF sm.state = "PhysicalCollection" /\ e.kind = "PhysicalBudgetMet"
         THEN collected \cup {"physical"}
       ELSE collected
  /\ hidden' = IF sm.state = "DisplayScrub" /\ e.kind = "ScrubComplete" THEN TRUE
               ELSE IF sm'.state = "MnemonicDisplay" THEN FALSE
               ELSE hidden

(* An event for which the state has a legal edge. *)
LegalCall(e) ==
  /\ LegalEdge(sm, e) # {}
  /\ sm' \in Transition(sm, e, FALSE)
  /\ Observe(e)
  /\ steady' = (steady /\ Disciplined(e))

(* An event for which it has none: a bug of the driver, or Event::Fault. *)
IllegalCall(e) ==
  /\ LegalEdge(sm, e) = {}
  /\ sm' \in Transition(sm, e, FALSE)
  /\ steady' = FALSE
  /\ UNCHANGED <<verified, collected, hidden>>

(* The re-assertion fails; the event is lost. *)
WatchdogFails(e) ==
  /\ sm' \in Transition(sm, e, TRUE)
  /\ steady' = FALSE
  /\ UNCHANGED <<verified, collected, hidden>>

Next == \E e \in Event : LegalCall(e) \/ IllegalCall(e) \/ WatchdogFails(e)

Spec == Init /\ [][Next]_vars

---------------------------------------------------------------------------
(* Properties. *)

(* state/mod.rs is_post_secret, illegal_edge: once a secret exists, no     *)
(* event and no watchdog failure leads back to a menu, a gate or firmware. *)
NoWayBackFromSecret == [][sm.state \in PostSecret => sm'.state \in PostSecret]_vars

(* The secret boundary is crossed in one place only: by the confirmation   *)
(* of FinalGenerationConfirmation, into FinalEntropyDerivation.            *)
SecretNeedsConfirmation ==
  [][(sm.state \notin PostSecret /\ sm'.state \in PostSecret) =>
       /\ sm.state = "FinalGenerationConfirmation"
       /\ sm'.state = "FinalEntropyDerivation"]_vars

StagesOfMode(mode) ==
       (IF NeedsMachine(mode) THEN {"machine"} ELSE {})
  \cup (IF NeedsPhysical(mode) THEN {"physical"} ELSE {})

(* Whoever reaches the final confirmation or anything after it has         *)
(* completed, since the mode was committed, every stage that mode calls    *)
(* for: going back and choosing again never carries a stage over.          *)
EveryStageCollected ==
  sm.state \in {"FinalGenerationConfirmation"} \cup CeremonyStates =>
    /\ sm.mode \in EntropyMode
    /\ sm.wordCount \in WordCount
    /\ StagesOfMode(sm.mode) \subseteq collected

(* From the re-entry of the words to the completion screen, the display    *)
(* has been scrubbed since the words were last on it.                      *)
WordsHiddenDuringReentry == sm.state \in AfterReveal => hidden

(* The comment of mandatory_gate_retry (state/mod.rs:235): whoever is at   *)
(* the setup screen has passed every mandatory gate, also after errors,    *)
(* retries and going back.  True as long as the driver sends legal events  *)
(* and the watchdog answers; one failed re-assertion during a gate resumes *)
(* at the setup screen with the gate unverified (see PreSecretFlow).       *)
GatesBeforeSetup == steady /\ sm.state = "SetupSelection" => verified = Gates
===========================================================================
