----------------------- MODULE PreSecretFlow_proofs -----------------------
(***************************************************************************)
(* What the pre-secret driver's bypass guard gives, for any number of      *)
(* failing watchdog re-assertions and both keyboard policies.              *)
(*                                                                         *)
(* The property speaks of the hand-over; why it holds is decided three     *)
(* calls earlier, in step_recoverable.  The invariant says what is known   *)
(* at each place of the driver about the results recorded so far.          *)
(***************************************************************************)
EXTENDS PreSecretFlow, AleaStateMachine_proofs

---------------------------------------------------------------------------
(* The calls made for a gate. *)

(* What a gate's two events and the answers to its error screen lead to,   *)
(* when the re-assertion is answered.                                      *)
LEMMA GateEdgesOnly ==
  /\ \A g \in Gates : <<g, "CheckPassed", Advance(g)>> \in PlainEdges
  /\ <<"PreSecretError", "Escape", "ExitToFirmware">> \in PlainEdges
  /\ \A x \in PlainEdges :
       /\ x[2] # "CheckFailed"
       /\ x[1] \in Gates /\ x[2] = "CheckPassed" => x[3] = Advance(x[1])
       /\ x[1] = "PreSecretError" => x[2] = "Escape" /\ x[3] = "ExitToFirmware"
<1> USE DEF Gates, Advance
<1>1. \A g \in Gates : <<g, "CheckPassed", Advance(g)>> \in GateEdges
  BY DEF GateEdges
<1>2. <<"PreSecretError", "Escape", "ExitToFirmware">> \in GateEdges
  BY DEF GateEdges
<1> DEFINE OK(x) ==
       /\ x[2] # "CheckFailed"
       /\ x[1] \in Gates /\ x[2] = "CheckPassed" => x[3] = Advance(x[1])
       /\ x[1] = "PreSecretError" => x[2] = "Escape" /\ x[3] = "ExitToFirmware"
<1>3. \A x \in GateEdges : OK(x)       BY DEF GateEdges
<1>4. \A x \in CollectionEdges : OK(x) BY DEF CollectionEdges
<1>5. \A x \in DisplayEdges : OK(x)    BY DEF DisplayEdges
<1>6. \A x \in ReentryEdges : OK(x)    BY DEF ReentryEdges
<1>7. \A x \in PassphraseEdges : OK(x) BY DEF PassphraseEdges
<1>8. \A x \in ClosingEdges : OK(x)    BY DEF ClosingEdges
<1>9. \A x \in BackEdges : OK(x)       BY DEF BackEdges
<1> HIDE DEF OK, Gates, Advance
<1>10. \A x \in PlainEdges : OK(x)
  BY <1>3, <1>4, <1>5, <1>6, <1>7, <1>8, <1>9 DEF PlainEdges
<1> QED BY <1>1, <1>2, <1>10 DEF PlainEdges, OK

LostOr(m, fails, n) == IF fails THEN Error(m, "Watchdog") ELSE n

(* A gate state and an error screen are neither terminal, fatal nor past   *)
(* the secret boundary, so a failed re-assertion there is an error screen. *)
LEMMA BeforeSecret ==
  ASSUME NEW m \in Machine, m.state \in Gates \cup {"PreSecretError"}
  PROVE  /\ m.state \notin Terminal \cup FatalChain \cup PostSecret
         /\ \A e : Transition(m, e, TRUE) = {Error(m, "Watchdog")}
<1>1. m.state \notin Terminal \cup FatalChain \cup PostSecret
  BY DEF Gates, Terminal, FatalChain, PostSecret, CeremonyStates, CleanTeardown
<1> QED BY <1>1 DEF Transition, WatchdogFailure

(* A clean check advances the gate; a blocked one shows its class.         *)
LEMMA GateCall ==
  ASSUME NEW m \in Machine, m.state \in Gates, NEW fails \in BOOLEAN
  PROVE  /\ \A n \in Transition(m, Plain("CheckPassed"), fails) :
              n = LostOr(m, fails, At(m, Advance(m.state)))
         /\ \A c : \A n \in Transition(m, CheckFailed(c, "ReturnToMenu"), fails) :
              n = LostOr(m, fails, Error(m, c))
<1>1. CASE fails BY <1>1, BeforeSecret DEF LostOr
<1>2. CASE ~fails
  <2>1. {"SetupSelection", "MachineEntropyAcquisition", "FinalEntropyDerivation",
         "PreSecretError"} \cap Gates = {}
    BY DEF Gates
  <2>2. LegalEdge(m, Plain("CheckPassed")) = {At(m, Advance(m.state))}
    <3>1. Plain("CheckPassed").kind = "CheckPassed" BY DEF Plain, EventRecord
    <3>2. \A x \in PlainEdges :
            x[1] = m.state /\ x[2] = "CheckPassed" => x[3] = Advance(m.state)
      BY GateEdgesOnly
    <3>3. \E x \in PlainEdges :
            x[1] = m.state /\ x[2] = "CheckPassed" /\ x[3] = Advance(m.state)
      BY GateEdgesOnly
    <3> QED BY <2>1, <3>1, <3>2, <3>3 DEF LegalEdge
  <2>3. ASSUME NEW c PROVE LegalEdge(m, CheckFailed(c, "ReturnToMenu")) = {Error(m, c)}
    <3>1. /\ CheckFailed(c, "ReturnToMenu").kind = "CheckFailed"
          /\ CheckFailed(c, "ReturnToMenu").class = c
          /\ CheckFailed(c, "ReturnToMenu").disp = "ReturnToMenu"
      BY DEF CheckFailed, EventRecord
    <3>2. {x \in PlainEdges : x[1] = m.state /\ x[2] = "CheckFailed"} = {}
      BY GateEdgesOnly
    <3>3. {h \in Gates : h = m.state} = {m.state} OBVIOUS
    <3> QED BY <2>1, <3>1, <3>2, <3>3 DEF LegalEdge, CheckFailedTarget
  <2> QED BY <1>2, <2>2, <2>3, BeforeSecret DEF Transition, LostOr
<1> QED BY <1>1, <1>2

(* Continue resumes where the class says, Escape leaves.                   *)
LEMMA ErrorCall ==
  ASSUME NEW m \in Machine, m.state = "PreSecretError", NEW fails \in BOOLEAN
  PROVE  /\ \A n \in Transition(m, Plain("Continue"), fails) :
              n = LostOr(m, fails, At(m, ResumeState(m.error)))
         /\ \A n \in Transition(m, Plain("Escape"), fails) :
              n = LostOr(m, fails, At(m, "ExitToFirmware"))
<1>1. CASE fails BY <1>1, BeforeSecret DEF LostOr
<1>2. CASE ~fails
  <2>1. "PreSecretError" \notin Gates BY DEF Gates
  <2>2. Plain("Continue").kind = "Continue" /\ Plain("Escape").kind = "Escape"
    BY DEF Plain, EventRecord
  <2>3. LegalEdge(m, Plain("Continue")) = {At(m, ResumeState(m.error))}
    <3>1. {x \in PlainEdges : x[1] = m.state /\ x[2] = "Continue"} = {}
      BY GateEdgesOnly
    <3> QED BY <2>1, <2>2, <3>1 DEF LegalEdge
  <2>4. LegalEdge(m, Plain("Escape")) = {At(m, "ExitToFirmware")}
    <3>1. \A x \in PlainEdges : x[1] = m.state => x[3] = "ExitToFirmware"
      BY GateEdgesOnly
    <3>2. \E x \in PlainEdges : x[1] = m.state /\ x[2] = "Escape" /\ x[3] = "ExitToFirmware"
      BY GateEdgesOnly
    <3> QED BY <2>1, <2>2, <3>1, <3>2 DEF LegalEdge
  <2> QED BY <1>2, <2>3, <2>4, BeforeSecret DEF Transition, LostOr
<1> QED BY <1>1, <1>2

---------------------------------------------------------------------------
(* The invariant. *)

First == {"PlatformAndVirtualizationCheck", "ConsoleTopologyCheck",
          "GraphicsAndKeyboardSelfTest"}

(* The gates, among the first three, that come before a state. *)
Behind(s) ==
  CASE s = "ConsoleTopologyCheck"        -> {"PlatformAndVirtualizationCheck"}
    [] s = "GraphicsAndKeyboardSelfTest" ->
         {"PlatformAndVirtualizationCheck", "ConsoleTopologyCheck"}
    [] s \in {"CryptographicSelfTest", "SetupSelection"} -> First
    [] OTHER                             -> {}

Clean(gates) == \A g \in gates : last[g] = "clean"

(* The results a run may be handed over with.                              *)
Ready ==
  /\ Clean(First)
  /\ last["CryptographicSelfTest"] # "unchecked"
  /\ failures = 0 => last["CryptographicSelfTest"] = "clean"

Typed ==
  /\ sm \in Machine /\ event \in Event /\ gate \in Gates
  /\ failures \in Nat
  /\ last \in [Gates -> {"unchecked", "clean", "blocked"}]

InCall == pc \in {"step", "errorScreen", "landed"}

(* At a gate's screen the gates before it are clean; at the setup screen   *)
(* the cryptographic one is too, unless a re-assertion has failed.         *)
AtGates ==
  /\ pc = "gates" =>
       /\ sm.state \in Gates \cup {"SetupSelection"}
       /\ Clean(Behind(sm.state))
       /\ sm.state = "SetupSelection" /\ failures = 0 =>
            last["CryptographicSelfTest"] = "clean"
  /\ pc \in {"device", "selfTest"} =>
       /\ sm.state = "GraphicsAndKeyboardSelfTest"
       /\ Clean(Behind("GraphicsAndKeyboardSelfTest"))
  /\ pc = "setup" => Ready

(* The error screen of a gate: its own class, or that of a lost event.     *)
GateError ==
  /\ sm.state = "PreSecretError"
  /\ sm.error \in FailureClasses(gate) \/ (sm.error = "Watchdog" /\ failures # 0)

(* A gate's call of step_recoverable, from the report to the landing: on   *)
(* the way, a blocked gate can be left forwards only by a lost event.      *)
InGateCall ==
  InCall /\ site = "gate" =>
    /\ Clean(Behind(gate)) /\ last[gate] # "unchecked"
    /\ pc = "step" =>
         \/ sm.state = gate /\ event = Plain("CheckPassed") /\ last[gate] = "clean"
         \/ /\ sm.state = gate
            /\ \E c \in FailureClasses(gate) : event = CheckFailed(c, "ReturnToMenu")
         \/ GateError /\ event \in {Plain("Continue"), Plain("Escape")}
    /\ pc = "errorScreen" => GateError
    /\ pc = "landed" =>
         \/ sm.state \in {"ExitToFirmware", gate}
         \/ sm.state = Advance(gate) /\ last[gate] = "clean"
         \/ sm.state = "SetupSelection" /\ failures # 0

(* Only the call that commits the setup screen starts the collection.      *)
InSetupCall ==
  /\ InCall /\ site \in {"commit", "setupBack"} => Ready
  /\ pc = "step" /\ event.kind = "SetupCommitted" => site = "commit"
  /\ sm.state \in Collecting => site = "commit" /\ pc \in {"landed", "done"}

HandedOver == outcome = "HandoffToSecretPhase" => pc = "done" /\ Ready

Inv == Typed /\ AtGates /\ InGateCall /\ InSetupCall /\ HandedOver

---------------------------------------------------------------------------
(* The steps. *)

(* The events the driver sends. *)
LEMMA EventsSent ==
  /\ \A k \in PlainKinds : Plain(k) \in Event
  /\ \A c \in ErrorClass, d \in Disposition : CheckFailed(c, d) \in Event
  /\ \A c \in ErrorClass : Fault(c) \in Event
  /\ \A w \in WordCount, md \in EntropyMode : SetupCommitted(w, md) \in Event
  /\ {"Continue", "Escape", "Back", "CheckPassed"} \subseteq PlainKinds
  /\ \A k : Plain(k).kind = k
  /\ \A c, d : CheckFailed(c, d).kind = "CheckFailed"
  /\ \A c : Fault(c).kind = "Fault"
<1>1. /\ \A k \in PlainKinds : Plain(k) \in Event
      /\ \A c \in ErrorClass, d \in Disposition : CheckFailed(c, d) \in Event
      /\ \A c \in ErrorClass : Fault(c) \in Event
      /\ \A w \in WordCount, md \in EntropyMode : SetupCommitted(w, md) \in Event
  BY DEF Event
<1>2. {"Continue", "Escape", "Back", "CheckPassed"} \subseteq PlainKinds
  BY DEF PlainKinds
<1>3. /\ \A k : Plain(k).kind = k
      /\ \A c, d : CheckFailed(c, d).kind = "CheckFailed"
      /\ \A c : Fault(c).kind = "Fault"
  BY DEF Plain, CheckFailed, Fault, EventRecord
<1> QED BY <1>1, <1>2, <1>3

(* Nothing has been checked, and nothing is under way. *)
LEMMA InitInv == Init => Inv
<1> SUFFICES ASSUME Init PROVE Inv
  OBVIOUS
<1>1. Typed BY InitialMachine, EventsSent DEF Init, Typed, Gates
<1> QED
  BY <1>1, InitialMachine
     DEF Init, Inv, AtGates, InGateCall, InCall, InSetupCall, HandedOver, Collecting

(* The call of transition() itself. *)
LEMMA StepInv == ASSUME Inv, NEW fails \in BOOLEAN, StepTransition(fails) PROVE Inv'
<1> USE DEF Inv
<1>1. /\ pc = "step" /\ pc' \in {"errorScreen", "landed"}
      /\ sm' \in Transition(sm, event, fails)
      /\ pc' = "errorScreen" <=> sm'.state = "PreSecretError"
      /\ UNCHANGED <<event, site, gate, last, outcome>>
      /\ failures' \in Nat /\ (failures' = 0 => failures = 0) /\ (fails => failures' # 0)
  BY DEF StepTransition, Reassert, Typed
<1>2. /\ sm' \in Machine
      /\ sm'.state \in Collecting => sm.state \in Collecting \/ Commits(sm, event)
  BY <1>1, CallFacts DEF Typed
<1>3. Typed' BY <1>1, <1>2 DEF Typed
<1>4. AtGates' /\ HandedOver'
  BY <1>1 DEF AtGates, HandedOver
<1>5. InSetupCall'
  <2>1. site \in {"commit", "setupBack"} => Ready /\ Ready'
    BY <1>1 DEF InSetupCall, InCall, Ready, Clean
  <2>2. sm'.state \in Collecting => site = "commit" /\ pc' = "landed"
    BY <1>1, <1>2 DEF InSetupCall, Commits, Collecting
  <2> QED BY <1>1, <2>1, <2>2 DEF InSetupCall
<1>6. ASSUME site = "gate" PROVE InGateCall'
  <2>1. Clean(Behind(gate)) /\ last[gate] # "unchecked"
    BY <1>1, <1>6 DEF InGateCall, InCall
  <2>2. /\ \A s : At(sm, s).state = s
        /\ \A c : Error(sm, c).state = "PreSecretError" /\ Error(sm, c).error = c
    BY DEF Typed, At, Error, Machine
  <2>3. "PreSecretError" \notin Gates /\ "ExitToFirmware" # "PreSecretError"
    BY DEF Gates
  <2>4. SUFFICES \/ /\ sm'.state = "PreSecretError"
                    /\ sm'.error \in FailureClasses(gate)
                         \/ (sm'.error = "Watchdog" /\ failures' # 0)
                 \/ sm'.state \in {"ExitToFirmware", gate}
                 \/ sm'.state = Advance(gate) /\ last[gate] = "clean"
                 \/ sm'.state = "SetupSelection" /\ failures' # 0
    <3>1. gate \in Gates /\ Advance(gate) # "PreSecretError"
      BY DEF Typed, Gates, Advance
    <3> QED BY <1>1, <2>1, <2>3, <2>4, <3>1 DEF InGateCall, GateError, InCall, Clean
  <2>5. CASE sm.state = gate /\ event = Plain("CheckPassed") /\ last[gate] = "clean"
    <3>1. sm' = LostOr(sm, fails, At(sm, Advance(gate)))
      BY <1>1, <2>5, GateCall DEF Typed
    <3> QED BY <1>1, <2>2, <2>5, <3>1 DEF LostOr
  <2>6. CASE sm.state = gate /\ \E c \in FailureClasses(gate) : event = CheckFailed(c, "ReturnToMenu")
    <3>1. \E c \in FailureClasses(gate) : sm' = LostOr(sm, fails, Error(sm, c))
      BY <1>1, <2>6, GateCall DEF Typed
    <3> QED BY <1>1, <2>2, <3>1 DEF LostOr
  <2>7. CASE GateError /\ event = Plain("Continue")
    <3>1. sm' = LostOr(sm, fails, At(sm, ResumeState(sm.error)))
      BY <1>1, <2>7, ErrorCall DEF Typed, GateError
    <3>2. sm.error \in FailureClasses(gate) => ResumeState(sm.error) = gate
      BY ResumesAtGate DEF Typed
    <3>3. ResumeState("Watchdog") = "SetupSelection" BY DEF ResumeState
    <3> QED BY <1>1, <2>2, <2>7, <3>1, <3>2, <3>3 DEF LostOr, GateError
  <2>8. CASE GateError /\ event = Plain("Escape")
    <3>1. sm' = LostOr(sm, fails, At(sm, "ExitToFirmware"))
      BY <1>1, <2>8, ErrorCall DEF Typed, GateError
    <3> QED BY <1>1, <2>2, <3>1 DEF LostOr
  <2> QED BY <1>1, <1>6, <2>5, <2>6, <2>7, <2>8 DEF InGateCall, InCall
<1>7. InGateCall' BY <1>1, <1>6 DEF InGateCall
<1> QED BY <1>3, <1>4, <1>5, <1>7

(* The report of a check: its result is recorded in the call that sends it.*)
LEMMA ReportInv ==
  ASSUME Inv, NEW g \in Gates, sm.state = g, Clean(Behind(g)),
         pc \in {"gates", "device", "selfTest"}, UNCHANGED <<sm, failures, outcome>>,
         \/ ReportCheck(g, "clean", Plain("CheckPassed"))
         \/ \E class \in FailureClasses(g) :
              ReportCheck(g, "blocked", CheckFailed(class, "ReturnToMenu"))
  PROVE  Inv'
<1>1. PICK result \in {"clean", "blocked"}, e \in Event :
        /\ ReportCheck(g, result, e) /\ e.kind # "SetupCommitted"
        /\ \/ result = "clean" /\ e = Plain("CheckPassed")
           \/ \E class \in FailureClasses(g) : e = CheckFailed(class, "ReturnToMenu")
  <2>1. CASE ReportCheck(g, "clean", Plain("CheckPassed"))
    BY <2>1, EventsSent
  <2>2. ASSUME NEW class \in FailureClasses(g),
               ReportCheck(g, "blocked", CheckFailed(class, "ReturnToMenu"))
        PROVE  \E result \in {"clean", "blocked"}, e \in Event :
                 /\ ReportCheck(g, result, e) /\ e.kind # "SetupCommitted"
                 /\ \/ result = "clean" /\ e = Plain("CheckPassed")
                    \/ \E c \in FailureClasses(g) : e = CheckFailed(c, "ReturnToMenu")
    <3>1. CheckFailed(class, "ReturnToMenu") \in Event
      BY ResumesAtGate, EventsSent DEF Disposition
    <3> QED BY <2>2, <3>1, EventsSent
  <2> QED BY <2>1, <2>2
<1>2. /\ pc' = "step" /\ event' = e /\ site' = "gate" /\ gate' = g
      /\ last' = [last EXCEPT ![g] = result]
  BY <1>1 DEF ReportCheck, Drive
<1>3. Typed' BY <1>1, <1>2 DEF Inv, Typed
<1>4. last'[g] = result /\ \A h \in Gates \ {g} : last'[h] = last[h]
  BY <1>2 DEF Inv, Typed
<1>5. Behind(g) \subseteq Gates \ {g}
  BY DEF Behind, First, Gates
<1>6. InGateCall'
  BY <1>1, <1>2, <1>4, <1>5 DEF InGateCall, InCall, Clean, GateError
<1>7. AtGates' /\ HandedOver' BY <1>2 DEF Inv, AtGates, HandedOver
<1>8. InSetupCall'
  BY <1>1, <1>2 DEF Inv, InSetupCall, InCall, Collecting, Gates
<1> QED BY <1>3, <1>6, <1>7, <1>8 DEF Inv

(* Every way a run ends other than the forced exit: the hand-over is that  *)
(* of a committed setup.                                                   *)
LEMMA FinishInv == ASSUME Inv, InCall, Finish PROVE Inv'
<1>1. outcome' = "HandoffToSecretPhase" => Ready
  <2>1. outcome' = "HandoffToSecretPhase" => sm.state \in Collecting
    BY DEF Finish, OutcomeAt, Collecting
  <2> QED BY <2>1 DEF Inv, InSetupCall
<1>2. Ready => Ready'
  BY DEF Finish, Ready, Clean
<1> QED
  BY <1>1, <1>2
     DEF Finish, Inv, Typed, AtGates, InGateCall, InCall, InSetupCall, HandedOver

(* Where a gate's call that returned leads. *)
LEMMA LandGateInv == ASSUME Inv, LandGate PROVE Inv'
<1>1. CASE Finish
  BY <1>1, FinishInv DEF LandGate, InCall
<1>2. CASE Goto("bypass")
  BY <1>2 DEF LandGate, Goto, Inv, Typed, AtGates, InGateCall, InCall, InSetupCall,
              HandedOver, Collecting
<1>3. CASE Goto("gates") /\ sm.state # "ExitToFirmware" /\ LandedAsExpected(gate, sm.state)
  <2>1. /\ Clean(Behind(gate)) /\ gate \in Gates
        /\ \/ sm.state = gate
           \/ sm.state = Advance(gate) /\ last[gate] = "clean"
           \/ sm.state = "SetupSelection" /\ failures # 0
    BY <1>3 DEF LandGate, Inv, Typed, InGateCall, InCall
  <2>2. /\ sm.state \in Gates \cup {"SetupSelection"}
        /\ Clean(Behind(sm.state))
        /\ sm.state = "SetupSelection" /\ failures = 0 =>
             last["CryptographicSelfTest"] = "clean"
    <3>1. /\ Advance(gate) \in Gates \cup {"SetupSelection"}
          /\ Advance(gate) = "SetupSelection" => gate = "CryptographicSelfTest"
          /\ Behind(Advance(gate)) \subseteq Behind(gate) \cup {gate}
          /\ Behind("CryptographicSelfTest") = Behind("SetupSelection")
      BY <2>1 DEF Gates, Advance, Behind, First
    <3>2. gate # "SetupSelection" BY <2>1 DEF Gates
    <3> QED BY <1>3, <2>1, <3>1, <3>2 DEF LandedAsExpected, Clean
  <2>3. sm.state \notin Collecting
    BY <2>2 DEF Gates, Collecting
  <2>4. pc' = "gates" /\ pc = "landed"
        /\ UNCHANGED <<sm, event, site, gate, last, failures, outcome>>
    BY <1>3 DEF Goto, LandGate
  <2>5. AtGates' BY <2>2, <2>4 DEF AtGates, Clean
  <2>6. Typed' /\ InGateCall' /\ InSetupCall' /\ HandedOver'
    BY <2>3, <2>4 DEF Inv, Typed, InGateCall, InCall, InSetupCall, HandedOver
  <2> QED BY <2>5, <2>6 DEF Inv
<1> QED BY <1>1, <1>2, <1>3 DEF LandGate

(* One attempt of the forced exit sends no commit, so it hands over        *)
(* nothing.                                                                *)
LEMMA ForceExitInv ==
  ASSUME Inv, NEW f1 \in BOOLEAN, NEW f2 \in BOOLEAN, ForceExit(f1, f2) PROVE Inv'
<1>1. PICK faulted \in Transition(sm, Fault("Watchdog"), f1) :
        sm' \in Transition(faulted, Plain("Escape"), f2)
  BY DEF ForceExit
<1>2. /\ Fault("Watchdog") \in Event /\ Plain("Escape") \in Event
      /\ Fault("Watchdog").kind = "Fault" /\ Plain("Escape").kind = "Escape"
  BY EventsSent DEF ErrorClass
<1>3. faulted \in Machine /\ faulted.state \notin Collecting
  BY <1>1, <1>2, CallFacts DEF Inv, Typed, InSetupCall, Commits, ForceExit
<1>4. sm' \in Machine /\ sm'.state \notin Collecting
  BY <1>1, <1>2, <1>3, CallFacts DEF Commits
<1>5. failures' \in Nat
  BY DEF ForceExit, Inv, Typed
<1>6. outcome' # "HandoffToSecretPhase" /\ pc' \in {"forcing", "done"}
  <2>1. OutcomeAt(sm'.state) # "HandoffToSecretPhase"
    BY <1>4 DEF OutcomeAt, Collecting
  <2> QED BY <2>1 DEF ForceExit, Inv, HandedOver
<1>7. UNCHANGED <<event, site, gate, last>>
  BY DEF ForceExit
<1> QED
  BY <1>4, <1>5, <1>6, <1>7
     DEF Inv, Typed, AtGates, InGateCall, InCall, InSetupCall, HandedOver

(* The steps inside a screen, and those that call step_recoverable for     *)
(* anything but a gate.                                                    *)
LEMMA ScreenInv ==
  ASSUME Inv,
         \/ \E kind \in {"Continue", "Escape"} : AnswerErrorScreen(kind)
         \/ \E i \in Items : ToggleItem(i)
         \/ BeginCeremony \/ LeavePrepare
         \/ RunSelfTest \/ ArmSkip \/ AcknowledgeRefusal
         \/ \E words \in WordCount, mode \in EntropyMode : CommitSetupScreen(words, mode)
         \/ BackFromSetup \/ DisableWatchdog \/ DisableFails
         \/ GraphicsAvailable \/ EnterSetup
  PROVE  Inv'
<1> USE DEF Inv, Typed, AtGates, InGateCall, InCall, InSetupCall, HandedOver
<1>1. CASE \E kind \in {"Continue", "Escape"} : AnswerErrorScreen(kind)
  BY <1>1, EventsSent DEF AnswerErrorScreen, Ready, Clean, GateError
<1>2. CASE \E i \in Items : ToggleItem(i)
  BY <1>2 DEF ToggleItem
<1>3. CASE BeginCeremony \/ LeavePrepare \/ DisableWatchdog
  BY <1>3, EventsSent DEF BeginCeremony, LeavePrepare, DisableWatchdog, Drive
<1>4. CASE RunSelfTest \/ ArmSkip \/ AcknowledgeRefusal
  BY <1>4 DEF RunSelfTest, ArmSkip, AcknowledgeRefusal, Goto, Clean
<1>5. CASE \E words \in WordCount, mode \in EntropyMode : CommitSetupScreen(words, mode)
  BY <1>5, EventsSent DEF CommitSetupScreen, Drive, Ready, Clean
<1>6. CASE BackFromSetup
  BY <1>6, EventsSent DEF BackFromSetup, Drive, Ready, Clean
<1>7. CASE DisableFails
  BY <1>7 DEF DisableFails
<1>8. CASE GraphicsAvailable
  BY <1>8 DEF GraphicsAvailable, Clean, Gates
<1>9. CASE EnterSetup
  <2>1. CASE ResultsInHand
    <3>1. Ready
      BY <1>9, <2>1 DEF EnterSetup, ResultsInHand, AutomaticGates, Gates, Ready, Behind
    <3> QED BY <1>9, <2>1, <3>1 DEF EnterSetup, Goto, Ready, Clean, Collecting
  <2>2. CASE ~ResultsInHand
    BY <1>9, <2>2 DEF EnterSetup, Goto, Collecting
  <2> QED BY <2>1, <2>2
<1> QED BY <1>1, <1>2, <1>3, <1>4, <1>5, <1>6, <1>7, <1>8, <1>9

(* One case for each of the remaining actions. *)
LEMMA NextInv == Inv /\ [Next]_vars => Inv'
<1> SUFFICES ASSUME Inv, [Next]_vars PROVE Inv'
  OBVIOUS
<1>1. CASE UNCHANGED vars
  BY <1>1 DEF vars, Inv, Typed, AtGates, InGateCall, InCall, InSetupCall, HandedOver,
              Ready, Clean, GateError
<1>2. CASE Operator
  <2>1. CASE DevicePassed \/ DeviceFailed
    <3>1. /\ pc \in {"device", "selfTest"} /\ UNCHANGED <<sm, failures, outcome>>
          /\ \/ ReportCheck("GraphicsAndKeyboardSelfTest", "clean", Plain("CheckPassed"))
             \/ ReportCheck("GraphicsAndKeyboardSelfTest", "blocked",
                            CheckFailed("GraphicsOrKeyboard", "ReturnToMenu"))
      BY <2>1 DEF DevicePassed, DeviceFailed
    <3>2. /\ "GraphicsAndKeyboardSelfTest" \in Gates
          /\ "GraphicsOrKeyboard" \in FailureClasses("GraphicsAndKeyboardSelfTest")
      BY DEF Gates, FailureClasses
    <3> QED BY <3>1, <3>2, ReportInv DEF Inv, AtGates
  <2> QED BY <1>2, <2>1, ScreenInv DEF Operator
<1>3. CASE Driver
  <2>1. ASSUME NEW fails \in BOOLEAN, StepTransition(fails) PROVE Inv'
    BY <2>1, StepInv
  <2>2. CASE LandOpening
    <3>1. CASE Finish BY <2>2, <3>1, FinishInv DEF LandOpening, InCall
    <3>2. CASE Goto("prepare")
      BY <2>2, <3>2 DEF LandOpening, Goto, Inv, Typed, AtGates, InGateCall, InCall,
         InSetupCall, HandedOver
    <3> QED BY <2>2, <3>1, <3>2 DEF LandOpening
  <2>3. CASE LandAcknowledged
    <3>1. CASE Finish BY <2>3, <3>1, FinishInv DEF LandAcknowledged, InCall
    <3>2. CASE ~Finish
      BY <2>3, <3>2, EventsSent DEF LandAcknowledged, Drive, Inv, Typed, AtGates,
         InGateCall, InCall, InSetupCall, HandedOver
    <3> QED BY <3>1, <3>2
  <2>4. CASE LandTick
    <3>1. CASE Finish BY <2>4, <3>1, FinishInv DEF LandTick, InCall
    <3>2. CASE sm.state = "PlatformAndVirtualizationCheck" /\ Goto("gates")
      <4>1. /\ Behind("PlatformAndVirtualizationCheck") = {}
            /\ "PlatformAndVirtualizationCheck" \in Gates
        BY DEF Behind, Gates
      <4> QED
        BY <2>4, <3>2, <4>1 DEF LandTick, Goto, Inv, Typed, AtGates, InGateCall, InCall,
           InSetupCall, HandedOver, Clean
    <3> QED BY <2>4, <3>1, <3>2 DEF LandTick
  <2>5. CASE LandGate BY <2>5, LandGateInv
  <2>6. CASE LandSetupBack
    <3>1. CASE Finish BY <2>6, <3>1, FinishInv DEF LandSetupBack, InCall
    <3>2. CASE sm.state = "GraphicsAndKeyboardSelfTest" /\ Goto("gates")
      <4>1. /\ Behind("GraphicsAndKeyboardSelfTest") \subseteq First
            /\ "GraphicsAndKeyboardSelfTest" \in Gates
        BY DEF Behind, First, Gates
      <4>2. Clean(First) BY <2>6 DEF LandSetupBack, Inv, InSetupCall, InCall, Ready
      <4> QED
        BY <2>6, <3>2, <4>1, <4>2 DEF LandSetupBack, Goto, Inv, Typed, AtGates,
           InGateCall, InCall, InSetupCall, HandedOver, Clean
    <3> QED BY <2>6, <3>1, <3>2 DEF LandSetupBack
  <2>7. CASE LandFinal BY <2>7, FinishInv DEF LandFinal, InCall
  <2>8. ASSUME NEW g \in AutomaticGates, CheckClean(g) PROVE Inv'
    BY <2>8, ReportInv DEF CheckClean, AutomaticGates, Inv, AtGates
  <2>9. ASSUME NEW g \in Gates, NEW class \in FailureClasses(g), CheckBlocked(g, class)
        PROVE  Inv'
    BY <2>9, ReportInv DEF CheckBlocked, Inv, AtGates
  <2>10. ASSUME NEW f1 \in BOOLEAN, NEW f2 \in BOOLEAN, ForceExit(f1, f2) PROVE Inv'
    BY <2>10, ForceExitInv
  <2> QED
    BY <1>3, <2>1, <2>2, <2>3, <2>4, <2>5, <2>6, <2>7, <2>8, <2>9, <2>10, ScreenInv
       DEF Driver
<1> QED BY <1>1, <1>2, <1>3 DEF Next

(* A run is handed over only with the first three gates clean and the      *)
(* cryptographic one run, and clean too unless a re-assertion has failed.  *)
THEOREM HandoffIsGuarded == Spec => []HandoffGuarded
<1>1. Inv => HandoffGuarded
  BY DEF Inv, HandedOver, Ready, Clean, HandoffGuarded, First, Gates
<1> QED BY <1>1, InitInv, NextInv, PTL DEF Spec
=============================================================================
