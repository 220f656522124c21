-------------------------- MODULE AnyDriver_proofs --------------------------
(***************************************************************************)
(* What the program keeps to whatever its two drivers do.                  *)
(*                                                                         *)
(* The first part is about the state machine under an open environment,    *)
(* for any events and any watchdog failures: its typing, the secret        *)
(* boundary, the stages of the mode and the display scrub; and, with a     *)
(* correct driver and a watchdog that answers, the gates before setup.     *)
(*                                                                         *)
(* The second part is about the process around the drivers (Ceremony), for *)
(* every set of categories, every number of pages and every number of      *)
(* ceremonies: of the secret phase it uses only the contract SecretPhase.  *)
(***************************************************************************)
EXTENDS OpenMachine, Ceremony, AleaStateMachine_proofs

---------------------------------------------------------------------------
(* The steps of OpenMachine. *)

LostCall(e) ==
  /\ sm' \in Machine /\ NotTaken(sm, sm')
  /\ UNCHANGED <<verified, collected, hidden>>
  /\ steady' = FALSE

TakenCall(e) ==
  /\ Taken(sm, e, sm')
  /\ Observe(e)
  /\ steady' = (steady /\ Disciplined(e))

(* Every step is a call that is taken or one that is not.                  *)
LEMMA StepCases ==
  ASSUME sm \in Machine, Next
  PROVE  \E e \in Event : LostCall(e) \/ TakenCall(e)
<1>1. PICK e \in Event : LegalCall(e) \/ IllegalCall(e) \/ WatchdogFails(e)
  BY DEF Next
<1>2. CASE LegalCall(e)     BY <1>2, LegalCallFacts DEF LegalCall, TakenCall
<1>3. CASE IllegalCall(e)   BY <1>3, NotTakenFacts DEF IllegalCall, LostCall, NotTaken
<1>4. CASE WatchdogFails(e) BY <1>4, NotTakenFacts DEF WatchdogFails, LostCall, NotTaken
<1> QED BY <1>1, <1>2, <1>3, <1>4

(* Typing is inductive by itself: it is the only invariant StepCases needs.*)
LEMMA TypeStep == TypeOK /\ [Next]_vars => TypeOK'
<1> SUFFICES ASSUME TypeOK, [Next]_vars PROVE TypeOK'
  OBVIOUS
<1>1. CASE UNCHANGED vars BY <1>1 DEF vars, TypeOK
<1>2. ASSUME NEW e \in Event, LostCall(e) PROVE TypeOK'
  BY <1>2 DEF LostCall, TypeOK
<1>3. ASSUME NEW e \in Event, TakenCall(e) PROVE TypeOK'
  BY <1>3, Zenon DEF TakenCall, Taken, Observe, TypeOK, Stages
<1> QED BY <1>1, <1>2, <1>3, StepCases DEF TypeOK

(* Spec keeps its types, whatever is sent and whichever call fails.        *)
THEOREM TypeCorrect == Spec => []TypeOK
<1>1. Init => TypeOK BY InitialMachine DEF Init, TypeOK
<1> QED BY <1>1, TypeStep, PTL DEF Spec

---------------------------------------------------------------------------
(* The secret boundary. *)

(* Once a secret exists no step leads back to a menu, a gate or firmware.  *)
THEOREM BoundaryNeverCrossedBack == Spec => NoWayBackFromSecret
<1>1. TypeOK /\ [Next]_vars => [sm.state \in PostSecret => sm'.state \in PostSecret]_vars
  <2> SUFFICES ASSUME TypeOK, Next, sm.state \in PostSecret
               PROVE  sm'.state \in PostSecret
    BY DEF vars
  <2> QED BY StepCases DEF TypeOK, LostCall, NotTaken, TakenCall, Taken
<1> QED BY <1>1, TypeCorrect, PTL DEF Spec, NoWayBackFromSecret

(* The only step over the boundary is the final confirmation: nothing is   *)
(* derived that the operator has not asked for on that screen.             *)
THEOREM ConfirmationNeeded == Spec => SecretNeedsConfirmation
<1> DEFINE Confirmed ==
      (sm.state \notin PostSecret /\ sm'.state \in PostSecret) =>
         /\ sm.state = "FinalGenerationConfirmation"
         /\ sm'.state = "FinalEntropyDerivation"
<1>1. TypeOK /\ [Next]_vars => [Confirmed]_vars
  <2> SUFFICES ASSUME TypeOK, Next PROVE Confirmed
    BY DEF vars
  <2> QED BY StepCases DEF TypeOK, LostCall, NotTaken, TakenCall, Taken
<1> QED BY <1>1, TypeCorrect, PTL DEF Spec, SecretNeedsConfirmation

---------------------------------------------------------------------------
(* The stages of the mode. *)

(* EveryStageCollected is not inductive: the machine stage is done before  *)
(* the physical one starts, so what each collecting state already owes and *)
(* has must be said too.                                                   *)
StagesInv ==
  /\ sm.state \in Collecting \cup Guarded =>
       sm.mode \in EntropyMode /\ sm.wordCount \in WordCount
  /\ sm.state = "MachineEntropyAcquisition" => NeedsMachine(sm.mode)
  /\ sm.state = "PhysicalCollection" =>
       NeedsPhysical(sm.mode) /\ (NeedsMachine(sm.mode) => "machine" \in collected)
  /\ sm.state \in Guarded => StagesOfMode(sm.mode) \subseteq collected

(* A step keeps it.                                                        *)
LEMMA StagesStep == TypeOK /\ StagesInv /\ [Next]_vars => StagesInv'
<1> SUFFICES ASSUME TypeOK, StagesInv, [Next]_vars PROVE StagesInv'
  OBVIOUS
<1>1. CASE UNCHANGED vars BY <1>1 DEF vars, StagesInv
<1>2. ASSUME NEW e \in Event, LostCall(e) PROVE StagesInv'
  BY <1>2 DEF LostCall, NotTaken, StagesInv, Collecting
<1>3. ASSUME NEW e \in Event, TakenCall(e) PROVE StagesInv'
  <2>1. Taken(sm, e, sm') /\ Observe(e) BY <1>3 DEF TakenCall
  <2>2. CASE Commits(sm, e)
    <3>1. sm.state \notin Guarded \cup Collecting
      BY <2>2 DEF Commits, Guarded, Collecting, CeremonyStates
    <3>2. sm'.state \notin Guarded
      BY <2>1, <3>1 DEF Taken, Guarded, Collecting
    <3>3. sm'.state = "PhysicalCollection" => ~NeedsMachine(sm'.mode)
      BY <2>1, <3>1 DEF Taken, Collecting
    <3> QED BY <2>1, <2>2, <3>2, <3>3 DEF Taken, StagesInv
  <2>3. CASE ~Commits(sm, e)
    <3>1. sm'.mode = sm.mode /\ sm'.wordCount = sm.wordCount
      BY <2>1, <2>3 DEF Taken
    <3>2. collected \subseteq collected'
      BY <2>1, <2>3 DEF Observe, Commits
    <3>3. sm'.state \in Collecting => sm.state \in Collecting
      BY <2>1, <2>3 DEF Taken
    <3>4. sm'.state = "PhysicalCollection" =>
            NeedsPhysical(sm'.mode) /\ (NeedsMachine(sm'.mode) => "machine" \in collected')
      BY <2>1, <2>3 DEF Taken, Observe, Commits, Stages
    <3>5. CASE sm.state = "PhysicalCollection" /\ e.kind = "PhysicalBudgetMet"
      <4>1. collected' = collected \cup {"physical"}
        BY <2>1, <3>5 DEF Observe, Commits
      <4>2. StagesOfMode(sm'.mode) \subseteq collected'
        BY <3>1, <3>5, <4>1 DEF StagesInv, StagesOfMode
      <4> QED BY <2>1, <3>1, <3>4, <3>5, <4>2 DEF StagesInv, Taken, Collecting
    <3>6. CASE /\ sm.state = "MachineEntropyAcquisition"
               /\ e.kind = "MachineEntropyComplete" /\ ~NeedsPhysical(sm.mode)
      <4>1. collected' = collected \cup {"machine"}
        BY <2>1, <3>6 DEF Observe, Commits
      <4>2. StagesOfMode(sm'.mode) \subseteq collected'
        BY <3>1, <3>6, <4>1 DEF StagesOfMode
      <4> QED BY <2>1, <3>1, <3>4, <3>6, <4>2 DEF StagesInv, Taken, Collecting
    <3>7. ASSUME sm'.state \in Guarded, sm.state \in Guarded
          PROVE  StagesOfMode(sm'.mode) \subseteq collected'
      BY <3>1, <3>2, <3>7 DEF StagesInv
    <3>8. sm'.state \in Guarded =>
            \/ sm.state \in Guarded
            \/ sm.state = "PhysicalCollection" /\ e.kind = "PhysicalBudgetMet"
            \/ /\ sm.state = "MachineEntropyAcquisition"
               /\ e.kind = "MachineEntropyComplete" /\ ~NeedsPhysical(sm.mode)
      BY <2>1 DEF Taken, Guarded
    <3> QED
      BY <2>1, <3>1, <3>3, <3>4, <3>5, <3>6, <3>7, <3>8 DEF StagesInv, Taken, Collecting
  <2> QED BY <2>2, <2>3
<1> QED BY <1>1, <1>2, <1>3, StepCases DEF TypeOK

(* Whoever confirms, derives or shows anything has been through every      *)
(* stage of the mode committed last.                                       *)
THEOREM StagesCollected == Spec => []EveryStageCollected
<1>1. Init => StagesInv
  BY DEF Init, NewMachine, StagesInv, Collecting, Guarded, CeremonyStates
<1>2. StagesInv => EveryStageCollected
  BY DEF StagesInv, EveryStageCollected, Guarded
<1> QED BY <1>1, <1>2, StagesStep, TypeCorrect, PTL DEF Spec

---------------------------------------------------------------------------
(* The display scrub. *)

(* A step into the re-entry or any screen after it comes from another such *)
(* screen or from the completed scrub; none of them is MnemonicDisplay.    *)
LEMMA HiddenStep ==
  TypeOK /\ WordsHiddenDuringReentry /\ [Next]_vars => WordsHiddenDuringReentry'
<1> SUFFICES ASSUME TypeOK, WordsHiddenDuringReentry, [Next]_vars
             PROVE  WordsHiddenDuringReentry'
  OBVIOUS
<1>1. CASE UNCHANGED vars BY <1>1 DEF vars, WordsHiddenDuringReentry
<1>2. ASSUME NEW e \in Event, LostCall(e) PROVE WordsHiddenDuringReentry'
  BY <1>2, StateFacts DEF LostCall, NotTaken, Guarded, WordsHiddenDuringReentry
<1>3. ASSUME NEW e \in Event, TakenCall(e) PROVE WordsHiddenDuringReentry'
  <2>1. "MnemonicDisplay" \notin AfterReveal BY DEF AfterReveal
  <2> QED BY <1>3, <2>1 DEF TakenCall, Taken, Observe, TypeOK, WordsHiddenDuringReentry
<1> QED BY <1>1, <1>2, <1>3, StepCases DEF TypeOK

(* From the re-entry on, the words are no longer on the screen.            *)
THEOREM HiddenDuringReentry == Spec => []WordsHiddenDuringReentry
<1>1. Init => WordsHiddenDuringReentry
  BY DEF Init, NewMachine, WordsHiddenDuringReentry, AfterReveal
<1> QED BY <1>1, HiddenStep, TypeCorrect, PTL DEF Spec

---------------------------------------------------------------------------
(* The gates. *)

(* The gates passed by whoever stands at state s, if every call so far was *)
(* a correct driver's and every re-assertion was answered.                 *)
OwedAt(s) ==
  CASE s = "ConsoleTopologyCheck"        -> {"PlatformAndVirtualizationCheck"}
    [] s = "GraphicsAndKeyboardSelfTest" ->
         {"PlatformAndVirtualizationCheck", "ConsoleTopologyCheck"}
    [] s = "CryptographicSelfTest"       -> Gates \ {"CryptographicSelfTest"}
    [] s \in {"SetupSelection", "FinalGenerationConfirmation"} \cup Collecting -> Gates
    [] OTHER                             -> {}

(* An error screen owes what the state it resumes at owes: a failed check  *)
(* resumes at its own gate, which owes only the gates before it.           *)
Owed(m) == OwedAt(IF m.state = "PreSecretError" THEN ResumeState(m.error) ELSE m.state)

GatesInv == steady => Owed(sm) \subseteq verified

(* A plain edge goes to a state that owes no more than its own did, except *)
(* for the gate it passes.                                                 *)
EdgeOwes(x) ==
  /\ x[2] # "CheckFailed"
  /\ x[3] # "PreSecretError"
  /\ x[1] = "PreSecretError" => OwedAt(x[3]) = {}
  /\ OwedAt(x[3]) \subseteq
       OwedAt(x[1]) \cup (IF x[1] \in Gates /\ x[2] = "CheckPassed" THEN {x[1]} ELSE {})

LEMMA EdgesOwe == \A x \in PlainEdges : EdgeOwes(x)
<1> USE DEF EdgeOwes, OwedAt, Gates, Collecting
<1>1. \A x \in GateEdges : EdgeOwes(x)       BY DEF GateEdges
<1>2. \A x \in CollectionEdges : EdgeOwes(x) BY DEF CollectionEdges
<1>3. \A x \in DisplayEdges : EdgeOwes(x)    BY DEF DisplayEdges
<1>4. \A x \in ReentryEdges : EdgeOwes(x)    BY DEF ReentryEdges
<1>5. \A x \in PassphraseEdges : EdgeOwes(x) BY DEF PassphraseEdges
<1>6. \A x \in ClosingEdges : EdgeOwes(x)    BY DEF ClosingEdges
<1>7. \A x \in BackEdges : EdgeOwes(x)       BY DEF BackEdges
<1> QED
  <2> HIDE DEF EdgeOwes, OwedAt, Gates, Collecting
  <2> QED BY <1>1, <1>2, <1>3, <1>4, <1>5, <1>6, <1>7 DEF PlainEdges

(* A gate does not owe itself. *)
LEMMA GateOwes == \A g \in Gates : g \notin OwedAt(g)
  BY DEF Gates, OwedAt, Collecting

(* The call of a correct driver keeps GatesInv.                            *)
LEMMA GatesTaken ==
  ASSUME sm \in Machine, verified \subseteq Gates, NEW e \in Event, Disciplined(e),
         sm' \in LegalEdge(sm, e), Observe(e), Owed(sm) \subseteq verified
  PROVE  Owed(sm') \subseteq verified'
<1>1. EventOK(e) BY EventFacts
<1>2. /\ OwedAt("ExitToFirmware") = {} /\ OwedAt("ScrubWhatIsReachable") = {}
      /\ \A s : OwedAt(s) \subseteq Gates
      /\ \A s \in {"SetupSelection", "FinalGenerationConfirmation"} \cup Collecting :
           OwedAt(s) = Gates /\ s # "PreSecretError"
  BY DEF OwedAt, Gates, Collecting
<1>3. e.kind # "CheckFailed" => verified \subseteq verified'
  BY DEF Observe
<1>4. sm.state # "PreSecretError" => Owed(sm) = OwedAt(sm.state)
  BY DEF Owed
<1>5. \A s : s # "PreSecretError" => Owed(At(sm, s)) = OwedAt(s)
  BY DEF Owed, At
<1>6. \A c : Owed(Error(sm, c)) = OwedAt(ResumeState(c))
  BY MachineFacts DEF Owed, Error, Machine
<1>7. CASE \E x \in PlainEdges : x[1] = sm.state /\ x[2] = e.kind /\ sm' = At(sm, x[3])
  <2>1. PICK x \in PlainEdges : x[1] = sm.state /\ x[2] = e.kind /\ sm' = At(sm, x[3])
    BY <1>7
  <2>2. EdgeOwes(x) BY EdgesOwe
  <2>3. Owed(sm') = OwedAt(x[3]) BY <1>5, <2>1, <2>2 DEF EdgeOwes
  <2>4. CASE sm.state = "PreSecretError" BY <2>1, <2>2, <2>3, <2>4 DEF EdgeOwes
  <2>5. CASE sm.state # "PreSecretError"
    <3>1. x[1] \in Gates /\ x[2] = "CheckPassed" => sm.state \in verified'
      BY <2>1 DEF Observe
    <3> QED BY <1>3, <1>4, <2>1, <2>2, <2>3, <2>5, <3>1 DEF EdgeOwes
  <2> QED BY <2>4, <2>5
<1>8. CASE sm.state \in Gates /\ e.kind = "CheckFailed"
           /\ sm' = CheckFailedTarget(sm, e.class, e.disp)
  <2>1. verified' = verified \ {sm.state} BY <1>8 DEF Observe
  <2>2. ResumeState(e.class) = sm.state /\ sm.state \notin OwedAt(sm.state)
    BY <1>8, GateOwes, ResumesAtGate DEF Disciplined
  <2>3. sm.state # "PreSecretError" BY <1>8 DEF Gates
  <2> QED BY <1>2, <1>4, <1>5, <1>6, <1>8, <2>1, <2>2, <2>3 DEF CheckFailedTarget
<1>9. CASE sm.state = "SetupSelection" /\ e.kind = "SetupCommitted" /\ sm' = CommitSetup(sm, e)
  <2>1. sm'.state \in Collecting BY <1>9 DEF CommitSetup, Collecting
  <2> QED BY <1>2, <1>3, <1>4, <1>9, <2>1 DEF Owed
<1>10. CASE /\ sm.state = "MachineEntropyAcquisition"
            /\ e.kind = "MachineEntropyComplete" /\ sm' = At(sm, AfterMachine(sm))
  BY <1>2, <1>3, <1>4, <1>5, <1>10 DEF AfterMachine, Collecting
<1>11. CASE /\ sm.state = "MachineEntropyAcquisition"
            /\ e.kind = "MachineEntropyFailed"
            /\ sm' = CheckFailedTarget(sm, "MachineSource", e.disp)
  <2>1. verified \subseteq verified' /\ Gates \subseteq verified
    BY <1>2, <1>3, <1>4, <1>11 DEF Collecting
  <2>2. Owed(sm') \subseteq Gates BY <1>2 DEF Owed
  <2> QED BY <2>1, <2>2
<1>12. CASE sm' = At(sm, "ScrubWhatIsReachable")
  BY <1>2, <1>5, <1>12
<1>13. CASE sm.state = "PreSecretError" /\ e.kind = "Continue"
            /\ sm' = At(sm, ResumeState(sm.error))
  <2>1. ResumeState(sm.error) # "PreSecretError" BY DEF ResumeState
  <2>2. Owed(sm') = Owed(sm) BY <1>5, <1>13, <2>1 DEF Owed
  <2> QED BY <1>3, <1>13, <2>2
<1> QED BY <1>7, <1>8, <1>9, <1>10, <1>11, <1>12, <1>13 DEF LegalEdge

(* A correct driver with a watchdog that answers reaches the setup screen  *)
(* only with all four gates passed, after any failures, retries and        *)
(* goings back.                                                            *)
THEOREM GatesPassedBeforeSetup == Spec => []GatesBeforeSetup
<1>1. Init => GatesInv
  BY DEF Init, NewMachine, GatesInv, Owed, OwedAt, Collecting
<1>2. TypeOK /\ GatesInv /\ [Next]_vars => GatesInv'
  <2> SUFFICES ASSUME TypeOK, GatesInv, [Next]_vars, steady' PROVE Owed(sm') \subseteq verified'
    BY DEF GatesInv
  <2>1. CASE UNCHANGED vars BY <2>1 DEF vars, GatesInv
  <2>2. ASSUME NEW e \in Event, LegalCall(e) PROVE Owed(sm') \subseteq verified'
    <3>1. steady /\ Disciplined(e) /\ Observe(e) /\ LegalEdge(sm, e) # {}
      BY <2>2 DEF LegalCall
    <3>2. sm' \in LegalEdge(sm, e)
      BY <2>2, LegalCallInEdges DEF LegalCall, TypeOK
    <3> QED BY <3>1, <3>2, GatesTaken DEF GatesInv, TypeOK
  <2> QED BY <2>1, <2>2 DEF Next, IllegalCall, WatchdogFails
<1>3. TypeOK /\ GatesInv => GatesBeforeSetup
  <2>1. OwedAt("SetupSelection") = Gates BY DEF OwedAt
  <2>2. sm.state = "SetupSelection" => Owed(sm) = OwedAt("SetupSelection") BY DEF Owed
  <2> QED BY <2>1, <2>2 DEF GatesInv, GatesBeforeSetup, TypeOK
<1> QED BY <1>1, <1>2, <1>3, TypeCorrect, PTL DEF Spec

---------------------------------------------------------------------------
(* The process.  None of its properties is inductive: what a panic or      *)
(* another image finds at one place depends on where the program has come  *)
(* from.  IInv says of each place what is in memory there.                 *)

(* The places at which this ceremony has an arena, in their order. *)
WithArena == {"created", "phase", "returned", "unregistered"}

(* The places that are left for good. *)
Ended == {"panicked", "stopped"}

(* Sessions are counted up, and from the hand-over on the gates are those  *)
(* of the ceremony that is running, in the mode they were run in.          *)
Counted ==
  /\ session \in Nat
  /\ place \in {"gates", "handoff"} \cup WithArena => session # 0
  /\ place \in {"handoff", "created", "phase"} =>
       /\ gated.session = session
       /\ gated.crypto = "clean" \/ ~gated.answered
       /\ mode.format # "BltOnly" /\ mode.size = OpenedMode.size

(* Outside a ceremony there is no arena, no registration and no secret. *)
Quiet ==
  place \notin WithArena \cup Ended =>
    arena = NoArena /\ registered = NoArena /\ held = {}

(* The arena's life inside a ceremony. *)
ArenaLife ==
  /\ place \in {"created", "phase", "returned"} => arena = session
  /\ place \in {"created", "unregistered"} => registered = NoArena
  /\ place \in {"phase", "returned", "stopped"} => registered = arena
  /\ place \in {"created", "returned", "unregistered"} => held = {}

IInv == Counted /\ Quiet /\ ArenaLife /\ NeverDangling /\ PanicLeavesArenaClean

(* The first state, with no ceremony begun, satisfies IInv. *)
LEMMA InitIInv == ProgramInit => IInv
  BY DEF ProgramInit, IInv, Counted, Quiet, ArenaLife, NeverDangling, PanicLeavesArenaClean,
         WithArena, Ended, NoArena

(* The steps of the menu, and those of a ceremony up to the hand-over:     *)
(* none of them touches what is secret.                                    *)
Outside ==
  \/ \E opened \in BOOLEAN : OpenGraphics(opened)
  \/ AcknowledgeRefusal \/ Exit
  \/ \E item \in {"learn", "selfcheck", "about"} : OpenItem(item)
  \/ LeaveItem \/ NextPage \/ LeavePages
  \/ \E c \in Categories : OpenCategory(c)
  \/ \E started \in BOOLEAN : StartVerifier(started)
  \/ \E left \in Modes : VerifierExits(left)
  \/ \E crypto \in {"clean", "blocked"}, answered \in BOOLEAN : HandOff(crypto, answered)
  \/ Generate \/ LeaveGates

LEMMA OutsideIInv == IInv /\ Outside => IInv'
<1> SUFFICES ASSUME IInv, Outside PROVE IInv'
  OBVIOUS
<1>1. UNCHANGED <<arena, registered, held>>
  BY DEF Outside, OpenGraphics, AcknowledgeRefusal, Exit, OpenItem, LeaveItem, NextPage,
         LeavePages, OpenCategory, StartVerifier, VerifierExits, Generate, HandOff,
         LeaveGates, phase
<1>2. place \notin WithArena \cup Ended /\ place' \notin WithArena \cup Ended
  BY DEF Outside, OpenGraphics, AcknowledgeRefusal, Exit, OpenItem, LeaveItem, NextPage,
         LeavePages, OpenCategory, StartVerifier, VerifierExits, Generate, HandOff,
         LeaveGates, Goto, WithArena, Ended
<1>3. Counted'
  BY DEF IInv, Counted, Outside, OpenGraphics, AcknowledgeRefusal, Exit, OpenItem, LeaveItem,
         NextPage, LeavePages, OpenCategory, StartVerifier, VerifierExits, Generate, HandOff,
         LeaveGates, Goto, WithArena, GraphicsAvailable
<1> QED
  BY <1>1, <1>2, <1>3
     DEF IInv, Quiet, ArenaLife, NeverDangling, PanicLeavesArenaClean, WithArena, Ended

(* The phase keeps to its contract: it returns only with everything empty. *)
LEMMA RunPhaseIInv == IInv /\ RunPhase => IInv'
<1> SUFFICES ASSUME IInv, RunPhase PROVE IInv'
  OBVIOUS
<1>1. /\ place = "phase" /\ place' \in {"phase", "returned", "stopped"}
      /\ UNCHANGED <<mode, session, gated, arena, registered>>
  BY DEF RunPhase
<1>2. place' = "returned" => held' = {}
  BY DEF RunPhase, Phase!Return
<1> QED
  BY <1>1, <1>2
     DEF IInv, Counted, Quiet, ArenaLife, NeverDangling, PanicLeavesArenaClean, WithArena, Ended

(* Every step keeps IInv: one case for each action with an effect on what  *)
(* is secret, one for all the others together.                             *)
LEMMA NextIInv == IInv /\ [ProgramNext]_programVars => IInv'
<1> SUFFICES ASSUME IInv, [ProgramNext]_programVars PROVE IInv'
  OBVIOUS
<1> USE DEF IInv, Counted, Quiet, ArenaLife, NeverDangling, PanicLeavesArenaClean,
            WithArena, Ended, NoArena
<1>1. CASE Outside
  BY <1>1, OutsideIInv
<1>2. CASE CreateArena
  BY <1>2 DEF CreateArena, Goto, phase
<1>3. CASE RegisterAndBegin
  BY <1>3 DEF RegisterAndBegin, Goto
<1>4. CASE RunPhase
  BY <1>4, RunPhaseIInv
<1>5. CASE Unregister
  BY <1>5 DEF Unregister, Goto, phase
<1>6. CASE ReturnFromPhase
  BY <1>6 DEF ReturnFromPhase
<1>7. CASE Panic
  BY <1>7 DEF Panic, Program
<1>8. CASE UNCHANGED programVars
  BY <1>8 DEF programVars, launcher, phase
<1> QED
  BY <1>1, <1>2, <1>3, <1>4, <1>5, <1>6, <1>7, <1>8 DEF ProgramNext, Outside

(* So IInv holds in every state of the program. *)
THEOREM Inductive == ProgramSpec => []IInv
  BY InitIInv, NextIInv, PTL DEF ProgramSpec

(* Whenever the program panics, in whichever ceremony and at whichever     *)
(* step, the registered arena is the one on the stack and is empty         *)
(* afterwards.                                                             *)
THEOREM PanicClean == ProgramSpec => []PanicLeavesArenaClean
<1>1. IInv => PanicLeavesArenaClean
  BY DEF IInv
<1> QED
  BY <1>1, Inductive, PTL

(* PANIC_SCRUB_ARENA never points to an arena that is gone. *)
THEOREM RegistrationLive == ProgramSpec => []NeverDangling
<1>1. IInv => NeverDangling
  BY DEF IInv
<1> QED
  BY <1>1, Inductive, PTL

(* Neither the firmware the program returns to nor the verifier it starts  *)
(* finds anything of a ceremony, after any number of them.                 *)
THEOREM OthersClean == ProgramSpec => []OthersFindNothing
<1>1. IInv => OthersFindNothing
  BY DEF IInv, Quiet, OthersFindNothing, WithArena, Ended
<1> QED
  BY <1>1, Inductive, PTL

(* A secret phase runs only behind a gate run of its own ceremony, whose   *)
(* cryptographic check was passed if every re-assertion was answered, and  *)
(* on a screen that is linear and of the size the session draws with,      *)
(* after any number of ceremonies and whatever modes the verifiers left.   *)
THEOREM FreshGates == ProgramSpec => []SecretBehindFreshGates
<1>1. IInv => SecretBehindFreshGates
  BY DEF IInv, Counted, SecretBehindFreshGates
<1> QED
  BY <1>1, Inductive, PTL
=============================================================================
