---------------------- MODULE AleaStateMachine_proofs ----------------------
(***************************************************************************)
(* What one call of transition() does, for every machine and every event.  *)
(*                                                                         *)
(* The table of edges is looked at once, in EdgeFacts; the proofs that     *)
(* build on this module use what Taken says of an event that is taken and  *)
(* NotTaken of one that is not.                                            *)
(***************************************************************************)
EXTENDS AleaStateMachine, TLAPS

---------------------------------------------------------------------------
(* The states. *)

(* Membership facts that would otherwise be looked up in the enumerations. *)
LEMMA StateFacts ==
  /\ CeremonyStates \subseteq PostSecret
  /\ FatalChain \subseteq PostSecret
  /\ PostSecret \subseteq AppState
  /\ Gates \subseteq AppState \ PostSecret
  /\ {"Start", "SetupSelection", "MachineEntropyAcquisition",
      "PhysicalCollection", "FinalGenerationConfirmation", "ExitToFirmware",
      "PreSecretError"} \subseteq AppState \ PostSecret
  /\ (FatalChain \cup Terminal) \cap (CeremonyStates \cup AfterReveal) = {}
  /\ AfterReveal \subseteq CeremonyStates
  /\ "FinalEntropyDerivation" \in CeremonyStates
BY DEF CeremonyStates, FatalChain, PostSecret, CleanTeardown, AppState,
  PreSecretStates, Gates, Terminal, AfterReveal

Guarded == {"FinalGenerationConfirmation"} \cup CeremonyStates

(* What the table of plain edges has in it. *)
EdgeOK(x) ==
  /\ x[1] \notin Terminal \cup FatalChain
  /\ x[3] \in AppState \ {"PreSecretError", "MachineEntropyAcquisition", "PhysicalCollection"}
  /\ x[1] \in PostSecret => x[3] \in PostSecret
  /\ x[1] \notin PostSecret /\ x[3] \in PostSecret =>
       x[1] = "FinalGenerationConfirmation" /\ x[3] = "FinalEntropyDerivation"
  /\ x[3] = "FinalGenerationConfirmation" =>
       x[1] = "PhysicalCollection" /\ x[2] = "PhysicalBudgetMet"
  /\ x[3] \in CeremonyStates => x[1] \in Guarded
  /\ x[3] \in AfterReveal =>
       x[1] \in AfterReveal \/ (x[1] = "DisplayScrub" /\ x[2] = "ScrubComplete")

LEMMA EdgeFacts == \A x \in PlainEdges : EdgeOK(x)
<1> USE DEF EdgeOK, Guarded, AppState, PreSecretStates, PostSecret,
  CeremonyStates, CleanTeardown, FatalChain, Terminal, AfterReveal
<1>1. \A x \in GateEdges : EdgeOK(x)       BY DEF GateEdges
<1>2. \A x \in CollectionEdges : EdgeOK(x) BY DEF CollectionEdges
<1>3. \A x \in DisplayEdges : EdgeOK(x)    BY DEF DisplayEdges
<1>4. \A x \in ReentryEdges : EdgeOK(x)    BY DEF ReentryEdges
<1>5. \A x \in PassphraseEdges : EdgeOK(x) BY DEF PassphraseEdges
<1>6. \A x \in ClosingEdges : EdgeOK(x)    BY DEF ClosingEdges
<1>7. \A x \in BackEdges : EdgeOK(x)       BY DEF BackEdges
<1> QED
  <2> HIDE DEF EdgeOK, Guarded, AppState, PreSecretStates, PostSecret,
        CeremonyStates, CleanTeardown, FatalChain, Terminal, AfterReveal
  <2> QED BY <1>1, <1>2, <1>3, <1>4, <1>5, <1>6, <1>7 DEF PlainEdges

---------------------------------------------------------------------------
(* The events. *)

EventOK(e) ==
  /\ e.disp \in Disposition \cup {None}
  /\ e.disp # None => e.kind \in {"CheckFailed", "MachineEntropyFailed", "DerivationFailed"}
  /\ e.kind \in {"CheckFailed", "Fault"} => e.class \in ErrorClass
  /\ e.kind \in {"CheckFailed", "MachineEntropyFailed"} => e.disp \in Disposition
  /\ e.kind = "SetupCommitted" => e.words \in WordCount /\ e.mode \in EntropyMode

(* Every event carries the data its kind calls for.                        *)
LEMMA EventFacts == \A e \in Event : EventOK(e)
<1> USE DEF EventOK, EventRecord, Disposition, None
<1>1. \A k \in PlainKinds : EventOK(Plain(k))
  BY DEF PlainKinds, Plain
<1>2. \A c \in ErrorClass, d \in Disposition : EventOK(CheckFailed(c, d))
  BY DEF CheckFailed
<1>3. \A d \in Disposition : EventOK(MachineEntropyFailed(d)) /\ EventOK(DerivationFailed(d))
  BY DEF MachineEntropyFailed, DerivationFailed
<1>4. \A c \in ErrorClass : EventOK(Fault(c))
  BY DEF Fault
<1>5. \A w \in WordCount, md \in EntropyMode : EventOK(SetupCommitted(w, md))
  BY DEF SetupCommitted
<1> QED
  <2> HIDE DEF EventOK, EventRecord, Disposition, None
  <2> QED BY <1>1, <1>2, <1>3, <1>4, <1>5 DEF Event

---------------------------------------------------------------------------
(* One call of transition(). *)

Collecting == {"MachineEntropyAcquisition", "PhysicalCollection"}

(* What a call does when its event is not taken: the machine is terminal,  *)
(* in the fatal chain, refused by the watchdog, or has no legal edge.      *)
NotTaken(m, n) ==
  /\ n \in Machine
  /\ m.state \in PostSecret <=> n.state \in PostSecret
  /\ n.state \notin Collecting \cup Guarded

Commits(m, e) == m.state = "SetupSelection" /\ e.kind = "SetupCommitted"

(* What a legal edge does. *)
Taken(m, e, n) ==
  /\ n \in Machine
  /\ m.state \in PostSecret => n.state \in PostSecret
  /\ m.state \notin PostSecret /\ n.state \in PostSecret =>
       m.state = "FinalGenerationConfirmation" /\ n.state = "FinalEntropyDerivation"
  /\ \/ n.mode = m.mode /\ n.wordCount = m.wordCount /\ ~Commits(m, e)
     \/ n.mode \in EntropyMode /\ n.wordCount \in WordCount /\ Commits(m, e)
  /\ n.state \in Collecting => m.state \in Collecting \/ Commits(m, e)
  /\ n.state = "MachineEntropyAcquisition" => NeedsMachine(n.mode)
  /\ n.state = "PhysicalCollection" =>
       /\ NeedsPhysical(n.mode)
       /\ NeedsMachine(n.mode) =>
            m.state = "MachineEntropyAcquisition" /\ e.kind = "MachineEntropyComplete"
  /\ n.state = "FinalGenerationConfirmation" =>
       \/ m.state = "PhysicalCollection" /\ e.kind = "PhysicalBudgetMet"
       \/ /\ m.state = "MachineEntropyAcquisition" /\ e.kind = "MachineEntropyComplete"
          /\ ~NeedsPhysical(m.mode)
  /\ n.state \in CeremonyStates => m.state \in Guarded
  /\ n.state \in AfterReveal =>
       m.state \in AfterReveal \/ (m.state = "DisplayScrub" /\ e.kind = "ScrubComplete")

(* A record of the machine's fields is a machine when its state and class  *)
(* agree; At and Error make such records.                                  *)
LEMMA MachineFacts ==
  ASSUME NEW m \in Machine
  PROVE  /\ m.state \in AppState
         /\ m.state = "PreSecretError" => m.error \in ErrorClass
         /\ \A s \in AppState \ {"PreSecretError"} : At(m, s) \in Machine
         /\ \A c \in ErrorClass : Error(m, c) \in Machine
         /\ \A s : At(m, s).state = s /\ At(m, s).mode = m.mode
                     /\ At(m, s).wordCount = m.wordCount
         /\ \A c : Error(m, c).state = "PreSecretError" /\ Error(m, c).mode = m.mode
                     /\ Error(m, c).wordCount = m.wordCount
<1> DEFINE M == [state : AppState, error : ErrorClass \cup {None},
                 wordCount : WordCount \cup {None}, mode : EntropyMode \cup {None}]
<1>1. "PreSecretError" \in AppState BY StateFacts
<1>2. None \notin ErrorClass BY DEF None, ErrorClass
<1>3. m \in M /\ (m.state = "PreSecretError" <=> m.error # None)
  BY DEF Machine
<1>4. ASSUME NEW s PROVE /\ At(m, s).state = s /\ At(m, s).error = None
                         /\ At(m, s).mode = m.mode /\ At(m, s).wordCount = m.wordCount
                         /\ s \in AppState => At(m, s) \in M
  BY <1>3 DEF At
<1>5. ASSUME NEW c PROVE /\ Error(m, c).state = "PreSecretError" /\ Error(m, c).error = c
                         /\ Error(m, c).mode = m.mode /\ Error(m, c).wordCount = m.wordCount
                         /\ c \in ErrorClass => Error(m, c) \in M
  BY <1>1, <1>3 DEF Error
<1> QED BY <1>1, <1>2, <1>3, <1>4, <1>5 DEF Machine

(* The machine a ceremony starts with is one. *)
LEMMA InitialMachine == NewMachine \in Machine /\ NewMachine.state = "Start"
<1>1. "Start" \in AppState BY DEF AppState, PreSecretStates
<1>2. NewMachine.state = "Start" /\ NewMachine.error = None BY DEF NewMachine
<1> QED BY <1>1, <1>2 DEF NewMachine, Machine

(* A class a gate fails with resumes at that gate. *)
LEMMA ResumesAtGate ==
  \A g \in Gates : \A c \in FailureClasses(g) : c \in ErrorClass /\ ResumeState(c) = g
  BY DEF Gates, FailureClasses, ResumeState, ErrorClass

(* An event that is not taken leaves a machine that is neither collecting  *)
(* nor past the confirmation, on the side of the secret boundary it was on.*)
LEMMA NotTakenFacts ==
  ASSUME NEW m \in Machine, NEW e \in Event, NEW fails \in BOOLEAN,
         NEW n \in Transition(m, e, fails),
         fails \/ LegalEdge(m, e) = {}
  PROVE  NotTaken(m, n)
<1> DEFINE Astray == FatalChain \cup Terminal \cup {"PreSecretError"}
<1>1. EventOK(e) BY EventFacts
<1>2. Astray \subseteq AppState /\ Astray \cap (Collecting \cup Guarded) = {}
  BY DEF FatalChain, Terminal, Collecting, Guarded, CeremonyStates, AppState,
         PreSecretStates, PostSecret
<1>3. /\ "PreSecretError" \notin PostSecret \cup FatalChain \cup Terminal
      /\ "ExitToFirmware" \in Terminal \ PostSecret
      /\ "ScrubWhatIsReachable" \in FatalChain
      /\ FatalChain \subseteq PostSecret
  BY DEF FatalChain, Terminal, PostSecret, CeremonyStates, CleanTeardown
<1> HIDE DEF Astray
<1>4. SUFFICES n \in Machine /\ n.state \in Astray
                 /\ (m.state \in PostSecret <=> n.state \in PostSecret)
  BY <1>2 DEF NotTaken
<1>5. FatalChain \cup Terminal \cup {"PreSecretError"} = Astray BY DEF Astray
<1>6. CASE m.state \in Terminal
  BY <1>5, <1>6 DEF Transition
<1>7. CASE m.state \notin Terminal /\ m.state \in FatalChain
  <2>1. n = At(m, ChainNext(m.state)) BY <1>7 DEF Transition
  <2>2. ChainNext(m.state) \in FatalChain
    BY <1>7 DEF FatalChain, Terminal, ChainNext
  <2> QED BY <1>2, <1>3, <1>5, <1>7, <2>1, <2>2, MachineFacts
<1>8. CASE m.state \notin Terminal /\ m.state \notin FatalChain /\ fails
  <2>1. n = WatchdogFailure(m) BY <1>8 DEF Transition
  <2>2. "Watchdog" \in ErrorClass BY DEF ErrorClass
  <2> QED BY <1>2, <1>3, <1>5, <2>1, <2>2, MachineFacts DEF WatchdogFailure
<1>9. CASE m.state \notin Terminal /\ m.state \notin FatalChain /\ ~fails
  <2>1. n = IllegalEdge(m, e) BY <1>9 DEF Transition
  <2>2. CASE m.state \in PostSecret
    <3>1. n = At(m, "ScrubWhatIsReachable") BY <2>1, <2>2 DEF IllegalEdge
    <3> QED BY <1>2, <1>3, <1>5, <2>2, <3>1, MachineFacts
  <2>3. CASE m.state \notin PostSecret /\ e.disp = "ExitToFirmware"
    <3>1. n = At(m, "ExitToFirmware") BY <2>1, <2>3 DEF IllegalEdge, None
    <3> QED BY <1>2, <1>3, <1>5, <2>3, <3>1, MachineFacts
  <2>4. CASE m.state \notin PostSecret /\ e.disp # "ExitToFirmware"
    <3>1. \E c \in ErrorClass : n = Error(m, c)
      BY <1>1, <2>1, <2>4 DEF IllegalEdge, EventOK, Disposition, None, ErrorClass
    <3> QED BY <1>3, <1>5, <2>4, <3>1, MachineFacts
  <2> QED BY <2>2, <2>3, <2>4
<1> QED BY <1>6, <1>7, <1>8, <1>9

(* A plain edge of the table does what EdgeFacts says of it.               *)
LEMMA PlainEdgeTaken ==
  ASSUME NEW m \in Machine, NEW e \in Event, NEW x \in PlainEdges,
         x[1] = m.state, x[2] = e.kind
  PROVE  Taken(m, e, At(m, x[3]))
<1>1. EdgeOK(x) BY EdgeFacts
<1>2. ~Commits(m, e)
  BY DEF Commits, PlainEdges, GateEdges, CollectionEdges, DisplayEdges,
     ReentryEdges, PassphraseEdges, ClosingEdges, BackEdges
<1>3. x[3] \notin Collecting BY <1>1 DEF EdgeOK, Collecting
<1> QED BY <1>1, <1>2, <1>3, MachineFacts DEF Taken, EdgeOK, Collecting

(* So does every other legal edge.                                         *)
LEMMA LegalEdgeTaken ==
  ASSUME NEW m \in Machine, NEW e \in Event, NEW n \in LegalEdge(m, e)
  PROVE  Taken(m, e, n)
<1> DEFINE Elsewhere == {"PreSecretError", "ExitToFirmware", "SetupSelection"} \cup Gates
<1>1. EventOK(e) BY EventFacts
<1>2. /\ Elsewhere \cap (Collecting \cup Guarded \cup PostSecret \cup AfterReveal) = {}
      /\ {"MachineEntropyAcquisition", "SetupSelection", "PreSecretError"} \cap PostSecret = {}
      /\ {"MachineEntropyAcquisition", "SetupSelection", "PreSecretError"} \cap Gates = {}
      /\ Gates \cap PostSecret = {}
      /\ Elsewhere \subseteq AppState
  BY DEF Collecting, Guarded, PostSecret, CeremonyStates, CleanTeardown,
     FatalChain, AfterReveal, Gates, AppState, PreSecretStates
<1>3. ASSUME n \in Machine, n.state \in Elsewhere, m.state \notin PostSecret,
             n.mode = m.mode, n.wordCount = m.wordCount, ~Commits(m, e)
      PROVE  Taken(m, e, n)
  BY <1>2, <1>3 DEF Taken, Collecting, Guarded
<1>4. /\ "ExitToFirmware" \in Elsewhere \ {"PreSecretError"}
      /\ "PreSecretError" \in Elsewhere
      /\ \A c \in ErrorClass : ResumeState(c) \in Elsewhere \ {"PreSecretError"}
  BY DEF ResumeState, Gates
<1> HIDE DEF Elsewhere
<1>5. ASSUME NEW c \in ErrorClass, NEW d \in Disposition, ~Commits(m, e),
             m.state \notin PostSecret, n = CheckFailedTarget(m, c, d)
      PROVE  Taken(m, e, n)
  BY <1>2, <1>3, <1>4, <1>5, MachineFacts DEF CheckFailedTarget
<1>6. CASE \E x \in PlainEdges : x[1] = m.state /\ x[2] = e.kind /\ n = At(m, x[3])
  BY <1>6, PlainEdgeTaken
<1>7. CASE m.state \in Gates /\ e.kind = "CheckFailed" /\ n = CheckFailedTarget(m, e.class, e.disp)
  BY <1>1, <1>2, <1>5, <1>7 DEF EventOK, Commits
<1>8. CASE Commits(m, e) /\ n = CommitSetup(m, e)
  <2>1. e.words \in WordCount /\ e.mode \in EntropyMode BY <1>1, <1>8 DEF EventOK, Commits
  <2>2. /\ n.state = IF NeedsMachine(e.mode) THEN "MachineEntropyAcquisition"
                                             ELSE "PhysicalCollection"
        /\ n.error = None /\ n.mode = e.mode /\ n.wordCount = e.words
    BY <1>8 DEF CommitSetup
  <2>3. n.state \in Collecting /\ n.state \in AppState \ {"PreSecretError"}
    BY <2>2 DEF Collecting, AppState, PreSecretStates
  <2>4. n \in Machine
    BY <1>8, <2>1, <2>3 DEF CommitSetup, Machine
  <2>5. n.state \notin PostSecret \cup Guarded \cup AfterReveal
    BY <2>3 DEF Collecting, Guarded, PostSecret, CeremonyStates, CleanTeardown,
       FatalChain, AfterReveal
  <2>6. e.mode \in EntropyMode /\ ~NeedsMachine(e.mode) => NeedsPhysical(e.mode)
    BY DEF EntropyMode, NeedsMachine, NeedsPhysical
  <2>7. m.state \notin PostSecret BY <1>2, <1>8 DEF Commits
  <2> QED
    BY <1>8, <2>1, <2>2, <2>3, <2>4, <2>5, <2>6, <2>7 DEF Taken, Guarded
<1>9. CASE /\ m.state = "MachineEntropyAcquisition"
           /\ e.kind = "MachineEntropyComplete" /\ n = At(m, AfterMachine(m))
  <2>1. AfterMachine(m) = IF NeedsPhysical(m.mode) THEN "PhysicalCollection"
                                                   ELSE "FinalGenerationConfirmation"
    BY DEF AfterMachine
  <2>2. {"PhysicalCollection", "FinalGenerationConfirmation"} \subseteq AppState \ {"PreSecretError"}
    BY DEF AppState, PreSecretStates
  <2>3. {"PhysicalCollection", "FinalGenerationConfirmation"}
          \cap (PostSecret \cup CeremonyStates \cup AfterReveal) = {}
    BY DEF PostSecret, CeremonyStates, CleanTeardown, FatalChain, AfterReveal
  <2>4. ~Commits(m, e) BY <1>9 DEF Commits
  <2> QED
    BY <1>2, <1>9, <2>1, <2>2, <2>3, <2>4, MachineFacts DEF Taken, Collecting
<1>10. CASE /\ m.state = "MachineEntropyAcquisition"
            /\ e.kind = "MachineEntropyFailed" /\ n = CheckFailedTarget(m, "MachineSource", e.disp)
  <2>1. "MachineSource" \in ErrorClass BY DEF ErrorClass
  <2> QED BY <1>1, <1>2, <1>5, <1>10, <2>1 DEF EventOK, Commits
<1>11. CASE m.state = "FinalEntropyDerivation" /\ n = At(m, "ScrubWhatIsReachable")
  <2>1. /\ m.state \in PostSecret /\ ~Commits(m, e)
        /\ "ScrubWhatIsReachable" \in PostSecret \ {"PreSecretError"}
    BY <1>11 DEF PostSecret, CeremonyStates, FatalChain, Commits
  <2>2. "ScrubWhatIsReachable" \notin Collecting \cup Guarded \cup AfterReveal
    BY DEF Collecting, Guarded, CeremonyStates, AfterReveal
  <2> QED
    BY <1>11, <2>1, <2>2, MachineFacts, StateFacts DEF Taken, Collecting, Guarded
<1>12. CASE m.state = "PreSecretError" /\ n = At(m, ResumeState(m.error))
  BY <1>2, <1>3, <1>4, <1>12, MachineFacts DEF Commits
<1> QED BY <1>6, <1>7, <1>8, <1>9, <1>10, <1>11, <1>12 DEF LegalEdge, Commits

(* A call with a legal edge takes it: neither a terminal state nor the     *)
(* fatal chain has one.                                                    *)
LEMMA LegalCallInEdges ==
  ASSUME NEW m \in Machine, NEW e \in Event, LegalEdge(m, e) # {}
  PROVE  Transition(m, e, FALSE) = LegalEdge(m, e)
<1>1. m.state \notin Terminal \cup FatalChain
  <2>1. \A x \in PlainEdges : x[1] \notin Terminal \cup FatalChain
    BY EdgeFacts DEF EdgeOK
  <2>2. Gates \cap (Terminal \cup FatalChain) = {}
    BY DEF Gates, Terminal, FatalChain
  <2>3. {"SetupSelection", "MachineEntropyAcquisition", "FinalEntropyDerivation",
         "PreSecretError"} \cap (Terminal \cup FatalChain) = {}
    BY DEF Terminal, FatalChain
  <2> QED BY <2>1, <2>2, <2>3 DEF LegalEdge
<1> QED BY <1>1 DEF Transition

(* So it does what LegalEdgeTaken says.                                    *)
LEMMA LegalCallFacts ==
  ASSUME NEW m \in Machine, NEW e \in Event, NEW n \in Transition(m, e, FALSE),
         LegalEdge(m, e) # {}
  PROVE  Taken(m, e, n)
  BY LegalCallInEdges, LegalEdgeTaken

(* Taken or not, a call keeps a machine a machine, and only a commit of    *)
(* the setup screen starts the collection of entropy.                      *)
LEMMA CallFacts ==
  ASSUME NEW m \in Machine, NEW e \in Event, NEW fails \in BOOLEAN,
         NEW n \in Transition(m, e, fails)
  PROVE  /\ n \in Machine
         /\ n.state \in Collecting => m.state \in Collecting \/ Commits(m, e)
<1>1. CASE fails \/ LegalEdge(m, e) = {} BY <1>1, NotTakenFacts DEF NotTaken
<1>2. CASE ~fails /\ LegalEdge(m, e) # {} BY <1>2, LegalCallFacts DEF Taken
<1> QED BY <1>1, <1>2
=============================================================================
