------------------------- MODULE SecretFlow_proofs -------------------------
(***************************************************************************)
(* The secret-phase driver, for phrases, passphrases and approved sources  *)
(* of any size, any number of setup commits, and failures or none.         *)
(*                                                                         *)
(* Two facts carry the proofs.  Every call of transition() the driver      *)
(* makes leads along the edge it names, or to one of two states that       *)
(* neither collect, display nor verify (Leads, Lost); so what a property   *)
(* says of a state only has to be known on the edges that enter it.  And   *)
(* each store is empty outside the stretch of the ceremony that uses it,   *)
(* which the invariant says store by store.                                *)
(***************************************************************************)
EXTENDS SecretFlow, AleaStateMachine_proofs

---------------------------------------------------------------------------
(* The calls of transition() the driver makes. *)

(* Two edges of one state for one event lead to one state, and the events  *)
(* with data, or whose target depends on more, are not in the table.       *)
OneTarget(x) ==
  /\ \A y \in PlainEdges : y[1] = x[1] /\ y[2] = x[2] => y[3] = x[3]
  /\ x[2] \notin {"CheckFailed", "SetupCommitted", "MachineEntropyComplete",
                  "MachineEntropyFailed", "DerivationFailed"}
  /\ x[1] = "PreSecretError" => x[2] = "Escape"

(* The table of plain edges is functional. *)
LEMMA OneTargetFacts == \A x \in PlainEdges : OneTarget(x)
<1> USE DEF OneTarget, PlainEdges, GateEdges, CollectionEdges, DisplayEdges, ReentryEdges,
      PassphraseEdges, ClosingEdges, BackEdges
<1>1. \A x \in GateEdges : OneTarget(x) OBVIOUS
<1>2. \A x \in CollectionEdges : OneTarget(x) OBVIOUS
<1>3. \A x \in DisplayEdges : OneTarget(x) OBVIOUS
<1>4. \A x \in ReentryEdges : OneTarget(x) OBVIOUS
<1>5. \A x \in PassphraseEdges : OneTarget(x) OBVIOUS
<1>6. \A x \in ClosingEdges : OneTarget(x) OBVIOUS
<1>7. \A x \in BackEdges : OneTarget(x) OBVIOUS
<1> QED
  <2> HIDE DEF OneTarget, GateEdges, CollectionEdges, DisplayEdges, ReentryEdges,
      PassphraseEdges, ClosingEdges, BackEdges
  <2> QED BY <1>1, <1>2, <1>3, <1>4, <1>5, <1>6, <1>7 DEF PlainEdges

(* Where an event that is not taken leaves a driver that is neither        *)
(* stopped nor in the fatal chain.                                         *)
Lost(s) == IF s \in PostSecret THEN "ScrubWhatIsReachable" ELSE "PreSecretError"

(* The call leaves the machine in one of the states, its setup untouched.  *)
Leads(states) ==
  /\ sm' \in Machine
  /\ sm'.mode = sm.mode /\ sm'.wordCount = sm.wordCount
  /\ sm'.state \in states

(* A re-assertion that fails loses the event. *)
LEMMA SendLost ==
  ASSUME NEW m \in Machine, m.state \notin Terminal \cup FatalChain, NEW e,
         NEW n \in Transition(m, e, TRUE)
  PROVE  /\ n \in Machine /\ n.mode = m.mode /\ n.wordCount = m.wordCount
         /\ n.state = Lost(m.state)
<1>1. n = WatchdogFailure(m)
  BY DEF Transition
<1>2. "Watchdog" \in ErrorClass /\ "ScrubWhatIsReachable" \in AppState \ {"PreSecretError"}
  BY DEF ErrorClass, AppState, PostSecret, FatalChain
<1> QED BY <1>1, <1>2, MachineFacts DEF WatchdogFailure, Lost

(* An event of the table leads along its edge or is lost.                  *)
LEMMA PlainSent ==
  ASSUME sm \in Machine, NEW k, NEW t, <<sm.state, k, t>> \in PlainEdges, Send(Plain(k))
  PROVE  Leads({t, Lost(sm.state)})
<1> DEFINE x == <<sm.state, k, t>>
<1>1. PICK fails \in BOOLEAN : sm' \in Transition(sm, Plain(k), fails)
  BY DEF Send
<1>2. x \in PlainEdges /\ OneTarget(x) /\ EdgeOK(x)
  BY OneTargetFacts, EdgeFacts
<1>3. x[1] = sm.state /\ x[2] = k /\ x[3] = t
  OBVIOUS
<1> HIDE DEF x
<1>4. sm.state \notin Terminal \cup FatalChain /\ t \in AppState \ {"PreSecretError"}
  BY <1>2, <1>3 DEF EdgeOK
<1>5. CASE fails
  BY <1>1, <1>4, <1>5, SendLost DEF Leads
<1>6. CASE ~fails
  <2>1. Plain(k).kind = k
    BY DEF Plain, EventRecord
  <2>2. LegalEdge(sm, Plain(k)) = {At(sm, t)}
    <3>1. ~(sm.state = "PreSecretError" /\ k = "Continue")
      BY <1>2, <1>3 DEF OneTarget
    <3>2. {At(sm, y[3]) : y \in {z \in PlainEdges : z[1] = sm.state /\ z[2] = k}} = {At(sm, t)}
      BY <1>2, <1>3 DEF OneTarget
    <3> QED BY <1>2, <1>3, <2>1, <3>1, <3>2 DEF LegalEdge, OneTarget
  <2>3. sm' = At(sm, t)
    BY <1>1, <1>4, <1>6, <2>2 DEF Transition
  <2> QED BY <1>4, <2>3, MachineFacts DEF Leads
<1> QED BY <1>5, <1>6

(* A complete acquisition goes where the committed mode says.              *)
LEMMA MachineCompleteSent ==
  ASSUME sm \in Machine, sm.state = "MachineEntropyAcquisition",
         Send(Plain("MachineEntropyComplete"))
  PROVE  Leads({AfterMachine(sm), "PreSecretError"})
<1>1. PICK fails \in BOOLEAN : sm' \in Transition(sm, Plain("MachineEntropyComplete"), fails)
  BY DEF Send
<1>2. sm.state \notin Terminal \cup FatalChain \cup PostSecret \cup Gates
  BY DEF Terminal, FatalChain, PostSecret, CeremonyStates, CleanTeardown, Gates
<1>3. CASE fails
  BY <1>1, <1>2, <1>3, SendLost DEF Leads, Lost
<1>4. CASE ~fails
  <2>1. Plain("MachineEntropyComplete").kind = "MachineEntropyComplete"
    BY DEF Plain, EventRecord
  <2>2. \A x \in PlainEdges : x[2] # "MachineEntropyComplete"
    BY OneTargetFacts DEF OneTarget
  <2>3. LegalEdge(sm, Plain("MachineEntropyComplete")) = {At(sm, AfterMachine(sm))}
    BY <1>2, <2>1, <2>2 DEF LegalEdge
  <2>4. sm' = At(sm, AfterMachine(sm))
    BY <1>1, <1>2, <1>4, <2>3 DEF Transition
  <2>5. AfterMachine(sm) \in AppState \ {"PreSecretError"}
    BY DEF AfterMachine, AppState, PreSecretStates
  <2> QED BY <2>4, <2>5, MachineFacts DEF Leads
<1> QED BY <1>3, <1>4

(* A failed acquisition leaves for the firmware; so does the refusal of a  *)
(* sole source, an event the confirmation has no edge for.                 *)
LEMMA MachineFailedSent ==
  ASSUME sm \in Machine,
         sm.state \in {"MachineEntropyAcquisition", "FinalGenerationConfirmation"},
         Send(MachineEntropyFailed("ExitToFirmware"))
  PROVE  Leads({"ExitToFirmware", "PreSecretError"})
<1> DEFINE e == MachineEntropyFailed("ExitToFirmware")
<1>1. PICK fails \in BOOLEAN : sm' \in Transition(sm, e, fails)
  BY DEF Send
<1>2. sm.state \notin Terminal \cup FatalChain \cup PostSecret \cup Gates
  BY DEF Terminal, FatalChain, PostSecret, CeremonyStates, CleanTeardown, Gates
<1>3. CASE fails
  BY <1>1, <1>2, <1>3, SendLost DEF Leads, Lost
<1>4. CASE ~fails
  <2>1. e.kind = "MachineEntropyFailed" /\ e.disp = "ExitToFirmware"
    BY DEF MachineEntropyFailed, EventRecord
  <2>2. \A x \in PlainEdges : x[2] # "MachineEntropyFailed"
    BY OneTargetFacts DEF OneTarget
  <2> HIDE DEF e
  <2>3. LegalEdge(sm, e) = IF sm.state = "MachineEntropyAcquisition"
                             THEN {At(sm, "ExitToFirmware")} ELSE {}
    BY <1>2, <2>1, <2>2 DEF LegalEdge, CheckFailedTarget
  <2>4. IllegalEdge(sm, e) = At(sm, "ExitToFirmware")
    BY <1>2, <2>1 DEF IllegalEdge, None
  <2>5. sm' = At(sm, "ExitToFirmware")
    BY <1>1, <1>2, <1>4, <2>3, <2>4 DEF Transition
  <2>6. "ExitToFirmware" \in AppState \ {"PreSecretError"}
    BY DEF AppState, PreSecretStates
  <2> QED BY <2>5, <2>6, MachineFacts DEF Leads
<1> QED BY <1>3, <1>4

(* A failed derivation is fatal, whatever disposition it asks for.         *)
LEMMA DerivationFailedSent ==
  ASSUME sm \in Machine, sm.state = "FinalEntropyDerivation",
         Send(DerivationFailed("ReturnToMenu"))
  PROVE  Leads({"ScrubWhatIsReachable"})
<1> DEFINE e == DerivationFailed("ReturnToMenu")
<1>1. PICK fails \in BOOLEAN : sm' \in Transition(sm, e, fails)
  BY DEF Send
<1>2. sm.state \notin Terminal \cup FatalChain \cup Gates /\ sm.state \in PostSecret
  BY DEF Terminal, FatalChain, PostSecret, CeremonyStates, Gates
<1>3. CASE fails
  BY <1>1, <1>2, <1>3, SendLost DEF Leads, Lost
<1>4. CASE ~fails
  <2>1. e.kind = "DerivationFailed"
    BY DEF DerivationFailed, EventRecord
  <2>2. \A x \in PlainEdges : x[2] # "DerivationFailed"
    BY OneTargetFacts DEF OneTarget
  <2> HIDE DEF e
  <2>3. LegalEdge(sm, e) = {At(sm, "ScrubWhatIsReachable")}
    BY <1>2, <2>1, <2>2 DEF LegalEdge
  <2>4. sm' = At(sm, "ScrubWhatIsReachable")
    BY <1>1, <1>2, <1>4, <2>3 DEF Transition
  <2>5. "ScrubWhatIsReachable" \in AppState \ {"PreSecretError"}
    BY DEF AppState, PostSecret, FatalChain
  <2> QED BY <2>4, <2>5, MachineFacts DEF Leads
<1> QED BY <1>3, <1>4

(* A commit stores the setup and starts the collection it asks for.        *)
LEMMA CommitSent ==
  ASSUME sm \in Machine, sm.state = "SetupSelection",
         NEW w \in WordCount, NEW mode \in EntropyMode, Send(SetupCommitted(w, mode))
  PROVE  \/ Leads({"PreSecretError"})
         \/ /\ sm' \in Machine /\ sm'.wordCount = w /\ sm'.mode = mode
            /\ sm'.state = IF NeedsMachine(mode) THEN "MachineEntropyAcquisition"
                                                 ELSE "PhysicalCollection"
<1> DEFINE e == SetupCommitted(w, mode)
<1>1. PICK fails \in BOOLEAN : sm' \in Transition(sm, e, fails)
  BY DEF Send
<1>2. sm.state \notin Terminal \cup FatalChain \cup PostSecret \cup Gates
  BY DEF Terminal, FatalChain, PostSecret, CeremonyStates, CleanTeardown, Gates
<1>3. CASE fails
  BY <1>1, <1>2, <1>3, SendLost DEF Leads, Lost
<1>4. CASE ~fails
  <2>1. e.kind = "SetupCommitted" /\ e.words = w /\ e.mode = mode
    BY DEF SetupCommitted, EventRecord
  <2>2. \A x \in PlainEdges : x[2] # "SetupCommitted"
    BY OneTargetFacts DEF OneTarget
  <2>3. e \in Event
    BY DEF Event
  <2> HIDE DEF e
  <2>4. LegalEdge(sm, e) = {CommitSetup(sm, e)}
    BY <1>2, <2>1, <2>2 DEF LegalEdge
  <2>5. sm' = CommitSetup(sm, e)
    BY <1>1, <1>2, <1>4, <2>4 DEF Transition
  <2> QED BY <1>1, <1>4, <2>1, <2>3, <2>5, CallFacts DEF CommitSetup
<1> QED BY <1>3, <1>4

---------------------------------------------------------------------------
(* The invariant. *)

(* What is left of the run once the phrase is being derived.               *)
Later == PostSecret \ {"FinalEntropyDerivation"}

ToReenter == {"MnemonicGeneration", "MnemonicDisplay", "DestroyConfirm", "DisplayScrub",
  "CompleteHiddenReentry", "ReentryMismatchChoice", "PassphraseOffer"}

Reentered == {"PassphraseOffer", "PassphraseEntry", "PassphraseConfirm",
  "DerivationVerificationDisplay", "CompletionEducation"}

Verifying == {"gridDerived", "gridFailed", "browse", "builder", "customDerived",
  "customResult", "exportGate", "exportDerived", "export", "deriveFailed"}

(* The setup screen has been committed by the time the driver starts.      *)
Typed == TypeOK /\ sm.wordCount \in WordCount /\ sm.mode \in EntropyMode

(* The state of the machine at the places inside an arm.                   *)
Located ==
  /\ pc = "launch" => sm.state \in Collecting
  /\ pc = "acquireFailed" => sm.state = "MachineEntropyAcquisition"
  /\ pc = "unapproved" => sm.state = "FinalGenerationConfirmation"
  /\ pc = "physical" => sm.state = "PhysicalCollection"
  /\ pc = "typing" => sm.state \in {"PassphraseEntry", "PassphraseConfirm"}
  /\ pc \in Verifying => sm.state = "DerivationVerificationDisplay"
  /\ pc = "notice" => sm.state \in CleanTeardown

Empty     == resident = {} /\ public = {} /\ phrase = <<>> /\ confirm = <<>>
NoSources == staging = {} /\ machine = {}

NothingSecretYet == sm.state \notin Later => Empty /\ position = 0 /\ matched = {}

(* The machine records are those of the setup in force. *)
Recorded ==
  /\ machine # {} <=> NeedsMachine(sm.mode)
  /\ \A r \in machine : r.commit = commits /\ (r.tag = "Tpm" => extras)

(* So is everything else that is derived from. *)
Gathered ==
  /\ Recorded
  /\ staging = IF NeedsPhysical(sm.mode) THEN {commits} ELSE {}
  /\ sm.mode = "MachineOnly" => \E r \in machine : r.tag \in SoleApproved

(* Each way into a collecting state leaves what was collected before       *)
(* behind: the machine records are dropped by the commit, the rolls by the *)
(* way back to the setup screen.                                           *)
SourcesCurrent ==
  /\ pc = "launch" \/ sm.state = "MachineEntropyAcquisition" \/ sm.state \in Later => NoSources
  /\ sm.state = "SetupSelection" => staging = {}
  /\ sm.state = "MachineEntropyAcquisition" => NeedsMachine(sm.mode)
  /\ sm.state = "PhysicalCollection" =>
       /\ Recorded /\ NeedsPhysical(sm.mode)
       /\ staging \subseteq {commits} /\ (pc # "physical" => staging = {})
  /\ (sm.state = "FinalGenerationConfirmation" /\ pc = "loop")
       \/ sm.state = "FinalEntropyDerivation" => Gathered

(* Positions are matched in order, from the first one each time.           *)
WordsMatched ==
  /\ sm.state \in CeremonyStates \ {"FinalEntropyDerivation"} => wordCount = sm.wordCount
  /\ sm.state = "DisplayScrub" => matched = {}
  /\ sm.state \in {"CompleteHiddenReentry", "ReentryMismatchChoice"} =>
       position < Length(wordCount) /\ matched = 0 .. position - 1
  /\ sm.state \in Reentered => matched = 0 .. Length(wordCount) - 1

(* An entry screen finds its buffer empty, although it does not clear it.  *)
Entries ==
  /\ sm.state \in ToReenter => phrase = <<>> /\ confirm = <<>>
  /\ sm.state = "PassphraseEntry" =>
       /\ confirm = <<>>
       /\ pc = "loop" => phrase = <<>>
       /\ pc = "typing" => phrase = typed
  /\ sm.state = "PassphraseConfirm" =>
       /\ phrase = firstTyped
       /\ pc = "loop" => confirm = <<>>
       /\ pc = "typing" => confirm = typed
  /\ PassphraseTypedTwice

SecretsShown ==
  /\ SeedOnlyWhileDeriving
  /\ "export" \in public => pc = "export"
  /\ public # {} => sm.state \in FatalChain \cup {"DerivationVerificationDisplay"}

Endings ==
  /\ returnToMenu => choice = "menu"
  /\ pc = "ended" <=> outcome # "Running"
  /\ pc = "notice" => choice = "menu" /\ Empty /\ NoSources
  /\ MenuOnlyByChoice

IInv ==
  /\ Typed /\ Located /\ NothingSecretYet /\ SourcesCurrent
  /\ WordsMatched /\ Entries /\ SecretsShown /\ Endings

---------------------------------------------------------------------------
(* The steps. *)

(* A passphrase buffer takes a character while it has room. *)
LEMMA BufferFacts ==
  /\ <<>> \in Phrases
  /\ \A b \in Phrases : Popped(b) \in Phrases /\ \A c \in Chars : Pushed(b, c) \in Phrases
<1>1. Phrases = {b \in Seq(Chars) : Len(b) <= MaxPassphrase}
  BY LengthsAssumption DEF Phrases
<1> QED BY <1>1, LengthsAssumption DEF Popped, Pushed


(* The leaves below are the conjuncts of the invariant, looked at for one  *)
(* action at a time; nearly every action disturbs several of them.         *)
USE DEF IInv, Typed, TypeOK, Places, Located, NothingSecretYet, SourcesCurrent,
  WordsMatched, Entries, PassphraseTypedTwice, SecretsShown, SeedOnlyWhileDeriving,
  Endings, MenuOnlyByChoice, Empty, NoSources, Later, ToReenter, Reentered, Verifying,
  PostSecret, CeremonyStates, CleanTeardown, FatalChain,
  Arm, Fire, Goto, End, Leads, Lost, sources, words, entry, secrets, ending

(* The entropy sources, up to the confirmation. *)
LEMMA CollectionInv ==
  ASSUME IInv,
         \/ DisableWatchdog \/ DisableFails
         \/ \E got \in Sampled : AcquireSources(got)
         \/ RefuseSoleSource
         \/ AcquireFails
         \/ AcknowledgeAcquireFailure
         \/ EnterPhysical
         \/ RecordPhysical
         \/ PhysicalBudgetMet
         \/ PhysicalBack
         \/ Generate
         \/ ConfirmationBack
  PROVE  IInv'
<1>1. CASE DisableWatchdog \/ DisableFails
  <2>1. CASE DisableWatchdog
    BY <2>1 DEF DisableWatchdog, Collecting, Recorded
  <2>2. CASE DisableFails
    BY <2>2 DEF DisableFails, Collecting, Outcomes, Recorded
  <2> QED BY <1>1, <2>1, <2>2
<1>2. CASE \E got \in Sampled : AcquireSources(got)
  <2>1. PICK got \in Sampled : AcquireSources(got)
    BY <1>2
  <2>2. Leads({AfterMachine(sm), "PreSecretError"})
    BY <2>1, MachineCompleteSent DEF AcquireSources
  <2>3. got \subseteq MachineTags /\ got # {} /\ ("Tpm" \in got => extras)
    BY <2>1, PolicyAssumption DEF AcquireSources, Sampled, Primary
  <2> DEFINE New == {[tag |-> t, commit |-> commits] : t \in got}
  <2>4. /\ New # {} /\ New \subseteq Record
        /\ \A r \in New : r.commit = commits /\ (r.tag = "Tpm" => extras)
    <3>1. PICK t \in got : TRUE
      BY <2>3
    <3>2. commits \in 1 .. MaxCommits
      OBVIOUS
    <3>3. ASSUME NEW x \in got
          PROVE  /\ [tag |-> x, commit |-> commits] \in Record
                 /\ [tag |-> x, commit |-> commits].commit = commits
                 /\ [tag |-> x, commit |-> commits].tag = x
      BY <2>3, <3>2 DEF Record
    <3>4. [tag |-> t, commit |-> commits] \in New
      OBVIOUS
    <3> QED BY <2>3, <3>3, <3>4
  <2>5. machine' = New
    <3>1. machine = {}
      BY <2>1 DEF AcquireSources
    <3> QED BY <2>1, <3>1 DEF AcquireSources
  <2> HIDE DEF New
  <2>6. Recorded'
    BY <2>1, <2>2, <2>4, <2>5 DEF AcquireSources, Recorded
  <2>7. pc' = "loop" /\ sm'.state = "FinalGenerationConfirmation" => Gathered'
    BY <2>1, <2>2, <2>4, <2>5, <2>6 DEF AcquireSources, AfterMachine, HasSoleSource,
       Gathered, NeedsMachine, NeedsPhysical, EntropyMode
  <2> QED
    BY <2>1, <2>2, <2>4, <2>5, <2>6, <2>7 DEF AcquireSources, AfterMachine
<1>3. CASE RefuseSoleSource
  <2>1. Leads({"ExitToFirmware", "PreSecretError"})
    BY <1>3, MachineFailedSent DEF RefuseSoleSource
  <2> QED BY <1>3, <2>1 DEF RefuseSoleSource
<1>4. CASE AcquireFails
  BY <1>4 DEF AcquireFails
<1>5. CASE AcknowledgeAcquireFailure
  <2>1. Leads({"ExitToFirmware", "PreSecretError"})
    BY <1>5, MachineFailedSent DEF AcknowledgeAcquireFailure
  <2> QED BY <1>5, <2>1 DEF AcknowledgeAcquireFailure
<1>6. CASE EnterPhysical
  BY <1>6 DEF EnterPhysical, Recorded
<1>7. CASE RecordPhysical
  BY <1>7 DEF RecordPhysical, Recorded
<1>8. CASE PhysicalBudgetMet
  <2>1. Leads({"FinalGenerationConfirmation", "PreSecretError"})
    BY <1>8, PlainSent DEF PhysicalBudgetMet, PlainEdges, CollectionEdges
  <2>2. staging = {commits} /\ Recorded /\ NeedsPhysical(sm.mode)
    BY <1>8 DEF PhysicalBudgetMet
  <2> QED
    BY <1>8, <2>1, <2>2 DEF PhysicalBudgetMet, Recorded, Gathered, NeedsPhysical
<1>9. CASE PhysicalBack
  <2>1. Leads({"SetupSelection", "PreSecretError"})
    BY <1>9, PlainSent DEF PhysicalBack, PlainEdges, BackEdges
  <2> QED BY <1>9, <2>1 DEF PhysicalBack
<1>10. CASE Generate
  <2>1. Leads({"FinalEntropyDerivation", "PreSecretError"})
    BY <1>10, PlainSent DEF Generate, PlainEdges, CollectionEdges
  <2> QED BY <1>10, <2>1 DEF Generate, Gathered, Recorded
<1>11. CASE ConfirmationBack
  <2>1. Leads({"SetupSelection", "PreSecretError"})
    BY <1>11, PlainSent DEF ConfirmationBack, ScrubSources, PlainEdges, BackEdges
  <2> QED BY <1>11, <2>1 DEF ConfirmationBack, ScrubSources
<1> QED BY <1>1, <1>2, <1>3, <1>4, <1>5, <1>6, <1>7, <1>8, <1>9, <1>10, <1>11

(* The setup screen reached again, and the ways out before the phrase.     *)
LEMMA SetupInv ==
  ASSUME IInv,
         \/ \E w \in WordCount, mode \in EntropyMode, tpm \in BOOLEAN : Recommit(w, mode, tpm)
         \/ SetupBack
         \/ ExitToFirmware
  PROVE  IInv'
<1>1. CASE \E w \in WordCount, mode \in EntropyMode, tpm \in BOOLEAN : Recommit(w, mode, tpm)
  <2>1. PICK w \in WordCount, mode \in EntropyMode, tpm \in BOOLEAN : Recommit(w, mode, tpm)
    BY <1>1
  <2>2. \/ Leads({"PreSecretError"})
        \/ /\ sm' \in Machine /\ sm'.wordCount = w /\ sm'.mode = mode
           /\ sm'.state = IF NeedsMachine(mode) THEN "MachineEntropyAcquisition"
                                                ELSE "PhysicalCollection"
    BY <2>1, CommitSent DEF Recommit
  <2>3. NeedsMachine(mode) \/ NeedsPhysical(mode)
    BY DEF NeedsMachine, NeedsPhysical, EntropyMode
  <2>4. commits' \in 1 .. MaxCommits /\ commits' = commits + 1
    BY <2>1, LengthsAssumption DEF Recommit
  <2> QED
    BY <2>1, <2>2, <2>3, <2>4 DEF Recommit, RecordsAfterCommit, Recorded
<1>2. CASE SetupBack
  <2>1. Leads({"GraphicsAndKeyboardSelfTest", "PreSecretError"})
    BY <1>2, PlainSent DEF SetupBack, PlainEdges, BackEdges
  <2> QED BY <1>2, <2>1 DEF SetupBack, ScrubSources, Outcomes
<1>3. CASE ExitToFirmware
  <2>1. sm.state \in PreSecretStates \ {"PhysicalCollection", "SetupSelection",
          "MachineEntropyAcquisition", "FinalGenerationConfirmation"}
    BY <1>3 DEF ExitToFirmware, Handled, PreSecretStates
  <2> QED BY <1>3, <2>1 DEF ExitToFirmware, ScrubSources, Outcomes, PreSecretStates
<1> QED BY <1>1, <1>2, <1>3

(* The derivation uses the sources up. *)
LEMMA DerivationInv ==
  ASSUME IInv,
         \/ Derive
         \/ DeriveFails
         \/ MnemonicGeneration
  PROVE  IInv'
<1>1. CASE Derive
  <2>1. Leads({"MnemonicGeneration", "ScrubWhatIsReachable"})
    BY <1>1, PlainSent DEF Derive, PlainEdges, CollectionEdges
  <2>2. 0 \in 0 .. Length(sm.wordCount)
    BY LengthsAssumption DEF Length, WordCount, None
  <2> QED BY <1>1, <2>1, <2>2 DEF Derive, ScrubSources, ArenaFields, DerivationStage
<1>2. CASE DeriveFails
  <2>1. Leads({"ScrubWhatIsReachable"})
    BY <1>2, DerivationFailedSent DEF DeriveFails
  <2> QED BY <1>2, <2>1 DEF DeriveFails, ScrubSources, ArenaFields, DerivationStage
<1>3. CASE MnemonicGeneration
  <2>1. Leads({"MnemonicDisplay", "ScrubWhatIsReachable"})
    BY <1>3, PlainSent DEF MnemonicGeneration, PlainEdges, CollectionEdges
  <2> QED BY <1>3, <2>1 DEF MnemonicGeneration
<1> QED BY <1>1, <1>2, <1>3

(* Display, destruction and re-entry. *)
LEMMA ReentryInv ==
  ASSUME IInv,
         \/ Hide
         \/ RequestDestroy
         \/ \E how \in {"menu", "off"} : ConfirmDestroy(how)
         \/ CancelDestroy
         \/ DisplayScrub
         \/ WordMatches
         \/ WordDiffers
         \/ \E kind \in {"RetryPosition", "RevealAgain", "DestroyRequested"} : AnswerMismatch(kind)
  PROVE  IInv'
<1>1. CASE Hide
  <2>1. Leads({"DisplayScrub", "ScrubWhatIsReachable"})
    BY <1>1, PlainSent DEF Hide, PlainEdges, DisplayEdges
  <2> QED BY <1>1, <2>1 DEF Hide
<1>2. CASE RequestDestroy
  <2>1. Leads({"DestroyConfirm", "ScrubWhatIsReachable"})
    BY <1>2, PlainSent DEF RequestDestroy, PlainEdges, DisplayEdges
  <2> QED BY <1>2, <2>1 DEF RequestDestroy
<1>3. CASE \E how \in {"menu", "off"} : ConfirmDestroy(how)
  <2>1. Leads({"SecretArenaScrub", "ScrubWhatIsReachable"})
    BY <1>3, PlainSent DEF ConfirmDestroy, PlainEdges, DisplayEdges
  <2> QED BY <1>3, <2>1 DEF ConfirmDestroy
<1>4. CASE CancelDestroy
  <2>1. Leads({"MnemonicDisplay", "ScrubWhatIsReachable"})
    BY <1>4, PlainSent DEF CancelDestroy, PlainEdges, DisplayEdges
  <2> QED BY <1>4, <2>1 DEF CancelDestroy
<1>5. CASE DisplayScrub
  <2>1. Leads({"CompleteHiddenReentry", "ScrubWhatIsReachable"})
    BY <1>5, PlainSent DEF DisplayScrub, PlainEdges, DisplayEdges
  <2>2. wordCount \in WordCount
    BY <1>5 DEF DisplayScrub
  <2>3. Length(wordCount) \in Nat \ {0}
    BY <2>2, LengthsAssumption DEF Length, WordCount, None
  <2> QED BY <1>5, <2>1, <2>3 DEF DisplayScrub, PositionAfterScrub
<1>6. CASE WordMatches
  <2>1. wordCount \in WordCount /\ sm.state = "CompleteHiddenReentry"
    BY <1>6 DEF WordMatches
  <2>2. Length(wordCount) \in Nat \ {0}
    BY <2>1, LengthsAssumption DEF Length, WordCount, None
  <2>3. /\ position < Length(wordCount) /\ matched = 0 .. position - 1 /\ position \in Nat
        /\ position' = position + 1 /\ matched' = matched \cup {position}
        /\ UNCHANGED wordCount
    BY <2>1, <2>2, <1>6 DEF WordMatches
  <2>4. matched' = 0 .. position' - 1 /\ position' \in 0 .. Length(wordCount)
    BY <2>2, <2>3
  <2>5. \/ position' < Length(wordCount) /\ Leads({"CompleteHiddenReentry", "ScrubWhatIsReachable"})
        \/ position' = Length(wordCount) /\ Leads({"PassphraseOffer", "ScrubWhatIsReachable"})
    <3>1. CASE position' < Length(wordCount)
      <4>1. Send(Plain("ReentryPositionMatched"))
        BY <2>2, <2>3, <3>1, <1>6 DEF WordMatches
      <4> QED BY <2>1, <3>1, <4>1, PlainSent DEF PlainEdges, ReentryEdges
    <3>2. CASE position' = Length(wordCount)
      <4>1. Send(Plain("ReentryComplete"))
        BY <2>2, <2>3, <3>2, <1>6 DEF WordMatches
      <4> QED BY <2>1, <3>2, <4>1, PlainSent DEF PlainEdges, ReentryEdges
    <3> QED BY <2>2, <2>4, <3>1, <3>2
  <2> QED BY <2>1, <2>2, <2>3, <2>4, <2>5, <1>6 DEF WordMatches
<1>7. CASE WordDiffers
  <2>1. Leads({"ReentryMismatchChoice", "ScrubWhatIsReachable"})
    BY <1>7, PlainSent DEF WordDiffers, PlainEdges, ReentryEdges
  <2> QED BY <1>7, <2>1 DEF WordDiffers
<1>8. CASE \E kind \in {"RetryPosition", "RevealAgain", "DestroyRequested"} : AnswerMismatch(kind)
  <2>1. Leads({"CompleteHiddenReentry", "MnemonicDisplay", "DestroyConfirm", "ScrubWhatIsReachable"})
    <3>1. CASE AnswerMismatch("RetryPosition")
      BY <3>1, PlainSent DEF AnswerMismatch, PlainEdges, ReentryEdges
    <3>2. CASE AnswerMismatch("RevealAgain")
      BY <3>2, PlainSent DEF AnswerMismatch, PlainEdges, ReentryEdges
    <3>3. CASE AnswerMismatch("DestroyRequested")
      BY <3>3, PlainSent DEF AnswerMismatch, PlainEdges, ReentryEdges
    <3> QED BY <1>8, <3>1, <3>2, <3>3
  <2> QED BY <1>8, <2>1 DEF AnswerMismatch
<1> QED BY <1>1, <1>2, <1>3, <1>4, <1>5, <1>6, <1>7, <1>8

(* The two entry screens. *)
LEMMA PassphraseInv ==
  ASSUME IInv,
         \/ DeclinePassphrase
         \/ AcceptPassphrase
         \/ OpenEntry
         \/ \E c \in Chars : TypeChar(c)
         \/ TypeBackspace
         \/ CancelEntry
         \/ CommitEntry
         \/ \E matches \in BOOLEAN : ConfirmEntry(matches)
  PROVE  IInv'
<1>1. CASE DeclinePassphrase
  <2>1. Leads({"DerivationVerificationDisplay", "ScrubWhatIsReachable"})
    BY <1>1, PlainSent DEF DeclinePassphrase, PlainEdges, PassphraseEdges
  <2> QED BY <1>1, <2>1, BufferFacts DEF DeclinePassphrase
<1>2. CASE AcceptPassphrase
  <2>1. Leads({"PassphraseEntry", "ScrubWhatIsReachable"})
    BY <1>2, PlainSent DEF AcceptPassphrase, PlainEdges, PassphraseEdges
  <2> QED BY <1>2, <2>1 DEF AcceptPassphrase
<1>3. CASE OpenEntry
  <2>1. <<>> \in Phrases
    BY BufferFacts
  <2> QED BY <1>3, <2>1 DEF OpenEntry
<1>4. CASE \E c \in Chars : TypeChar(c)
  <2>1. PICK c \in Chars : TypeChar(c)
    BY <1>4
  <2>2. phrase \in Phrases /\ confirm \in Phrases /\ typed \in Phrases
    OBVIOUS
  <2>3. {Pushed(phrase, c), Pushed(confirm, c), Pushed(typed, c)} \subseteq Phrases
    <3>1. \A b \in Phrases : Pushed(b, c) \in Phrases
      BY BufferFacts
    <3> QED BY <2>2, <3>1
  <2> QED BY <2>1, <2>3 DEF TypeChar, First
<1>5. CASE TypeBackspace
  BY <1>5, BufferFacts DEF TypeBackspace, First
<1>6. CASE CancelEntry
  <2>1. Leads({"DerivationVerificationDisplay", "ScrubWhatIsReachable"})
    BY <1>6, PlainSent DEF CancelEntry, First, PlainEdges, PassphraseEdges
  <2> QED BY <1>6, <2>1, BufferFacts DEF CancelEntry, First
<1>7. CASE CommitEntry
  <2>1. \/ phrase = <<>> /\ Leads({"DerivationVerificationDisplay", "ScrubWhatIsReachable"})
        \/ Leads({"PassphraseConfirm", "ScrubWhatIsReachable"})
    BY <1>7, PlainSent DEF CommitEntry, First, PlainEdges, PassphraseEdges
  <2> QED BY <1>7, <2>1 DEF CommitEntry, First
<1>8. CASE \E matches \in BOOLEAN : ConfirmEntry(matches)
  <2>1. PICK matches \in BOOLEAN : ConfirmEntry(matches)
    BY <1>8
  <2>2. \/ matches /\ Leads({"DerivationVerificationDisplay", "ScrubWhatIsReachable"})
        \/ ~matches /\ Leads({"PassphraseEntry", "ScrubWhatIsReachable"})
    BY <2>1, PlainSent DEF ConfirmEntry, First, PlainEdges, PassphraseEdges
  <2> QED BY <2>1, <2>2, BufferFacts DEF ConfirmEntry, KeptPhrase, First
<1> QED BY <1>1, <1>2, <1>3, <1>4, <1>5, <1>6, <1>7, <1>8

(* The verification screen and its branches. *)
LEMMA VerificationInv ==
  ASSUME IInv,
         \/ DeriveGrid
         \/ ScrubAfterVerification
         \/ \E place \in {"builder", "exportGate"} : OpenBranch(place)
         \/ FinishVerification
         \/ \E place \in {"browse", "exportGate"} : LeaveBuilder(place)
         \/ CommitPath
         \/ \E ok \in BOOLEAN : CustomAddress(ok)
         \/ AcknowledgeResult \/ DeclineExport
         \/ DeriveExport
         \/ \E result \in {"shown", "refused", "failed"} : ExportComputed(result)
         \/ LeaveExport
         \/ AcknowledgeFailure
  PROVE  IInv'
<1>1. CASE DeriveGrid
  BY <1>1 DEF DeriveGrid, DerivationStage, ArenaFields
<1>2. CASE ScrubAfterVerification
  BY <1>2 DEF ScrubAfterVerification, ScrubDerivationStage, DerivationStage, ArenaFields
<1>3. CASE \E place \in {"builder", "exportGate"} : OpenBranch(place)
  BY <1>3 DEF OpenBranch
<1>4. CASE FinishVerification
  <2>1. Leads({"CompletionEducation", "ScrubWhatIsReachable"})
    BY <1>4, PlainSent DEF FinishVerification, PlainEdges, ClosingEdges
  <2> QED BY <1>4, <2>1 DEF FinishVerification
<1>5. CASE \E place \in {"browse", "exportGate"} : LeaveBuilder(place)
  BY <1>5 DEF LeaveBuilder
<1>6. CASE CommitPath
  BY <1>6 DEF CommitPath, DerivationStage, ArenaFields
<1>7. CASE \E ok \in BOOLEAN : CustomAddress(ok)
  BY <1>7 DEF CustomAddress, ScrubDerivationStage, DerivationStage, ArenaFields
<1>8. CASE AcknowledgeResult \/ DeclineExport
  <2>1. CASE AcknowledgeResult
    BY <2>1 DEF AcknowledgeResult
  <2>2. CASE DeclineExport
    BY <2>2 DEF DeclineExport
  <2> QED BY <1>8, <2>1, <2>2
<1>9. CASE DeriveExport
  BY <1>9 DEF DeriveExport, DerivationStage, ArenaFields
<1>10. CASE \E result \in {"shown", "refused", "failed"} : ExportComputed(result)
  BY <1>10 DEF ExportComputed, ScrubDerivationStage, DerivationStage, ArenaFields
<1>11. CASE LeaveExport
  BY <1>11 DEF LeaveExport
<1>12. CASE AcknowledgeFailure
  <2>1. Leads({"ScrubWhatIsReachable"})
    BY <1>12, PlainSent DEF AcknowledgeFailure, PlainEdges, ClosingEdges
  <2> QED BY <1>12, <2>1 DEF AcknowledgeFailure
<1> QED BY <1>1, <1>2, <1>3, <1>4, <1>5, <1>6, <1>7, <1>8, <1>9, <1>10, <1>11, <1>12

(* The wipe, and the two ways to end. *)
LEMMA EndInv ==
  ASSUME IInv,
         \/ \E how \in {"menu", "off"} : FinishChoice(how)
         \/ WipeForMenu
         \/ AcknowledgeNotice
         \/ WipeForShutdown
         \/ ShutdownAccepted \/ ShutdownRefused
  PROVE  IInv'
<1>1. CASE \E how \in {"menu", "off"} : FinishChoice(how)
  <2>1. Leads({"SecretArenaScrub", "ScrubWhatIsReachable"})
    BY <1>1, PlainSent DEF FinishChoice, PlainEdges, ClosingEdges
  <2> QED BY <1>1, <2>1 DEF FinishChoice
<1>2. CASE WipeForMenu
  BY <1>2, BufferFacts DEF WipeForMenu, MenuReturn, ScrubSecrets, ScrubSources
<1>3. CASE AcknowledgeNotice
  BY <1>3 DEF AcknowledgeNotice, Outcomes
<1>4. CASE WipeForShutdown
  BY <1>4, BufferFacts DEF WipeForShutdown, ScrubSecrets
<1>5. CASE ShutdownAccepted \/ ShutdownRefused
  <2>1. CASE ShutdownAccepted
    BY <2>1 DEF ShutdownAccepted, Outcomes, Gathered, Recorded
  <2>2. CASE ShutdownRefused
    BY <2>2 DEF ShutdownRefused, Outcomes, Gathered, Recorded
  <2> QED BY <1>5, <2>1, <2>2
<1> QED BY <1>1, <1>2, <1>3, <1>4, <1>5

HIDE DEF IInv, Typed, TypeOK, Places, Located, NothingSecretYet, SourcesCurrent,
  WordsMatched, Entries, PassphraseTypedTwice, SecretsShown, SeedOnlyWhileDeriving,
  Endings, MenuOnlyByChoice, Empty, NoSources, Later, ToReenter, Reentered, Verifying,
  PostSecret, CeremonyStates, CleanTeardown, FatalChain,
  Arm, Fire, Goto, End, Leads, Lost, sources, words, entry, secrets, ending

(* The setup screen has just been committed, and nothing collected.        *)
LEMMA InitInv == Init => IInv
<1> SUFFICES ASSUME Init PROVE IInv
  OBVIOUS
<1>1. PICK w \in WordCount, mode \in EntropyMode :
        sm = CommitSetup(At(NewMachine, "SetupSelection"), SetupCommitted(w, mode))
  BY DEF Init
<1>2. sm = [state |-> IF NeedsMachine(mode) THEN "MachineEntropyAcquisition"
                                               ELSE "PhysicalCollection",
               error |-> None, wordCount |-> w, mode |-> mode]
  BY <1>1 DEF CommitSetup, SetupCommitted, EventRecord
<1>3. /\ sm.state = IF NeedsMachine(mode) THEN "MachineEntropyAcquisition"
                                          ELSE "PhysicalCollection"
      /\ sm.error = None /\ sm.wordCount = w /\ sm.mode = mode
  BY <1>2
<1>4. sm.state \in Collecting /\ sm.state \in AppState \ {"PreSecretError"}
  BY <1>3 DEF Collecting, AppState, PreSecretStates
<1>5. sm \in Machine
  BY <1>2, <1>3, <1>4 DEF Machine
<1>6. sm.state \notin Later /\ sm.state \notin CeremonyStates \cup FatalChain \cup CleanTeardown
  BY <1>3 DEF Later, PostSecret, CeremonyStates, CleanTeardown, FatalChain
<1>7. NeedsMachine(mode) \/ NeedsPhysical(mode)
  BY DEF NeedsMachine, NeedsPhysical, EntropyMode
<1>8. Typed
  <2>1. Length(None) = 0
    BY DEF Length, None
  <2>2. <<>> \in Phrases /\ commits \in 1 .. MaxCommits /\ position \in 0 .. Length(wordCount)
    BY <2>1, BufferFacts, LengthsAssumption DEF Init
  <2> QED
    BY <1>3, <1>5, <2>2 DEF Init, Typed, TypeOK, Places, Outcomes
<1>9. Located /\ NothingSecretYet /\ SecretsShown /\ Endings
  BY <1>4, <1>6
     DEF Init, Located, Verifying, NothingSecretYet, Empty, SecretsShown,
         SeedOnlyWhileDeriving, Endings, MenuOnlyByChoice
<1>10. SourcesCurrent
  BY <1>3, <1>6, <1>7
     DEF Init, SourcesCurrent, NoSources, Recorded, Later, CeremonyStates, PostSecret
<1>11. WordsMatched /\ Entries
  BY <1>3 DEF Init, WordsMatched, Entries, Reentered, ToReenter, CeremonyStates,
              PassphraseTypedTwice
<1> QED BY <1>8, <1>9, <1>10, <1>11 DEF IInv

(* One case for each action, in the lemma of its group.                    *)
LEMMA NextInv == IInv /\ [Next]_vars => IInv'
<1> SUFFICES ASSUME IInv, [Next]_vars PROVE IInv'
  OBVIOUS
<1>1. CASE UNCHANGED vars
  BY <1>1 DEF vars, sources, words, entry, secrets, ending, IInv, Typed, TypeOK, Located,
     NothingSecretYet, Empty, NoSources, SourcesCurrent, Recorded, Gathered, WordsMatched,
     Entries, PassphraseTypedTwice, SecretsShown, SeedOnlyWhileDeriving, Endings,
     MenuOnlyByChoice
<1>2. CASE Operator
  BY <1>2, CollectionInv, SetupInv, ReentryInv, PassphraseInv, VerificationInv, EndInv
     DEF Operator
<1>3. CASE Driver
  BY <1>3, CollectionInv, SetupInv, DerivationInv, ReentryInv, PassphraseInv,
     VerificationInv, EndInv
     DEF Driver
<1> QED BY <1>1, <1>2, <1>3 DEF Next

(* The invariant holds in every run. *)
LEMMA Invariance == Spec => []IInv
  BY InitInv, NextInv, PTL DEF Spec

---------------------------------------------------------------------------
(* The theorems. *)

(* The state of the driver is what its declarations say. *)
THEOREM TypeCorrect == Spec => []TypeOK
<1>1. IInv => TypeOK
  BY DEF IInv, Typed
<1> QED BY <1>1, Invariance, PTL

(* A phrase is derived from what was collected under the setup in force,   *)
(* of every kind it asks for.                                              *)
THEOREM SourcesAreCurrent == Spec => []DerivesFromCurrentSources
<1>1. IInv => DerivesFromCurrentSources
  BY DEF IInv, SourcesCurrent, Gathered, Recorded, DerivesFromCurrentSources, Arm
<1> QED BY <1>1, Invariance, PTL

(* A wallet is offered a passphrase and verified only after every word of  *)
(* the phrase was typed since the words were last shown.                   *)
THEOREM EveryWordReentered == Spec => []WholePhraseReentered
<1>1. IInv => WholePhraseReentered
  BY DEF IInv, Typed, TypeOK, WordsMatched, Reentered, CeremonyStates, WholePhraseReentered,
     None, WordCount
<1> QED BY <1>1, Invariance, PTL

(* The wallet's passphrase is empty or was typed twice.                    *)
THEOREM PassphraseIsTypedTwice == Spec => []PassphraseTypedTwice
<1>1. IInv => PassphraseTypedTwice
  BY DEF IInv, Entries
<1> QED BY <1>1, Invariance, PTL

(* The seed and the keys outlive a derivation only into the fatal chain.   *)
THEOREM SeedOutlivesNothing == Spec => []SeedOnlyWhileDeriving
<1>1. IInv => SeedOnlyWhileDeriving
  BY DEF IInv, SecretsShown
<1> QED BY <1>1, Invariance, PTL

(* The menu is reached by choice, never by a fault.                        *)
THEOREM MenuIsChosen == Spec => []MenuOnlyByChoice
<1>1. IInv => MenuOnlyByChoice
  BY DEF IInv, Endings
<1> QED BY <1>1, Invariance, PTL

---------------------------------------------------------------------------
(* The refinement. *)

Stopping == {"shutdown", "retry"}

(* SecretPhase's outcome and held, as Phase substitutes them. *)
PhaseOutcome == IF pc \in Stopping THEN "Stopping" ELSE outcome
Held ==
  (IF resident = {} /\ phrase = <<>> /\ confirm = <<>> THEN {} ELSE {"arena"})
    \cup (IF staging = {} THEN {} ELSE {"staging"})
    \cup (IF machine = {} THEN {} ELSE {"records"})
    \cup (IF public = {} THEN {} ELSE {"wallet"})

(* The steps of the phase, said of this module's state. *)
LEMMA PhaseSteps ==
  /\ PhaseOutcome = "Running" /\ PhaseOutcome' = "Running" => Phase!PhaseNext
  /\ PhaseOutcome = "Running" /\ PhaseOutcome' \in {"ExitedToFirmwareBeforeSecret",
        "BackBeforeSecret", "DestroyedReturnToMenu"} /\ Held' = {} => Phase!PhaseNext
  /\ PhaseOutcome = "Running" /\ PhaseOutcome' = "Stopping"
        /\ Held' \subseteq {"wallet"} => Phase!PhaseNext
  /\ PhaseOutcome = "Stopping" /\ PhaseOutcome' \in {"PoweredOff", "Halted"}
        /\ Held' = Held => Phase!PhaseNext
<1>2. Held' \subseteq {"arena", "staging", "records", "wallet"}
  BY DEF Held
<1>3. PhaseOutcome = "Running" /\ PhaseOutcome' = "Running" => Phase!Work
  BY <1>2 DEF Phase!Work, Phase!Stores, PhaseOutcome, Held, Stopping
<1>4. \A o \in Phase!Returns : 
     PhaseOutcome = "Running" /\ PhaseOutcome' = o /\ Held' = {} => Phase!Return(o)
  BY DEF Phase!Return, Phase!Returns, PhaseOutcome, Held, Stopping
<1>5. PhaseOutcome = "Running" /\ PhaseOutcome' = "Stopping"
        /\ Held' \subseteq {"wallet"} => Phase!Stop
  BY DEF Phase!Stop, PhaseOutcome, Held, Stopping
<1>6. \A o \in {"PoweredOff", "Halted"} : 
     PhaseOutcome = "Stopping" /\ PhaseOutcome' = o /\ Held' = Held => Phase!Stopped(o)
  BY DEF Phase!Stopped, PhaseOutcome, Held, Stopping
<1> QED BY <1>2, <1>3, <1>4, <1>5, <1>6 DEF Phase!PhaseNext, Phase!Returns

(* Every action is one of them, or changes neither.                        *)
LEMMA NextMaps == IInv /\ [Next]_vars => [Phase!PhaseNext]_(Phase!phaseVars)
<1> SUFFICES ASSUME IInv, [Next]_vars
             PROVE  Phase!PhaseNext \/ UNCHANGED <<PhaseOutcome, Held>>
  BY DEF Phase!phaseVars, PhaseOutcome, Held, Stopping
<1> DEFINE Works == /\ pc \notin Stopping \cup {"ended"} /\ pc' \notin Stopping
                    /\ UNCHANGED outcome
           Runs  == pc \notin Stopping \cup {"ended"}
<1>1. pc \notin Stopping \cup {"ended"} => PhaseOutcome = "Running" /\ outcome = "Running"
  BY DEF IInv, Endings, PhaseOutcome
<1>2. Works => Phase!PhaseNext
  BY <1>1, PhaseSteps DEF PhaseOutcome
<1>3. ASSUME End("ExitedToFirmwareBeforeSecret") \/ End("BackBeforeSecret"),
             NoSources', sm.state \notin Later, UNCHANGED <<entry, secrets>>,
             Runs
      PROVE  Phase!PhaseNext
  BY <1>1, <1>3, PhaseSteps DEF End, IInv, NothingSecretYet, Empty, NoSources, Held, entry,
     secrets, PhaseOutcome, Stopping
<1>4. CASE UNCHANGED vars
  BY <1>4 DEF vars, sources, entry, secrets, ending, PhaseOutcome, Held
<1> USE DEF Arm, Fire, Goto, End, ending, Stopping
<1>5. CASE Operator
  <2>1. CASE AcknowledgeAcquireFailure \/ RecordPhysical \/ PhysicalBudgetMet \/ PhysicalBack
               \/ Generate \/ ConfirmationBack
    BY <1>2, <2>1 DEF AcknowledgeAcquireFailure, RecordPhysical, PhysicalBudgetMet,
       PhysicalBack, Generate, ConfirmationBack
  <2>2. CASE \E w \in WordCount, mode \in EntropyMode, tpm \in BOOLEAN : Recommit(w, mode, tpm)
    BY <1>2, <2>2 DEF Recommit
  <2>3. CASE SetupBack
    BY <1>3, <2>3 DEF SetupBack, ScrubSources, NoSources, Later, PostSecret,
       CeremonyStates, CleanTeardown, FatalChain
  <2>4. CASE Hide \/ RequestDestroy \/ CancelDestroy \/ WordMatches \/ WordDiffers
    BY <1>2, <2>4 DEF Hide, RequestDestroy, CancelDestroy, WordMatches, WordDiffers
  <2>5. CASE \E how \in {"menu", "off"} : ConfirmDestroy(how) \/ FinishChoice(how)
    BY <1>2, <2>5 DEF ConfirmDestroy, FinishChoice
  <2>6. CASE \E kind \in {"RetryPosition", "RevealAgain", "DestroyRequested"} : AnswerMismatch(kind)
    BY <1>2, <2>6 DEF AnswerMismatch
  <2>7. CASE \/ DeclinePassphrase \/ AcceptPassphrase \/ TypeBackspace \/ CancelEntry \/ CommitEntry
             \/ \E c \in Chars : TypeChar(c)
             \/ \E matches \in BOOLEAN : ConfirmEntry(matches)
    BY <1>2, <2>7 DEF DeclinePassphrase, AcceptPassphrase, TypeBackspace, CancelEntry,
       CommitEntry, TypeChar, ConfirmEntry
  <2>8. CASE \/ \E place \in {"builder", "exportGate"} : OpenBranch(place)
             \/ \E place \in {"browse", "exportGate"} : LeaveBuilder(place)
             \/ FinishVerification \/ CommitPath \/ AcknowledgeResult \/ DeclineExport
             \/ DeriveExport \/ LeaveExport \/ AcknowledgeFailure
    BY <1>2, <2>8 DEF OpenBranch, LeaveBuilder, FinishVerification, CommitPath,
       AcknowledgeResult, DeclineExport, DeriveExport, LeaveExport, AcknowledgeFailure
  <2>9. CASE AcknowledgeNotice
    BY <1>1, <2>9, PhaseSteps DEF AcknowledgeNotice, IInv, Endings, Empty, NoSources, Held,
       sources, entry, secrets, PhaseOutcome
  <2> QED BY <1>5, <2>1, <2>2, <2>3, <2>4, <2>5, <2>6, <2>7, <2>8, <2>9 DEF Operator
<1>6. CASE Driver
  <2>1. CASE DisableFails
    <3>1. sm.state \in Collecting /\ NoSources
      BY <2>1 DEF DisableFails, IInv, Located, SourcesCurrent
    <3>2. sm.state \notin Later
      BY <3>1 DEF Collecting, Later, PostSecret, CeremonyStates, CleanTeardown, FatalChain
    <3> QED BY <1>3, <2>1, <3>1, <3>2 DEF DisableFails, NoSources, sources
  <2>2. CASE \/ DisableWatchdog \/ RefuseSoleSource \/ AcquireFails \/ EnterPhysical
             \/ \E got \in Sampled : AcquireSources(got)
             \/ Derive \/ DeriveFails \/ MnemonicGeneration \/ DisplayScrub \/ OpenEntry
    BY <1>2, <2>2 DEF DisableWatchdog, RefuseSoleSource, AcquireFails, EnterPhysical,
       AcquireSources, Derive, DeriveFails, MnemonicGeneration, DisplayScrub, OpenEntry
  <2>3. CASE \/ DeriveGrid \/ ScrubAfterVerification
             \/ \E ok \in BOOLEAN : CustomAddress(ok)
             \/ \E result \in {"shown", "refused", "failed"} : ExportComputed(result)
             \/ WipeForMenu
    BY <1>2, <2>3 DEF DeriveGrid, ScrubAfterVerification, CustomAddress, ExportComputed,
       WipeForMenu
  <2>4. CASE WipeForShutdown
    <3>1. sm.state \in Later
      BY <2>4 DEF WipeForShutdown, Later, PostSecret, CeremonyStates, CleanTeardown, FatalChain
    <3>2. NoSources
      BY <3>1 DEF IInv, SourcesCurrent
    <3> QED
      BY <1>1, <2>4, <3>2, PhaseSteps DEF WipeForShutdown, ScrubSecrets, NoSources, sources,
         Held, PhaseOutcome
  <2>5. CASE ShutdownAccepted \/ ShutdownRefused
    <3>1. Held' = Held
      BY <2>5 DEF ShutdownAccepted, ShutdownRefused, Held, sources, entry, secrets
    <3> QED BY <2>5, <3>1, PhaseSteps DEF ShutdownAccepted, ShutdownRefused, PhaseOutcome
  <2>6. CASE ExitToFirmware
    BY <1>3, <2>6 DEF ExitToFirmware, ScrubSources, NoSources, Handled, PreSecretStates,
       Later, PostSecret, CeremonyStates, CleanTeardown, FatalChain
  <2> QED BY <1>6, <2>1, <2>2, <2>3, <2>4, <2>5, <2>6 DEF Driver
<1> QED BY <1>4, <1>5, <1>6 DEF Next

(* The safety half of ImplementsSecretPhase: the phase returns only with   *)
(* every store empty, and never once it has begun to stop the computer.    *)
(* That it does stop it is fairness, which TLC checks.                     *)
THEOREM ReturnsOnlyEmpty == Spec => Phase!Begin /\ [][Phase!PhaseNext]_(Phase!phaseVars)
<1>1. Init => Phase!Begin
  BY DEF Init, Phase!Begin
<1> QED BY <1>1, Invariance, NextMaps, PTL DEF Spec
=============================================================================
