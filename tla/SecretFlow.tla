---------------------------- MODULE SecretFlow ----------------------------
(***************************************************************************)
(* The secret-phase driver of seed-flow (flow_secret/driver.rs,            *)
(* run_secret_flow): from the state handed over by the pre-secret driver   *)
(* through entropy collection, derivation, display, re-entry, passphrase   *)
(* and verification to power-off, or back to the launcher's menu.          *)
(*                                                                         *)
(* The driver is one thread dispatching on the state of the machine.       *)
(* pc = "loop" is the top of that dispatch; the other places are the       *)
(* points inside an arm where it waits for a key, or where another arm's   *)
(* helper returns.  The environment chooses the keys, the results of the   *)
(* entropy sources, of the cryptography and of the shutdown request, and   *)
(* whether a watchdog re-assertion fails.                                  *)
(*                                                                         *)
(* Entropy records carry the number of the setup commit they were          *)
(* collected under, so that a record kept across a change of mind shows.   *)
(* Words are their positions; a secret buffer is present or absent, except *)
(* for the two passphrase buffers, which hold what was typed.              *)
(***************************************************************************)
EXTENDS AleaStateMachine, Naturals, Sequences

CONSTANTS
  TwelveLength,      \* word_count_len, scaled down
  TwentyFourLength,
  Chars,             \* printable characters
  MaxPassphrase,     \* MAX_PASSPHRASE_LEN, scaled down
  MaxCommits,        \* bound on setup commits in a run
  Approved,          \* machine sources the compiled-in policy approves
  SoleApproved,      \* those it allows as a sole source
  WatchdogMayFail,   \* TRUE: a re-assertion may fail
  CryptoMayFail      \* TRUE: the derivations may report an error

MachineTags == {"ApprovedEfiRng", "X86Rdseed64", "X86RdrandSupplementary", "Tpm"}

ASSUME LengthsAssumption ==
  /\ TwelveLength \in Nat \ {0}
  /\ TwentyFourLength \in Nat \ {0}
  /\ MaxPassphrase \in Nat \ {0}
  /\ MaxCommits \in Nat \ {0}
ASSUME PolicyAssumption ==
  /\ Approved \subseteq MachineTags
  /\ SoleApproved \subseteq Approved \ {"X86RdrandSupplementary", "Tpm"}
ASSUME FailureAssumption ==
  WatchdogMayFail \in BOOLEAN /\ CryptoMayFail \in BOOLEAN

VARIABLES
  sm,            \* the StateMachine
  pc,            \* where run_secret_flow is
  commits,       \* number of the setup commit in force
  extras,        \* MachineExtras.tpm
  staging,       \* PhysicalStaging: commits its events were entered under
  machine,       \* AcquiredSources: records [tag, commit]
  wordCount,     \* the local word_count
  position,      \* the local position
  matched,       \* history: positions matched since the words were shown
  phrase,        \* arena.passphrase()
  confirm,       \* arena.passphrase_confirm()
  typed,         \* history: what this entry screen was given
  firstTyped,    \* history: what the first entry screen was given
  resident,      \* arena fields holding a secret
  public,        \* wallet-identifying locals: the grid, the export values
  returnToMenu,  \* return_to_menu
  choice,        \* history: the operator's latest choice of how to end
  outcome        \* SecretFlowOutcome, or how the computer was stopped

sources  == <<commits, extras, staging, machine>>
words    == <<wordCount, position, matched>>
entry    == <<phrase, confirm, typed, firstTyped>>
secrets  == <<resident, public>>
ending   == <<returnToMenu, choice, outcome>>
vars     == <<sm, pc, sources, words, entry, secrets, ending>>

Places == {"launch", "loop", "acquireFailed", "unapproved", "physical",
  "typing", "gridDerived", "gridFailed", "browse", "builder",
  "customDerived", "customResult", "exportGate", "exportDerived", "export",
  "deriveFailed", "notice", "shutdown", "retry", "ended"}

DerivationStage == {"bip39_seed", "master_key", "master_chain_code"}
ArenaFields     == {"final_entropy", "mnemonic_indexes"} \cup DerivationStage

Outcomes == {"Running", "ExitedToFirmwareBeforeSecret", "BackBeforeSecret",
             "DestroyedReturnToMenu", "PoweredOff", "Halted"}

Record  == [tag : MachineTags, commit : 1 .. MaxCommits]
Phrases == UNION {[1 .. n -> Chars] : n \in 0 .. MaxPassphrase}

(* word_count_len *)
Length(wc) == CASE wc = "Twelve"     -> TwelveLength
                [] wc = "TwentyFour" -> TwentyFourLength
                [] wc = None         -> 0

TypeOK ==
  /\ sm \in Machine
  /\ pc \in Places
  /\ commits \in 1 .. MaxCommits
  /\ extras \in BOOLEAN
  /\ staging \subseteq 1 .. MaxCommits
  /\ machine \subseteq Record
  /\ wordCount \in WordCount \cup {None}
  /\ position \in 0 .. Length(wordCount)
  /\ matched \subseteq 0 .. Length(wordCount)
  /\ phrase \in Phrases /\ confirm \in Phrases
  /\ typed \in Phrases /\ firstTyped \in Phrases
  /\ resident \subseteq ArenaFields
  /\ public \subseteq {"grid", "export"}
  /\ returnToMenu \in BOOLEAN
  /\ choice \in {"none", "menu", "off"}
  /\ outcome \in Outcomes

(* The pre-secret driver hands over right after its SetupCommitted. *)
Init ==
  /\ \E w \in WordCount, mode \in EntropyMode :
       sm = CommitSetup(At(NewMachine, "SetupSelection"), SetupCommitted(w, mode))
  /\ pc = "launch"
  /\ commits = 1 /\ extras \in BOOLEAN
  /\ staging = {} /\ machine = {}
  /\ wordCount = None /\ position = 0 /\ matched = {}
  /\ phrase = <<>> /\ confirm = <<>> /\ typed = <<>> /\ firstTyped = <<>>
  /\ resident = {} /\ public = {}
  /\ returnToMenu = FALSE /\ choice = "none" /\ outcome = "Running"

---------------------------------------------------------------------------
(* transition(): the event, and a re-assertion that may fail. *)
Send(e) ==
  \E fails \in (IF WatchdogMayFail THEN BOOLEAN ELSE {FALSE}) :
    sm' \in Transition(sm, e, fails)

(* The usual end of an arm: send the event and dispatch again. *)
Fire(e) == Send(e) /\ pc' = "loop"

Arm(s)  == pc = "loop" /\ sm.state = s

Goto(p) == pc' = p /\ UNCHANGED sm

End(o)  == pc' = "ended" /\ outcome' = o

\* Mutant: the machine records are forgotten.
ScrubPhysicalOnly == staging' = {} /\ UNCHANGED <<machine, commits, extras>>

(* staging.scrub(), machine_sources.scrub() *)
ScrubSources == staging' = {} /\ machine' = {} /\ UNCHANGED <<commits, extras>>

---------------------------------------------------------------------------
(* Entropy collection. *)

DisableWatchdog ==
  /\ pc = "launch"
  /\ Goto("loop")
  /\ UNCHANGED <<sources, words, entry, secrets, ending>>

DisableFails ==
  /\ pc = "launch" /\ WatchdogMayFail
  /\ End("ExitedToFirmwareBeforeSecret")
  /\ UNCHANGED <<sm, sources, words, entry, secrets, returnToMenu, choice>>

(* MachineSourceGate::acquire samples what the policy approves, the TPM    *)
(* only if opted in.  assemble_acquired_sources: RDRAND is kept only       *)
(* beside another source.                                                  *)
Sampled == SUBSET {t \in Approved : t = "Tpm" => extras}
Primary(got) == got \ {"X86RdrandSupplementary"} # {}

(* has_sole_source_approved *)
HasSoleSource(records) == \E r \in records : r.tag \in SoleApproved

AcquireSources(got) ==
  /\ Arm("MachineEntropyAcquisition")
  /\ Primary(got)
  /\ machine' = machine \cup {[tag |-> t, commit |-> commits] : t \in got}
  /\ Send(Plain("MachineEntropyComplete"))
  /\ pc' = IF sm'.state = "FinalGenerationConfirmation" /\ ~HasSoleSource(machine')
             THEN "unapproved" ELSE "loop"
  /\ UNCHANGED <<commits, extras, staging, words, entry, secrets, ending>>

RefuseSoleSource ==
  /\ pc = "unapproved"
  /\ machine' = {}
  /\ Fire(MachineEntropyFailed("ExitToFirmware"))
  /\ UNCHANGED <<commits, extras, staging, words, entry, secrets, ending>>

AcquireFails ==
  /\ Arm("MachineEntropyAcquisition")
  /\ Goto("acquireFailed")
  /\ UNCHANGED <<sources, words, entry, secrets, ending>>

AcknowledgeAcquireFailure ==
  /\ pc = "acquireFailed"
  /\ Fire(MachineEntropyFailed("ExitToFirmware"))
  /\ UNCHANGED <<sources, words, entry, secrets, ending>>

(* A fresh session; rolls and flips are staged until its budget is met.    *)
EnterPhysical ==
  /\ Arm("PhysicalCollection")
  /\ Goto("physical")
  /\ UNCHANGED <<sources, words, entry, secrets, ending>>

RecordPhysical ==
  /\ pc = "physical"
  /\ staging' = staging \cup {commits}
  /\ UNCHANGED <<sm, pc, commits, extras, machine, words, entry, secrets, ending>>

PhysicalBudgetMet ==
  /\ pc = "physical" /\ commits \in staging
  /\ Fire(Plain("PhysicalBudgetMet"))
  /\ UNCHANGED <<sources, words, entry, secrets, ending>>

(* PhysicalEntryOutcome::Back *)
PhysicalBack ==
  /\ pc = "physical"
  /\ staging' = {}
  /\ Fire(Plain("Back"))
  /\ UNCHANGED <<commits, extras, machine, words, entry, secrets, ending>>

Generate ==
  /\ Arm("FinalGenerationConfirmation")
  /\ Fire(Plain("FinalConfirm"))
  /\ UNCHANGED <<sources, words, entry, secrets, ending>>

ConfirmationBack ==
  /\ Arm("FinalGenerationConfirmation")
  /\ ScrubSources
  /\ Fire(Plain("Back"))
  /\ UNCHANGED <<words, entry, secrets, ending>>

---------------------------------------------------------------------------
(* Setup, reached again by going back. *)

\* Mutant: the records of the earlier mode stay.
RecordsKept(records) == records

(* A commit starts from a clean set of machine records. *)
RecordsAfterCommit(records) == {}

Recommit(w, mode, tpm) ==
  /\ Arm("SetupSelection") /\ sm.wordCount # None
  /\ commits < MaxCommits
  /\ commits' = commits + 1
  /\ extras' = tpm
  /\ machine' = RecordsAfterCommit(machine)
  /\ Fire(SetupCommitted(w, mode))
  /\ UNCHANGED <<staging, words, entry, secrets, ending>>

SetupBack ==
  /\ Arm("SetupSelection") /\ sm.wordCount # None
  /\ Send(Plain("Back"))
  /\ ScrubSources
  /\ End("BackBeforeSecret")
  /\ UNCHANGED <<words, entry, secrets, returnToMenu, choice>>

---------------------------------------------------------------------------
(* Derivation. *)

(* The pipeline refuses an empty input and two records with one tag. *)
Acceptable ==
  /\ staging # {} \/ machine # {}
  /\ \A r, s \in machine : r.tag = s.tag => r = s

(* derive::derive scrubs the sources whether it succeeds or not. *)
Derive ==
  /\ Arm("FinalEntropyDerivation") /\ Acceptable
  /\ ScrubSources
  /\ resident' = resident \cup {"final_entropy", "mnemonic_indexes"}
  /\ wordCount' = sm.wordCount
  /\ Fire(Plain("DerivationComplete"))
  /\ UNCHANGED <<position, matched, entry, public, ending>>

DeriveFails ==
  /\ Arm("FinalEntropyDerivation") /\ (CryptoMayFail \/ ~Acceptable)
  /\ ScrubSources
  /\ resident' \in {resident, resident \cup {"final_entropy"}}
  /\ Fire(DerivationFailed("ReturnToMenu"))
  /\ UNCHANGED <<words, entry, public, ending>>

MnemonicGeneration ==
  /\ Arm("MnemonicGeneration")
  /\ Fire(Plain("MnemonicReady"))
  /\ UNCHANGED <<sources, words, entry, secrets, ending>>

---------------------------------------------------------------------------
(* Display, destruction and re-entry. *)

(* Whatever was matched before the words are shown again does not count.   *)
Hide ==
  /\ Arm("MnemonicDisplay")
  /\ matched' = {}
  /\ Fire(Plain("HideAndReenter"))
  /\ UNCHANGED <<sources, wordCount, position, entry, secrets, ending>>

RequestDestroy ==
  /\ Arm("MnemonicDisplay")
  /\ Fire(Plain("DestroyRequested"))
  /\ UNCHANGED <<sources, words, entry, secrets, ending>>

ConfirmDestroy(how) ==
  /\ Arm("DestroyConfirm")
  /\ choice' = how /\ returnToMenu' = (how = "menu")
  /\ Fire(Plain("DestroyConfirmed"))
  /\ UNCHANGED <<sources, words, entry, secrets, outcome>>

CancelDestroy ==
  /\ Arm("DestroyConfirm")
  /\ Fire(Plain("Continue"))
  /\ UNCHANGED <<sources, words, entry, secrets, ending>>

\* Mutant: re-entry resumes where it was.
PositionKept(p) == p

PositionAfterScrub(p) == 0

DisplayScrub ==
  /\ Arm("DisplayScrub")
  /\ position' = PositionAfterScrub(position)
  /\ Fire(Plain("ScrubComplete"))
  /\ UNCHANGED <<sources, wordCount, matched, entry, secrets, ending>>

\* Mutant: off by one at the last word.
WordMatchesOffByOne ==
  /\ Arm("CompleteHiddenReentry")
  /\ position' = position + 1
  /\ matched' = matched \cup {position}
  /\ Fire(Plain(IF position' > Length(wordCount) THEN "ReentryComplete"
                                                 ELSE "ReentryPositionMatched"))
  /\ UNCHANGED <<sources, wordCount, entry, secrets, ending>>

WordMatches ==
  /\ Arm("CompleteHiddenReentry")
  /\ position' = position + 1
  /\ matched' = matched \cup {position}
  /\ Fire(Plain(IF position' >= Length(wordCount) THEN "ReentryComplete"
                                                  ELSE "ReentryPositionMatched"))
  /\ UNCHANGED <<sources, wordCount, entry, secrets, ending>>

WordDiffers ==
  /\ Arm("CompleteHiddenReentry")
  /\ Fire(Plain("ReentryMismatch"))
  /\ UNCHANGED <<sources, words, entry, secrets, ending>>

AnswerMismatch(kind) ==
  /\ Arm("ReentryMismatchChoice")
  /\ Fire(Plain(kind))
  /\ UNCHANGED <<sources, words, entry, secrets, ending>>

---------------------------------------------------------------------------
(* Passphrase. *)

DeclinePassphrase ==
  /\ Arm("PassphraseOffer")
  /\ phrase' = <<>>
  /\ Fire(Plain("PassphraseUseEmpty"))
  /\ UNCHANGED <<sources, words, confirm, typed, firstTyped, secrets, ending>>

(* The optional keyboard check that comes first changes nothing: its       *)
(* result is not looked at.                                                *)
AcceptPassphrase ==
  /\ Arm("PassphraseOffer")
  /\ Fire(Plain("PassphraseOfferYes"))
  /\ UNCHANGED <<sources, words, entry, secrets, ending>>

(* run_entry does not clear the buffer it is given. *)
OpenEntry ==
  /\ pc = "loop" /\ sm.state \in {"PassphraseEntry", "PassphraseConfirm"}
  /\ typed' = <<>>
  /\ Goto("typing")
  /\ UNCHANGED <<sources, words, phrase, confirm, firstTyped, secrets, ending>>

Pushed(buffer, c) == IF Len(buffer) < MaxPassphrase THEN Append(buffer, c) ELSE buffer
Popped(buffer)    == IF buffer = <<>> THEN buffer ELSE SubSeq(buffer, 1, Len(buffer) - 1)

First == sm.state = "PassphraseEntry"

TypeChar(c) ==
  /\ pc = "typing"
  /\ typed' = Pushed(typed, c)
  /\ IF First THEN phrase' = Pushed(phrase, c) /\ UNCHANGED confirm
              ELSE confirm' = Pushed(confirm, c) /\ UNCHANGED phrase
  /\ UNCHANGED <<sm, pc, sources, words, firstTyped, secrets, ending>>

TypeBackspace ==
  /\ pc = "typing"
  /\ typed' = Popped(typed)
  /\ IF First THEN phrase' = Popped(phrase) /\ UNCHANGED confirm
              ELSE confirm' = Popped(confirm) /\ UNCHANGED phrase
  /\ UNCHANGED <<sm, pc, sources, words, firstTyped, secrets, ending>>

CancelEntry ==
  /\ pc = "typing" /\ First
  /\ phrase' = <<>>
  /\ Fire(Plain("PassphraseUseEmpty"))
  /\ UNCHANGED <<sources, words, confirm, typed, firstTyped, secrets, ending>>

CommitEntry ==
  /\ pc = "typing" /\ First
  /\ firstTyped' = typed
  /\ Fire(Plain(IF phrase = <<>> THEN "PassphraseUseEmpty" ELSE "PassphraseEntered"))
  /\ UNCHANGED <<sources, words, phrase, confirm, typed, secrets, ending>>

\* Mutant: a mismatch keeps the first entry, and the next one adds to it.
PhraseKept(matches) == phrase

(* What a confirmation leaves in the first buffer: a mismatch, or Escape,  *)
(* discards it together with the second one.                               *)
KeptPhrase(matches) == IF matches THEN phrase ELSE <<>>

ConfirmEntry(matches) ==
  /\ pc = "typing" /\ ~First
  /\ matches => confirm = phrase
  /\ phrase' = KeptPhrase(matches)
  /\ confirm' = <<>>
  /\ Fire(Plain(IF matches THEN "PassphraseConfirmMatch" ELSE "PassphraseConfirmMismatch"))
  /\ UNCHANGED <<sources, words, typed, firstTyped, secrets, ending>>

---------------------------------------------------------------------------
(* Verification. *)

(* compute_extended_verification_values fills the arena fields and then    *)
(* the grid; an error leaves the fields and part of the grid behind.       *)
DeriveGrid ==
  /\ Arm("DerivationVerificationDisplay")
  /\ resident' = resident \cup DerivationStage
  /\ public' = public \cup {"grid"}
  /\ \/ Goto("gridDerived")
     \/ CryptoMayFail /\ Goto("gridFailed")
  /\ UNCHANGED <<sources, words, entry, ending>>

\* Mutant: the seed field is forgotten.
ScrubKeysOnly(fields) == fields \ {"master_key", "master_chain_code"}

(* scrub_derivation_stage *)
ScrubDerivationStage(fields) == fields \ DerivationStage

ScrubAfterVerification ==
  /\ pc = "gridDerived"
  /\ resident' = ScrubDerivationStage(resident)
  /\ Goto("browse")
  /\ UNCHANGED <<sources, words, entry, public, ending>>

OpenBranch(place) ==
  /\ pc = "browse"
  /\ Goto(place)
  /\ UNCHANGED <<sources, words, entry, secrets, ending>>

(* Leaving the screen, by [Enter] or for the failure screen, clears the    *)
(* grid.                                                                   *)
FinishVerification ==
  /\ pc = "browse"
  /\ public' = public \ {"grid"}
  /\ Fire(Plain("VerificationAcknowledged"))
  /\ UNCHANGED <<sources, words, entry, resident, ending>>

(* The custom-path builder: a committed path is derived from the mnemonic  *)
(* again and the seed scrubbed before the result is shown.                 *)
LeaveBuilder(place) ==
  /\ pc = "builder"
  /\ Goto(place)
  /\ UNCHANGED <<sources, words, entry, secrets, ending>>

CommitPath ==
  /\ pc = "builder"
  /\ resident' = resident \cup {"bip39_seed"}
  /\ Goto("customDerived")
  /\ UNCHANGED <<sources, words, entry, public, ending>>

(* Either result, the fatal one leaving the verification screen. *)
CustomAddress(ok) ==
  /\ pc = "customDerived"
  /\ ok \/ CryptoMayFail
  /\ resident' = ScrubDerivationStage(resident)
  /\ public' = IF ok THEN public ELSE public \ {"grid"}
  /\ Goto(IF ok THEN "customResult" ELSE "deriveFailed")
  /\ UNCHANGED <<sources, words, entry, ending>>

AcknowledgeResult ==
  /\ pc = "customResult"
  /\ Goto("builder")
  /\ UNCHANGED <<sources, words, entry, secrets, ending>>

(* The export branch: the warning every time, then a derivation per view.  *)
DeclineExport ==
  /\ pc = "exportGate"
  /\ Goto("browse")
  /\ UNCHANGED <<sources, words, entry, secrets, ending>>

(* Entering, or a key that changes what is exported. *)
DeriveExport ==
  /\ pc \in {"exportGate", "export"}
  /\ resident' = resident \cup {"bip39_seed"}
  /\ public' = public \ {"export"}
  /\ Goto("exportDerived")
  /\ UNCHANGED <<sources, words, entry, ending>>

(* Shown, refused because it does not fit, or a failed derivation. *)
ExportComputed(result) ==
  /\ pc = "exportDerived"
  /\ result = "failed" => CryptoMayFail
  /\ resident' = ScrubDerivationStage(resident)
  /\ public' = CASE result = "shown"   -> public \cup {"export"}
                 [] result = "refused" -> public
                 [] result = "failed"  -> public \ {"grid"}
  /\ Goto(IF result = "failed" THEN "deriveFailed" ELSE "export")
  /\ UNCHANGED <<sources, words, entry, ending>>

LeaveExport ==
  /\ pc = "export"
  /\ public' = public \ {"export"}
  /\ Goto("browse")
  /\ UNCHANGED <<sources, words, entry, resident, ending>>

(* show_verification_failure, then the fatal chain. *)
AcknowledgeFailure ==
  /\ pc \in {"gridFailed", "deriveFailed"}
  /\ Fire(Plain("VerificationFailed"))
  /\ UNCHANGED <<sources, words, entry, secrets, ending>>

---------------------------------------------------------------------------
(* The end. *)

FinishChoice(how) ==
  /\ Arm("CompletionEducation")
  /\ choice' = how /\ returnToMenu' = (how = "menu")
  /\ Fire(Plain("EducationAcknowledged"))
  /\ UNCHANGED <<sources, words, entry, secrets, outcome>>

(* scrub_secrets, whose scrub_all zeroes every arena field. *)
ScrubSecrets ==
  /\ resident' = {} /\ phrase' = <<>> /\ confirm' = <<>>
  /\ UNCHANGED <<typed, firstTyped, public>>

\* Mutant: the flag is honoured in the fatal chain too.
MenuReturnAnywhere == sm.state \in CleanTeardown \cup FatalChain /\ returnToMenu

MenuReturn == sm.state \in CleanTeardown /\ returnToMenu

WipeForMenu ==
  /\ pc = "loop" /\ MenuReturn
  /\ ScrubSecrets /\ ScrubSources
  /\ Goto("notice")
  /\ UNCHANGED <<words, ending>>

AcknowledgeNotice ==
  /\ pc = "notice"
  /\ End("DestroyedReturnToMenu")
  /\ UNCHANGED <<sm, sources, words, entry, secrets, returnToMenu, choice>>

(* scrub_and_shutdown: after the wipe, the request, one retry, and the     *)
(* failure screen for ever.                                                *)
WipeForShutdown ==
  /\ pc = "loop"
  /\ sm.state \in CleanTeardown \cup FatalChain \cup {"ShutdownFailedHalt"}
  /\ ~MenuReturn
  /\ ScrubSecrets
  /\ Goto("shutdown")
  /\ UNCHANGED <<sources, words, ending>>

ShutdownAccepted ==
  /\ pc \in {"shutdown", "retry"}
  /\ End("PoweredOff")
  /\ UNCHANGED <<sm, sources, words, entry, secrets, returnToMenu, choice>>

\* Mutant: retry for ever.
ShutdownRetriedForever ==
  /\ pc \in {"shutdown", "retry"}
  /\ pc' = IF pc = "shutdown" THEN "retry" ELSE "shutdown"
  /\ UNCHANGED <<sm, sources, words, entry, secrets, ending>>

ShutdownRefused ==
  /\ \/ pc = "shutdown" /\ pc' = "retry" /\ UNCHANGED outcome
     \/ pc = "retry" /\ End("Halted")
  /\ UNCHANGED <<sm, sources, words, entry, secrets, returnToMenu, choice>>

(* ExitToFirmware, and the last arm of the match, which catches every      *)
(* pre-secret state that has no arm of its own.                            *)
Handled == {"MachineEntropyAcquisition", "PhysicalCollection",
  "FinalGenerationConfirmation", "SetupSelection", "ExitToFirmware"}

ExitToFirmware ==
  /\ pc = "loop"
  /\ sm.state \in (PreSecretStates \ Handled) \cup {"ExitToFirmware"}
  /\ ScrubSources
  /\ End("ExitedToFirmwareBeforeSecret")
  /\ UNCHANGED <<sm, words, entry, secrets, returnToMenu, choice>>

---------------------------------------------------------------------------

(* The keys. *)
Operator ==
  \/ AcknowledgeAcquireFailure
  \/ RecordPhysical \/ PhysicalBudgetMet \/ PhysicalBack
  \/ Generate \/ ConfirmationBack
  \/ \E w \in WordCount, mode \in EntropyMode, tpm \in BOOLEAN : Recommit(w, mode, tpm)
  \/ SetupBack
  \/ Hide \/ RequestDestroy \/ CancelDestroy
  \/ \E how \in {"menu", "off"} : ConfirmDestroy(how) \/ FinishChoice(how)
  \/ WordMatches \/ WordDiffers
  \/ \E kind \in {"RetryPosition", "RevealAgain", "DestroyRequested"} : AnswerMismatch(kind)
  \/ DeclinePassphrase
  \/ AcceptPassphrase
  \/ \E c \in Chars : TypeChar(c)
  \/ TypeBackspace \/ CancelEntry \/ CommitEntry
  \/ \E matches \in BOOLEAN : ConfirmEntry(matches)
  \/ \E place \in {"builder", "exportGate"} : OpenBranch(place)
  \/ FinishVerification
  \/ \E place \in {"browse", "exportGate"} : LeaveBuilder(place)
  \/ CommitPath \/ AcknowledgeResult
  \/ DeclineExport \/ DeriveExport \/ LeaveExport
  \/ AcknowledgeFailure \/ AcknowledgeNotice

(* The steps that wait for nobody. *)
Driver ==
  \/ DisableWatchdog \/ DisableFails
  \/ \E got \in Sampled : AcquireSources(got)
  \/ RefuseSoleSource \/ AcquireFails \/ EnterPhysical
  \/ Derive \/ DeriveFails \/ MnemonicGeneration
  \/ DisplayScrub
  \/ OpenEntry
  \/ DeriveGrid \/ ScrubAfterVerification
  \/ \E ok \in BOOLEAN : CustomAddress(ok)
  \/ \E result \in {"shown", "refused", "failed"} : ExportComputed(result)
  \/ WipeForMenu \/ WipeForShutdown \/ ShutdownAccepted \/ ShutdownRefused
  \/ ExitToFirmware

Next == Operator \/ Driver

Spec     == Init /\ [][Next]_vars
FairSpec == Spec /\ WF_vars(Driver)

---------------------------------------------------------------------------
(* Properties. *)

(* However often the operator went back and chose again, a phrase is       *)
(* derived from what was collected under the choice in force: of every     *)
(* kind the mode asks for, of no other kind, and no record from before;    *)
(* and, SPEC 18.2, from machine entropy alone only with a source that the  *)
(* policy allows as a sole source.                                         *)
DerivesFromCurrentSources ==
  Arm("FinalEntropyDerivation") =>
    /\ staging = IF NeedsPhysical(sm.mode) THEN {commits} ELSE {}
    /\ machine # {} <=> NeedsMachine(sm.mode)
    /\ \A r \in machine : r.commit = commits /\ (r.tag = "Tpm" => extras)
    /\ sm.mode = "MachineOnly" => \E r \in machine : r.tag \in SoleApproved

(* Nobody gets past re-entry without having typed every word since the     *)
(* words were last shown, and re-entry never asks for a word past the last *)
(* one.  So the two faults driver.rs guards against, a position out of     *)
(* range (:638) and a verification without a word count (:805), do not     *)
(* happen, and the model has no action for them.                           *)
WholePhraseReentered ==
  /\ sm.state = "CompleteHiddenReentry" => position < Length(wordCount)
  /\ sm.state \in {"PassphraseOffer", "PassphraseEntry", "PassphraseConfirm",
                   "DerivationVerificationDisplay", "CompletionEducation"} =>
       /\ wordCount = sm.wordCount /\ wordCount # None
       /\ matched = 0 .. Length(wordCount) - 1

(* The passphrase the wallet is derived with is the empty one or one that  *)
(* was typed twice, the same both times.                                   *)
PassphraseTypedTwice ==
  sm.state \in {"DerivationVerificationDisplay", "CompletionEducation"} =>
    phrase = <<>> \/ (phrase = firstTyped /\ phrase = typed)

(* Seed and keys exist while a derivation runs.  They outlive it in one    *)
(* case: a grid that failed, until the fatal chain wipes them.             *)
SeedOnlyWhileDeriving ==
  resident \cap DerivationStage # {} =>
    \/ pc \in {"gridDerived", "customDerived", "exportDerived", "gridFailed"}
    \/ pc = "loop" /\ sm.state \in FatalChain

(* SPEC 26: the menu is reached from the clean teardown and only if the    *)
(* operator's latest choice was the menu; a fault never leads there.       *)
MenuOnlyByChoice ==
  outcome = "DestroyedReturnToMenu" => choice = "menu" /\ sm.state \in CleanTeardown

(* Who chose to power off gets a computer that is off, or one that shows   *)
(* the failure screen for ever, even if the watchdog fails on the way; and *)
(* so does, without waiting for anybody, who is in the fatal chain.        *)
StopsTheComputer ==
  choice = "off" \/ sm.state \in FatalChain ~> outcome \in {"PoweredOff", "Halted"}

(* What a caller sees of the phase. *)
Phase == INSTANCE SecretPhase WITH
  outcome <- IF pc \in {"shutdown", "retry"} THEN "Stopping" ELSE outcome,
  held    <- (IF resident = {} /\ phrase = <<>> /\ confirm = <<>> THEN {} ELSE {"arena"})
             \cup (IF staging = {} THEN {} ELSE {"staging"})
             \cup (IF machine = {} THEN {} ELSE {"records"})
             \cup (IF public = {} THEN {} ELSE {"wallet"})

(* The phase returns only with every store empty, never returns once it    *)
(* stops the computer, and does stop it.                                   *)
ImplementsSecretPhase == Phase!PhaseSpec

---------------------------------------------------------------------------
(* What comments of the code say, and the code does otherwise. *)

AwaitsKey == {"gridFailed", "deriveFailed", "browse", "builder",
              "customResult", "exportGate", "export"}

(* driver.rs:791 "the seed/master-key/chain-code are scrubbed BEFORE any   *)
(* input loop opens".                                                      *)
SeedScrubbedBeforeInput == pc \in AwaitsKey => resident \cap DerivationStage = {}
===========================================================================
