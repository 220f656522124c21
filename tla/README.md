# Alea: specification and proofs

Alea is an air-gapped UEFI program that leads one operator through the creation
of a BIP39 phrase: it checks the machine, collects entropy from dice, coins and
hardware sources, shows the words once, has them typed in again, derives
verification addresses and powers the computer off. This directory holds TLA+
models of it, the TLC configurations that check them, and TLAPS proofs about
them. All paths below are under `src/crates/` unless they say otherwise.

The program is single-threaded. What makes it hard is not parallelism but the
length of its protocol: about thirty states, an operator who may go back, change
the mode, destroy, retry or reveal at almost every one of them, checks and
sources that may fail at any point, and a watchdog re-assertion inside every
transition that may override the event that was sent. Secrets must exist only
between two points of that protocol, on every path through it, and several
ceremonies may be run in one process.

## Inventory

| Component | State it keeps | Operations | Talks to | Modelled in |
|---|---|---|---|---|
| Application state machine, `seed-protocol/src/state/mod.rs` | state (with an error class in `PreSecretError`), word count, mode | `transition`, `legal_edge`, `illegal_edge`, `check_failed_target` | watchdog (called in every transition) | `AleaStateMachine`, `OpenMachine` |
| Pre-secret driver, `seed-flow/src/driver.rs` | the machine, results of the checks, locals of the screens | `run_pre_secret_flow`, `step_recoverable`, `drive_gate_step`, `force_exit_after_gate_bypass` | state machine, gate checks, keys | `PreSecretFlow` |
| Secret-phase driver, `seed-flow/src/flow_secret/` | the machine, physical staging, machine records, arena, word count, position, menu flag | one arm of `run_secret_flow` per state; export branch; path builder; scrubs | state machine, sources, pipeline, shutdown | `SecretFlow`, its contract `SecretPhase` |
| Watchdog, `seed-platform-x86/src/watchdog/mod.rs` | disabled or not | `disable`, `reassert` | firmware timer | in the three above, as a call that may fail |
| Physical entry, `seed-protocol/src/physical`, `flow_secret/physical.rs` | 512 packed events, two staging buffers, a display ring | push, undo, clear, budget | keys, secret-phase driver | `PhysicalEntry`, its promise `PhysicalHistory` (and, as one step, `SecretFlow`) |
| Machine acquisition, `flow_secret/machine.rs`, `firmware_wiring.rs`, `seed-platform-x86/src/rng/` | up to five records, one deadline | sample, assemble, sole-source check | firmware protocols, CPU, TPM | `MachineAcquisition` |
| Entropy policy, `seed-protocol/src/policy` | the compiled-in policy | parse, look up a processor or a device | acquisition, setup screen, disclosure | `EntropyPolicy`, `PolicyUse`, `PolicyFiles` |
| Entropy transcript, `seed-protocol/src/transcript` | staged records with their payloads | add, finalize, decode | pipeline | `Transcript`, `TranscriptUse` |
| Secret arena and pipeline, `seed-core/src/arena`, `pipeline` | entropy, indexes, seed, keys, passphrases; the panic registration | derive, scrub stage, scrub all, register | transcript, hashes | which fields are filled, in `SecretFlow`; registration, in `Ceremony`; the address grid, in `Screens` |
| Production program, `seed-uefi-production/src` | session loop, launcher | menu, pages, verifier, ceremony, panic handler | both drivers | `Ceremony` |
| Screens (setup, verification, path builder, export) | cursors, fields, derived values | `handle_key`, derive, scrub | drivers | `SetupScreen`, `PathBuilder`, `ExportScreen`, `Screens` |
| Encodings, derivation, QR, UI, desktop edition, tools, web page | | | | no (see "Not modelled") |

What makes each component correct, and where it is said:

* State machine: the secret boundary is crossed in one place and in one
  direction; the stages of the chosen mode are all done before it; the words are
  off the screen from re-entry on; setup means verified gates. (`OpenMachine`)
* Pre-secret driver: nobody reaches the secret phase with one of the first three
  gates unverified, nor with any when the watchdog answers; a noticed bypass ends
  in firmware. (`PreSecretFlow`)
* Secret-phase driver: the phrase comes from exactly the sources of the mode in
  force; the whole phrase is re-entered; the passphrase was typed twice; seed and
  keys live only while a derivation runs; every end is clean; the menu is reached
  only by choice and power-off always happens. (`SecretFlow`, `SecretPhase`)
* Physical entry: the bytes derived from are the events counted, in order; what is
  handed on carries the target although the budget rounds up; what was undone is
  overwritten; a full history is not a trap. (`PhysicalEntry`)
* Machine acquisition: a record is made of blocks that passed every check; a
  primary source decides; what is handed over was sampled in this acquisition; no
  block is read past the budget, and acquisition ends. (`MachineAcquisition`)
* Policy: the parser accepts exactly the well-formed files, stores what they say,
  and the lookups answer it. (`PolicyFiles`)
* Transcript: whatever is staged fits; the bytes that are hashed determine the
  sources, whatever the order of staging. (`TranscriptUse`)
* Production program: after a panic the arena is clean, the registration never
  dangles, nobody but the ceremony finds anything of it, and every ceremony runs its
  own gates, on a screen of the size it was opened with. (`Ceremony`)
* Screens: what is committed was on offer; an address stands beside its own path;
  an export is that of the selection shown. (`Screens`)

## Modules

How they depend on each other:

    AleaStateMachine <- OpenMachine, PreSecretFlow, SecretFlow      (the machine, called)
    SecretPhase      <- SecretFlow (implements it), Ceremony (is built on it)
    PhysicalHistory  <- PhysicalEntry (implements it)
    EntropyPolicy    <- PolicyUse <- PolicyFiles <- MCPolicy
    Transcript       <- TranscriptUse <- MCTranscript
    SetupScreen, PathBuilder, ExportScreen <- Screens <- MCScreens
    MachineAcquisition stands alone; SecretFlow has it as one step.

The theorems stand in eight modules:

    AleaStateMachine_proofs     the table of edges            (used by the next three)
    AnyDriver_proofs            OpenMachine and Ceremony
    PreSecretFlow_proofs        PreSecretFlow
    SecretFlow_proofs           SecretFlow
    PhysicalEntry_proofs        PhysicalEntry, PhysicalHistory
    EntropyInput_proofs         MachineAcquisition and TranscriptUse
    PolicyFiles_proofs          PolicyFiles
    Screens_proofs              Screens

### AleaStateMachine

No variables. A machine is the record `[state, error, wordCount, mode]`;
`Transition(m, e, fails)` is the set of machines one call of
`StateMachine::transition` may return for event `e`, `fails` saying whether the
call's single watchdog re-assertion failed. The order of its tests is the code's:
terminal states absorb, the fatal chain advances unconditionally, then the
watchdog, then a legal edge, then the routing of an illegal event. The edges whose
target is fixed are one table (`PlainEdges`, in groups that follow the match of
`legal_edge`); the others have an operator each (`CheckFailedTarget`, `CommitSetup`,
`AfterMachine`, `ResumeState`). The `instrument` field routes nothing and is left out.

### OpenMachine

The machine under an arbitrary environment: every event, legal (`LegalCall`) or not
(`IllegalCall`), at every state, and any watchdog failure (`WatchdogFails`). Four
history variables record which gates passed their latest check (`verified`), which
entropy stages are complete since the last commit (`collected`), whether the display
was scrubbed since it last showed the words (`hidden`), and whether every call so far
was one a disciplined driver makes, answered by the watchdog (`steady`). What holds
here holds for every driver. It has no constants.

### PreSecretFlow

`run_pre_secret_flow`. `pc` is the place in the function; `step_recoverable` is a
subroutine whose argument is `event` and whose caller is `site`. `last` are the
locals `last_platform`, `last_console` and `last_crypto` (the graphics entry is
kept only by the model). The checks answer `clean` or `blocked`; `blocked` stands
for both Failed and Inconclusive, which `CheckOutcome::blocks_generation` treats
alike. The device screen is modelled with its skip key, armed by one press and
taken by the second in the edition that asks for it (`SkipNeedsSecondKey`).

### SecretFlow

`run_secret_flow`, from the state handed over to the way the ceremony ends. `pc =
"loop"` is the head of the `match`; the other places are the waits inside an arm.
Words are positions, arena fields are present or absent, entropy records carry
the number of the setup commit they were collected under (a history value the
code does not have, and which no guard reads), and the two passphrase buffers hold
what was typed. `typed`, `firstTyped`, `matched` and `choice` are history
variables, written and never read by an action. `Operator` collects the steps that
need a key, `Driver` the others.

### SecretPhase and Ceremony

`SecretPhase` is what `run_secret_flow` promises its caller: while it runs any of its
four stores (arena, physical staging, machine records, wallet data on the stack) may
hold something; it returns only with all of them empty; once it has begun to stop the
computer it never returns, and it does stop. `SecretFlow` is shown to implement it.

`Ceremony` is the production program around the two drivers: start with the
framebuffer, the landing menu with its read-only pages, the separate verifier started
from the menu (another image, which may leave any video mode), the session loop
that runs one ceremony after another in one process, `run_secret_phase` with the
arena on its stack and the arena's registration for the panic handler, and a panic at
any step of the program's own code. A video mode is its size, its pixel format and its
stride. The session keeps a framebuffer with those of the mode set at start; the
graphics gate (`GraphicsAvailable`) reads the mode again and compares size and
linearity only, as the code does. The pre-secret driver is here by its outcome: what it
hands over (`HandOff`) is what `HandoffGuarded` says of it and no more, so the
cryptographic gate has been run, but passed for certain only if every re-assertion was
answered. The secret phase is here by `SecretPhase`. Arenas carry the number of the
ceremony that made them, so that a pointer to one that is gone shows.

### PhysicalHistory and PhysicalEntry

`PhysicalHistory` is what the dice and coin screen promises: one history that is
extended, taken back and cleared, and whose dice and coins are handed on in the
order they fell, once it carries the target. The order is said without counting: the
places of the dice, taken in ascending order (`Ascending`).

`PhysicalEntry` is how the code does it: `session`, `staging` and `ring` are the
three stores, with the code's arrays, lengths and ring arithmetic, and one action
per key of `run_physical_entry`. `pc` tells the two places where the screen waits
(`entry`, and `clearing` for the confirmation of `[C]`) from the places of the
driver that matter to the stores: the Generate screen, setup, and after the
derivation. Session and ring are locals of a visit, so leaving drops and scrubs
them; the staging belongs to the driver and outlives the visit. `Face` and `Side`
are enabled below the capacity only, because the code ignores a key whose push was
refused. `Abstract` maps the session to the history and the staging, at the
Generate screen, to what was handed on.

### MachineAcquisition

`ProdMachineSourceGate::acquire` with the five samplers of `rng/` and
`assemble_acquired_sources`, repeated as often as the operator commits another
setup. `left` is what remains of the one deadline: a call takes any part of it, none
included, and a call under way cannot be interrupted. A block is `dead` (all zeros or
all ones), `x` or `y`: what the health checks can tell about it is whether it is
constant and whether it equals the one before. The samplers differ in whether they
ask firmware before they read, check the manufacturer, how many blocks and pieces
they read and how often they retry; those differences are one table. `late` is a
history variable for reads begun after the deadline.

### EntropyPolicy, PolicyUse, PolicyFiles, MCPolicy

`EntropyPolicy` is the parser, one action per line: the section a key belongs to, the
tables opened, the keys met with their values, the record of an array section being
read, the records finished. A line stands for what the lexical rules make of it; a
value is a form and a content, with the widths and bounds that decide about it
(`"huge"` fits no integer type, `"long"` no field). `PolicyUse` is the lookups (range
matching, last rule wins, denylist, microcode condition, devices) and the two places
that ask about RDSEED. `PolicyFiles` feeds the parser files: any of `BaseFiles`, edited
once at any place by taking lines out, moving them, putting some of `Insertions` in, or
giving a key another value. It defines over the whole file what well-formed means and
what a policy must hold and answer; the parser sees one line at a time, so the two are
independent. `MCPolicy` chooses the files: the one the program carries (`Shipped`), the
same with every source approved (`AllApproved`), and the lines an edit may put in.

### Transcript, TranscriptUse, MCTranscript

`Transcript` is the builder (records in staging order, payloads packed in one scratch
buffer with offsets), `Serialize` (domain, header, and for each tag in canonical order
what `Written` says) and `Decode`, whose loop over the records is the function `Rounds`.
Bytes are numbers, and lengths keep the width of the field they are written to.
`TranscriptUse` offers sources in any order, serializes, alters a byte or receives records
put together elsewhere (wrong counts, wrong bitmaps, wrong order), and decodes.
`MCTranscript` chooses the tags and the payloads, on both sides of every limit.

### SetupScreen, PathBuilder, ExportScreen, Screens, MCScreens

One module per screen with several fields, one operator per key. `SetupScreen` has the
offer change between any two keys, because the driver computes it anew for every
frame. `PathBuilder` also has the parser of typed paths, with which the separate
verifier reads a path back. `ExportScreen` keeps the set of values that is used again
for every selection; a value is named by what it was made from. `Screens` composes
them with the verification screen, its grid of addresses with the flat index of
`ExtendedVerificationValues`, and the warning in front of the export. A step back in a
row of choices is all the others forward (`Stride`), as `prev_row` and `cycle_mode`
compute it without a negative number.

### *_proofs

The theorems and their proofs, see "Proofs". `AnyDriver_proofs` has what the program
keeps to whatever its two drivers do: the state machine under any calls, and the process
around the drivers (whose specification is named `ProgramSpec`, beside the `Spec` of the
machine). `EntropyInput_proofs` has what goes into the phrase: the acquisition of machine
sources, and the transcript in which all sources are hashed (`TranscriptSpec`).

## Runs

| Run | Instance | Distinct states | Shows |
|---|---|---|---|
| `open_any` | any event, any watchdog failure | 10,022 | The edges alone keep the secret boundary (`NoWayBackFromSecret`, `SecretNeedsConfirmation`), the stages of the mode (`EveryStageCollected`) and the display scrub (`WordsHiddenDuringReentry`); setup means all four gates passed as long as calls are disciplined and the watchdog answers (`GatesBeforeSetup`) |
| `pre_failing` | up to three failing re-assertions | 1,139 | A run is handed over with the first three gates clean and the fourth run, clean too if no re-assertion failed (`HandoffGuarded`); a bypass ends in firmware (`BypassEndsInFirmware`) |
| `secret_any` | three commits, phrases of 2 and 3 words, passphrases of up to 2 of two characters, everything may fail | 86,190 | Where the phrase comes from (`DerivesFromCurrentSources`), what was typed (`WholePhraseReentered`, `PassphraseTypedTwice`), what stays in memory (`SeedOnlyWhileDeriving`), how it ends (`MenuOnlyByChoice`, `StopsTheComputer`), that it keeps its contract (`ImplementsSecretPhase`), and `TypeOK`, whose bound on the re-entry position the code relies on |
| `physical_entry` | history of 5, strip of 3, target of 4 bits, two faces | 11,012 | `Lockstep`, `WitnessedBits`, `StripShowsLatest`, `DeadSlotsZero`, `FullIsEnough`, and that the screen implements `PhysicalHistory` (`KeepsHistory`) |
| `acquisition` | two acquisitions, a budget of two clock steps, all five sources | 19,534 | `RecordsChecked`, `PrimaryDecides`, `HandsOverSampled`, `NoReadPastBudget`, `AcquisitionEnds`, and `TypeOK`, which bounds the retry and round counters |
| `ceremony` | three ceremonies in one process | 18,150 | After a panic the arena is clean (`PanicLeavesArenaClean`), its registration never dangles (`NeverDangling`), nobody finds anything of a ceremony (`OthersFindNothing`); a secret is made behind a gate run of its own ceremony and on a screen that is linear and of the size the session draws with (`SecretBehindFreshGates`), which says nothing of pixel format and stride |
| `policy` | two base files, one edit (`MCPolicy`) | 53,306 | `AcceptsExactlyWellFormed`, `StoresWhatIsWritten`, `AnswersAsWritten` |
| `transcript` | four tags, a tight buffer, 15 payloads | 55,859 | `AlwaysFits`, `DecodesWhatSerializes` |
| `screens` | paths of three levels, the grid in its real size | 203,531 | `SetupCommitsOffered`, `SetupNeverTraps`, `AddressMatchesPath`, `ExportShowsSelected` |

Three further runs have `expect: violation`; each shows that the code does not do
what a comment of it says:

| Run | Property | Disagreement |
|---|---|---|
| `pre_bypass` | `HandoffVerified` | `driver.rs:66` says no run is handed over with an unverified gate. At the cryptographic gate it can be: the state that means "passed" is the state a watchdog error resumes at. The operator sees a failed check, one re-assertion fails in the transition that reports it, Continue on the error screen, and setup opens |
| `secret_seed` | `SeedScrubbedBeforeInput` | `flow_secret/driver.rs:790` says seed and keys are scrubbed before any input; the failure screen of a failed grid derivation waits for a key first |
| `policy_microcode` | `MicrocodeRequired` | `policy/types.rs:180` says a rule with a minimum microcode revision is not satisfied by a platform whose revision is unknown; neither the offer nor the sampler asks the lookup that looks at it, so such a rule grants RDSEED everywhere |

### Disagreements met while reading, without a run

Comments and code that differ in a way no state can show, or that shows nothing
harmful, or, for the graphics gate, that takes an image or firmware outside the source:

* `flow_secret/passphrase.rs:336` says a failed keyboard check disables the
  passphrase; `flow_secret/driver.rs:710` ignores the result. In the model of the
  screen the result is therefore no state at all.
* `time.rs:136` speaks of at most one slow call past the budget. The TPM samplers
  ask for presence and manufacturer without looking at the deadline (`tpm2.rs:288`,
  `tpm12.rs:287`), so several calls may be made past it. No block is read
  (`NoReadPastBudget`).
* `transcript/mod.rs:566` says decoding accepts exactly what serializing can produce.
  It checks neither the architecture nor the entropy bits of the header, so
  `DecodesWhatSerializes` compares with what a builder would have written under the
  header that was received.
  `TranscriptBuilder::scrub` zeroes the records but neither `record_count` nor
  `scratch_len`; `finalize` consumes the builder, so nothing reads them after.
* `state/mod.rs:239` says a resumed error of a class without a gate has all gates
  behind it; a watchdog failure during a gate has not. This is the reason for
  `steady` in `GatesBeforeSetup` and for the bypass guard of the driver.
* `flow_secret/driver.rs:1004` says the last arm needs a bug of the driver; a watchdog
  failure before the boundary leads there, and is handled by leaving.
* `flow_secret/driver.rs:402` says physical collection is entered once per ceremony;
  Back and a second commit enter it again, with a new session and an emptied staging,
  which is why `PhysicalEntry` has `Revisit`. On a failed grid derivation the arm leaves
  by `continue` and does not reach `ext.scrub()`, which the comment at
  `flow_secret/driver.rs:897` places "on every exit from this screen"; the computer is
  stopped on that path (the contract lets `wallet` survive only into `Stopping`).
* `firmware_wiring.rs:539` says the graphics gate compares resolution and pixel format
  with those captured at start, and `diagnostics.rs:150` that a mode which no longer
  matches is refused. What is captured (`GraphicsInfo`) has no pixel format and no
  stride: a linear mode of the same size with another format or stride passes, and the
  ceremony draws with the old ones. The verifier of this repository selects its mode by
  the rule the program uses, so this takes firmware that has come to report other modes,
  or another image at the verifier's path. `SecretBehindFreshGates` therefore claims
  size and linearity and no more.
* `screens/export.rs:241` says its account bound of 3 matches `N_ACCOUNT_MAX`, which is
  4; a committed `48'` path with another account opens the cosigner view at account 0.
  `screens/setup.rs` describes its row as 0 to 2 beside `ROW_EXTRAS = 3`, and says
  availability is computed once per screen entry where `driver.rs:506` computes it per
  frame; hence the changing offer in `SetupScreen`.
* The comments that count 6 or 7 defined tags are older than the eight there are;
  `launcher.rs:6` says the menu is shown once at boot; the line number that a missing
  field is reported at is not the one the parser's comment gives.

And behaviour that no comment contradicts but a reader should know: the parser requires
`max_algorithms` and `max_manufacturers` and then bounds the lists by compile-time
capacities; it does not bound `min_successful_values`. The offer on the setup screen
does not look at the denylist, so a mode can be offered and then refused at
acquisition. The offer of a TPM 1.2 asks `tpm2.approved`, the acquisition
`tpm12.approved`. The second diagnostic block of the firmware RNG, when its read fails,
leaves the first unscrubbed on the stack. A panic scrubs the arena alone: physical
staging, machine records, wallet data and the framebuffer stay as they are, which
`PanicLeavesArenaClean` does not claim otherwise.

### Bounds, and why they are enough

* `OpenMachine` has no bound: its state space is finite.
* `MaxFailures = 3` (pre-secret): a bypass needs one failure, and the forced exit
  makes two re-assertions per attempt over eight attempts, so three failures can
  spoil a transition and then at least one whole attempt and leave attempts over. A
  watchdog that never stops failing can exhaust the eight attempts; the code says
  it does not try to recover from that, and the bound keeps it out of the liveness
  property. `HandoffGuarded` is proved for every bound. `SkipNeedsSecondKey = TRUE`
  has the more steps; the proof covers both editions.
* `MaxCommits = 3`: a record kept by mistake is one commit old, and the third commit
  lets the operator come back to the first mode.
* `TwelveLength = 2`, `TwentyFourLength = 3` (12 and 24): the code compares a
  position with the length of the phrase; two words are enough for a first, a last
  and a restart in between, and two lengths for the choice to matter.
* `MaxPassphrase = 2` over two characters (128 over 95): enough to reach the
  capacity, to have a prefix, and to have different phrases of one length.
* `Approved`, `SoleApproved`: all machine tags are approved and one may stand
  alone; RDRAND is a supplement that may not be the only source, the firmware RNG is
  a primary source that may not stand alone, and the TPM needs the opt-in.
* `MaxEvents = 5`, `StripCap = 3`, `Target = 4` (512, 11, and 128 or 256): two dice
  or four coins meet the target, so it can be missed, met exactly and passed; the
  history fills, the window wraps and is then undone below its start. The proofs
  cover every other choice. `Faces = {1, 6}`: the code treats all faces alike; two
  are needed to see them swapped.
* Acquisition: `Budget = 2` lets the deadline pass before, between and during two
  calls; `ValuesPerBlock = 2` and retry limits of 1 have a first value, a last one and
  one retry of each; `MaxReadRounds = 2` with `TpmBlockUnits = 3` lets a block be
  complete, or run out of rounds, with short answers; `MaxAcquisitions = 2` lets
  records of an earlier commit be there when the next pushes its own.
* Ceremony: `MaxSessions = 3` has a ceremony before and one after a middle one whose
  registration could dangle; two pages and three categories have a first and a last. The
  verifier leaves each of the twelve modes: size and stride as opened or not, format as
  opened, another linear one, or none.
  The proofs cover every choice.
* Policy: one edit per file; two edits at once have more than 4.6 million states. An
  edit takes lines or a section out, moves them down, puts lines in (a second header,
  a duplicate key, malformed lines, rules that overlap or narrow another) or changes a
  value to one on the wrong side of its width. `MaxRecords = 3` (the shipped file has
  two rules): an array can be filled and overrun. Lookups are asked for three vendors
  with steppings 0, 4 and 255, and for four devices.
* Transcript: four of the eight tags (a machine source, dice, coins, TPM: one of each
  kind of limit), `TranscriptCapacity = 36`, which is exactly the longest transcript of
  these bounds, so that one byte too many anywhere is one too many there. (The
  real buffer of 2048 bytes has room to spare.) The payloads lie on both sides of every
  limit. One byte is altered, to four values; foreign sequences have up to two records
  (`MaxForeignRecords`): enough for a wrong order, a repeated tag and a wrong count. The
  proofs cover any number up to 254 (the count is a byte, and one more than there are is
  tried), any tags, limits and payloads.
* Screens: `MaxDepth = LeafDepth = 3` has a level before, at and after the cursor;
  `MaxLevelValue = 7` stands for 2^31 - 1 with `HardenedOffset = 8`, so a value can be
  stepped past it; purposes are numbered 1 to 7. The grid has its real 4 by 5 by 2 by
  10 cells. The detail toggle of the builder and the wording of its warnings are left out.

Of every module the proofs cover every value the bounds could have; TLC's instances are
there to find a property wrong before it is proved, and for the liveness properties.

Three defensive arms have no action, because they are not reachable: the gate
loop's last arm (`LandGate` covers the states `LandedAsExpected` leaves, and the proved
`AtGates` says where the loop can stand), the re-entry position out of range and the
verification without a word count (`TypeOK` and `WholePhraseReentered` of `SecretFlow`
say so).

`CHECK_DEADLOCK FALSE` where a run may end: the outcomes are terminal and the halt
states have no successor in the models.

### Fairness

The code is a straight loop, so the steps that wait for nobody are taken:

* `PreSecretFlow`, `SecretFlow`: weak fairness of `Driver`. The operator is never
  assumed to press a key, with one exception: the bypass refusal screen, which accepts
  Enter and nothing else, and after which the run is bound to end
  (`WF_vars(AcknowledgeRefusal)`, for `BypassEndsInFirmware`).
* `MachineAcquisition`: weak fairness of `Acquire`, the steps of an acquisition under
  way, which runs to its end without the operator. Whether another one is started is
  the operator's choice.
* `SecretPhase`: weak fairness of `Stopped`, which `SecretFlow` shows to hold from its
  own fairness.

The other modules have no liveness property and no fairness. A menu, a setup screen or
a verification screen may wait for ever, and `SetupNeverTraps` is a safety property:
from every state keys lead to a committable choice.

## Proofs

### The state machine

`AleaStateMachine_proofs` looks at the table of edges once: `EdgeFacts` says of every
plain edge what the theorems need, `LegalEdgeTaken` lifts that to every legal edge,
`NotTakenFacts` covers a call whose event is not taken (terminal, fatal chain,
watchdog, illegal), and `CallFacts` joins them. No later proof looks at a state
enumeration again. `AnyDriver_proofs` then proves, without any assumption:

| Theorem | States |
|---|---|
| `TypeCorrect` | `Spec => []TypeOK` |
| `BoundaryNeverCrossedBack` | `Spec => NoWayBackFromSecret` |
| `ConfirmationNeeded` | `Spec => SecretNeedsConfirmation` |
| `StagesCollected` | `Spec => []EveryStageCollected` |
| `HiddenDuringReentry` | `Spec => []WordsHiddenDuringReentry` |
| `GatesPassedBeforeSetup` | `Spec => []GatesBeforeSetup` |

`TypeOK` is inductive. `EveryStageCollected` is not: in Combined mode the machine stage
is done before the dice, so `StagesInv` adds what each collecting state already owes
and already has. `WordsHiddenDuringReentry` is inductive beside `TypeOK`, because no
edge leads from `MnemonicDisplay` into the screens that follow re-entry without the
scrub. For `GatesBeforeSetup`, `GatesInv` says which gates every state owes (`OwedAt`),
error states by the class of their error; `EdgesOwe` checks the table against it.

### The pre-secret driver

`PreSecretFlow_proofs` proves `HandoffIsGuarded`, that is `Spec => []HandoffGuarded`, for
every `MaxFailures` in the naturals and both editions. `HandoffGuarded` speaks of the
end only; the invariant `Inv` follows the run: `Typed`; `AtGates` (what is clean at the
head of the gate loop); `InGateCall` and `InSetupCall` (what is known while
`step_recoverable` runs, per event, landing place and error class) and `HandedOver`. The
heart is that a gate whose check was blocked can be left forwards only when the event
that reports it is lost to a failed re-assertion; the guard of the driver notices that
at the first three gates and cannot at the fourth, which is why the fourth is
claimed clean only when nothing failed.

### The secret phase

`SecretFlow_proofs` proves, for all lengths of the two phrases, every capacity of a
passphrase and set of characters, every number of commits, every choice of approved and
sole sources (`PolicyAssumption`: RDRAND and a TPM never stand alone), and failures or
none:

| Theorem | States |
|---|---|
| `TypeCorrect` | `Spec => []TypeOK` |
| `SourcesAreCurrent` | `Spec => []DerivesFromCurrentSources` |
| `EveryWordReentered` | `Spec => []WholePhraseReentered` |
| `PassphraseIsTypedTwice` | `Spec => []PassphraseTypedTwice` |
| `SeedOutlivesNothing` | `Spec => []SeedOnlyWhileDeriving` |
| `MenuIsChosen` | `Spec => []MenuOnlyByChoice` |
| `ReturnsOnlyEmpty` | `Spec => Phase!Begin /\ [][Phase!PhaseNext]_(Phase!phaseVars)` |

Every call of `transition` in the driver leads along the edge it names or, when the
watchdog fails, to one of two states that neither collect, display nor verify (`Leads`,
`Lost`, from the table of `AleaStateMachine_proofs`). So what a property says of a state
has to be known only on the edges that enter it, and the invariant says of each store
when it is empty and when it is whole: `NothingSecretYet` (before the derivation),
`SourcesCurrent` (the machine records are dropped by the commit, the rolls by the way
back to setup, and what is collected in between is of this commit), `WordsMatched` (the
positions are matched in order from the first, so reaching the last means all of them),
`Entries` (an entry screen finds its buffer empty although it does not clear it, because
every way in scrubs it), `SecretsShown` and `Endings`. Not one of the properties is
inductive without the part that speaks of its store in the earlier states.
`ReturnsOnlyEmpty` is the safety half of `ImplementsSecretPhase`: the mapped step is a
step of `SecretPhase` or changes nothing (`NextMaps`, action by action).

### Machine acquisition

The first part of `EntropyInput_proofs` proves, for every budget and number of
acquisitions, every retry limit, number of blocks and pieces, and every set of approved
sources:

| Theorem | States |
|---|---|
| `TypeCorrect` | `Spec => []TypeOK` |
| `EveryRecordChecked` | `Spec => []RecordsChecked` |
| `PrimarySourceDecides` | `Spec => []PrimaryDecides` |
| `HandsOverWhatItSampled` | `Spec => []HandsOverSampled` |
| `BudgetBoundsReads` | `Spec => []NoReadPastBudget` |

`InBlock` says how far a block has been read and that the blocks kept so far are alive
and each different from the one before. `InTurn` says that a source is sampled in its
turn and only if it was wanted; the older TPM family has the last turn, so when it is
sampled the newer one was not, and the two are never in one mix. `Answered` says that
nothing has been handed over before the sources are assembled. From it and
`AssembledFacts` (what pushing a set of at most five sources onto nothing yields)
follows `HandsOverSampled`: `AcquiredSources::push` drops a record without a word when
it is full, but `assemble_acquired_sources` starts from nothing, and no more sources
than it has room for are ever sampled.

### The dice and coin screen

`PhysicalEntry_proofs` proves, for every `MaxEvents`, `StripCap`, `Target` and `Faces`
that satisfy the assumptions of the module (`CapacityAssumption`: a strip has at
least one cell; `TargetAssumption`: the target is between 1 and 256 bits and no more
than the history has slots, as 128 and 256 are against 512; `FacesAssumption`):

| Theorem | States |
|---|---|
| `TypeCorrect` | `Spec => []TypeOK` |
| `StoresInLockstep` | `Spec => []Lockstep` |
| `SourcesCarryTarget` | `Spec => []WitnessedBits` |
| `StripIsSuffix` | `Spec => []StripShowsLatest` |
| `NothingLeftBehind` | `Spec => []DeadSlotsZero` |
| `NeverTrapped` | `Spec => []FullIsEnough` |
| `HandsOnHistory` | `Spec => KeepsHistory` |

The argument is about values first. `CountBefore` counts the events of one tag
before a position; `CountStep`, `CountMonotone` and `CountBelow` say how it grows.
`PlacedPush`, `PlacedOther` and `PlacedPop` say that writing at, or clearing, the
last byte keeps every earlier event in its place, and from them follow the four
lemmas that a push or an undo done on both session and staging keeps `Matches`.
The ring is handled through `Cell`, which is injective on a window (`CellFacts`), in
`PushStripShows` and `PopStripShows`. `RoundingBuysNothing` is the arithmetic behind
`WitnessedBits`: a die is credited at most 0.04 milli-bits too much, credits are
multiples of 5 milli-bits, and at no number of dice that a target of up to 256 bits
needs does the surplus bridge the gap. It would not be true of a large target, which
is why the bound of 256 is an assumption.

The invariant `IInv` is the conjunction of the properties, and together they are
inductive. None is so alone: undoing relies on `Lockstep` to find
the byte of the last event at the end of its buffer, the ring on the session's
history, a new visit on `DeadSlotsZero` to start from an empty staging, and
`WitnessedBits` on the bytes matching the events the budget counted. `NextIInv` has one
short case per action. `FullIsEnough` follows from `Lockstep`, since every event is
credited at least one bit.

`HandsOnHistory` is the refinement of `PhysicalHistory`, whole, since that has no
fairness. A push, an undo and a clear map to the steps of their names (`KeptPush`,
`KeptPop`); the step at stake is the one to the Generate screen, where the abstract
history hands on its dice and coins and the code has two buffers that were filled one
event at a time. `BytesAscend` shows the buffer of a tag to be the values at the places
of that tag in ascending order. It needs that every count below the total is the count
before one of the events (`CountReached`), which is an induction, and is proved by the
least number instead: a set of naturals that is not empty has a minimal element, and
the library's `WFMin` says so without an operator for a parameter.

### The screens

`Screens_proofs` proves, for every depth and level value, every numbering of the
purposes in which no two share a number, and every size of the grid:

| Theorem | States |
|---|---|
| `CommitsWhatIsOffered` | `Spec => []SetupCommitsOffered` |
| `NeverTraps` | `Spec => []SetupNeverTraps` |
| `AddressIsOfItsPath` | `Spec => []AddressMatchesPath` |
| `ExportIsSelected` | `Spec => []ExportShowsSelected` |

The screens share little state, so `IInv` has a pair of conjuncts per screen and the
steps that touch none of it are dealt with once (`SetupSteps`, `CellSteps`,
`BuilderSteps`, `ExportSteps`). The work is in the operators. `CycledModeIsOffered` and
`ModeRowNear` are modular arithmetic over rows that may have vanished.
`SlotsAreDistinct` reads the flat index of the grid as a number in mixed radix, whose
digits are unique (`DigitsAreUnique`), so no address overwrites another
(`CellsHoldTheirOwn`). For the path builder, `WrittenReadsBack` says that the path on
the screen, typed, is the path that was derived, because the keys keep every value below
the hardened bit (`KeysKeepBuilder`); and `ReadingIsFaithful` says that any two texts
that are read as one path have the same numbers and the same hardened levels. TLC checks
that for texts one slip away from the screen's; the lemma is about all texts, of
any length. `ComputedAnew` is why the export shows the selection: what was in the buffers
before does not matter to what is computed.

### The ceremonies of a process

The second part of `AnyDriver_proofs` proves, for every set of categories and every
`PageCount` and `MaxSessions` above zero:

| Theorem | States |
|---|---|
| `PanicClean` | `ProgramSpec => []PanicLeavesArenaClean` |
| `RegistrationLive` | `ProgramSpec => []NeverDangling` |
| `OthersClean` | `ProgramSpec => []OthersFindNothing` |
| `FreshGates` | `ProgramSpec => []SecretBehindFreshGates` |

`FreshGates` is about every sequence of ceremonies and of modes left between them. It
claims what the gates establish: a gate run of this ceremony, a cryptographic check that
was passed if every re-assertion was answered, and a linear screen of the size the
session draws with. That the pixel format and the stride are still those of the session
is no theorem: where another image may leave any mode it is not true.

`IInv` adds to `NeverDangling` and `PanicLeavesArenaClean` the numbering of the
ceremonies and what their gates hand over (`Counted`), that the stores are empty
outside the secret phase (`Quiet`), and at which places an arena exists and is
registered (`ArenaLife`). Most actions touch
neither arena nor stores and are one lemma, `Outside`. `RunPhase` is the other: all it
uses of the secret phase is that `SecretPhase!Return` leaves the stores empty, so the
theorems hold of every driver that keeps that contract.

### The policy

`PolicyFiles_proofs` proves, for every set of lines (`LinesAssumption`: a line is a header,
a key or malformed, a key carries a value, and a numeral is a number), base files and
insertions of any length made of them, every positive `MaxRecords`, and any processors
and devices asked about:

| Theorem | States |
|---|---|
| `AcceptsWellFormed` | `Spec => []AcceptsExactlyWellFormed` |
| `StoresFile` | `Spec => []StoresWhatIsWritten` |
| `AnswersFile` | `Spec => []AnswersAsWritten` |

The parser forgets the lines it has read, and well-formedness speaks of all of them. The
invariant `IInv` therefore says, while a file is being read, what its state is in terms of
the lines so far (`Parsed`): the section, the pending record (`Said` of the last header),
the tables (`TablesOf`) and the finished records (`RecordsOf`, in which the record still
open does not count yet). `Accepted` is what those lines have in common with every
well-formed file that begins with them; nothing is required yet of a section still open.
That makes the induction over the lines an induction over the steps. `OneLineMore`,
`SaidSame` and `SaidMore` say what one line more does to the headers, to the body of the
last section and to nothing else; `FinishedRecords` is the step that stores a record when
the next header, or the end, is met.

The two directions are separate. A line taken keeps `Parsed` (`HeaderTaken`, `KeyTaken`).
A line refused means that no file beginning with these lines is well-formed, whatever
follows, and there is one lemma per reason: `RefusedLine` (malformed, unknown section,
second table of a name), `RefusedKey` (unknown, given twice, wrong value),
`RefusedSection` (something missing, a range inverted) and `RefusedRecord` (one too
many). `EndRight` adds the rules about the values of the tables. So an edit of what is
still to be read changes nothing that is known, and the theorems hold for a file changed
at any moment. The answers follow from what is stored: `MatchingSections` maps the rules
that match to the sections that cover, in order, so the last rule is the section nearest
the end (`CpuAnswer`, `DeviceAnswer`).

### The transcript

The second part of `EntropyInput_proofs` proves, for any ascending sequence of at most 16
tags (`TagsAssumption`: the bitmap has 16 bits), any limits that fit the fields of a
record (`WidthAssumption`), every capacity that has room for the sum in the comment of
`SCRATCH_BUDGET` (`CapacityAssumption`; the real sum is 1145 of 2048
bytes), and sources of any content (`OfferedAssumption`):

| Theorem | States |
|---|---|
| `TranscriptInvariant` | `TranscriptSpec => []TranscriptIInv` |
| `NeverTooLong` | `TranscriptSpec => []AlwaysFits` |
| `ReadsExactlyWhatIsWritten` | `TranscriptSpec => []DecodesWhatSerializes` |

Three predicates relate a set of sources to the code's data: `Holds(b, S)` to a builder
(every payload at the offsets of its record, and no more of scratch used than the tags
staged have room for), `Wire(S, header)` to the bytes, `Stands(w, d, S)` to a decoder that
has read so far. The invariant `TranscriptIInv` is little more than: the builder holds the
sources accepted; what was finalized is their `Wire`. Since `Wire` is a function of the
set, the order of staging is forgotten there.

* Fitting. `Room(T)` is what the tags of `T` may take, and each tag adds its own largest
  payload (`RoomFacts`); `RoomForAll` compares the room of all tags with the capacity.
  Dice and coins share one history, so their bytes are counted in `History`, not in
  `Room`; `OneMoreFits` is the step, and the reason why `AddAnswers` can say that
  `BufferOverflow` is never the answer. `WireFits` is the same for the bytes.
* Writing. `AddHolds` takes `Holds` from a set to the set with one source more;
  `SerializeIsWire` reads the payloads back out of scratch.
* Reading what was written. `StandsOn` takes `Stands` one record further; `ReadsBack`
  follows it to the end of the bytes.
* Reading anything. `Found` says what a round that reports no error has found, and
  `ReadsSources` that the bytes are then the `Wire` of the sources found, under the header
  received. `Rebuilds` gives them to a builder in that order and finds each accepted.

What is hard in it is that every bound of the decoder, record by record, must be the one
of the builder, set by set: a limit that one of them checked on a different sum (the
shared history, say) breaks `StandsOn` in one direction or `Rebuilds` in the other.

### How far the proofs go

An induction over numbers is put as "the least number for which" (`CountReached`,
`CountUp`), one over the lines of a file as an invariant, and one over the records of a
transcript as a recursive function taken one step at a time (`RoundsTaken`,
`RebuiltGrows`). No module has a RECURSIVE operator.

Every invariant and every action property that a passing run checks is proved. Only
model-checked are the four properties that say that something happens:
`BypassEndsInFirmware`, `StopsTheComputer`, `AcquisitionEnds`, and the liveness half of
`ImplementsSecretPhase`. TLAPS does not prove liveness from fairness, nor reason about
ENABLED.

## Not modelled, and why

* Elliptic curves, hash functions, HMAC and PBKDF2: arithmetic on 256-bit numbers.
* Rendering, fonts, QR codes, wording: no property here is about them.
* Reading firmware tables, PCI and TPM transports: I/O; their results are inputs.
  `usb_trng.rs` has a gate and no read path.
* Key translation: a table; keys arrive in the models as the choices they stand for.
* Compatibility corpora, self-tests, release tooling (`src/tools`), the web page
  (`src/web`, `src/site`): no state shared with the ceremony.
* Dead stack contents and cold-boot remanence: outside the program's state. Four fields
  of the arena (`machine_sources`, `transcript`, `reentry_buffer`, `scratch`) are never
  written and are left out.
* Bit packing and checksums of BIP39, base58 and bech32: pure and tested against
  published vectors; bounded checks are planned.

The definitions stand for a small part of the lines of the repository, because most of
those lines are something else: tests in the source files, the wordlist, known-answer
tables, field and curve arithmetic, fonts, drawing, and the wording of the screens. The
stateful core (state machine, both drivers, physical entry, acquisition, policy,
transcript, session loop and the screens that hold state) is what the modules cover.

## Plan

1. Bounded checks of the bit packing of BIP39, base58 and bech32 regrouping against
   reference definitions.
2. The results of the platform checks (`console`, `virt`, `boot`) as modules of their
   own, instead of as the outcomes `PreSecretFlow` chooses from.
3. An abstract specification that joins transcript and acquisition to `SecretFlow`, so
   that the sources a phrase is derived from are followed down to the bytes hashed.
