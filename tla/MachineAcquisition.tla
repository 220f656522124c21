------------------------- MODULE MachineAcquisition -------------------------
(***************************************************************************)
(* One acquisition of machine entropy: ProdMachineSourceGate::acquire of   *)
(* seed-flow (firmware_wiring.rs), the five samplers of seed-platform-x86  *)
(* (rng/efi_rng.rs, rdseed.rs, rdrand.rs, tpm2.rs, tpm12.rs) and           *)
(* assemble_acquired_sources (flow_secret/machine.rs), repeated as often   *)
(* as the operator commits another setup.                                  *)
(*                                                                         *)
(* The sources are sampled one after the other under one deadline.  left   *)
(* is what remains of the budget: a call into firmware or the processor    *)
(* takes any part of it, none at all included (a clock that stands still), *)
(* and a call that is under way cannot be interrupted.                     *)
(*                                                                         *)
(* A block is 256 bits.  What the health checks can tell about one is      *)
(* whether it is constant ("dead": all 00 or all FF) and whether it equals *)
(* the block before; "x" and "y" are two blocks that are neither.          *)
(***************************************************************************)
EXTENDS Naturals, Sequences, SequencesExt

CONSTANTS
  Budget,            \* MACHINE_ACQUISITION_BUDGET_MS, in clock steps
  ValuesPerBlock,    \* 64-bit values in a block (4), scaled down
  RdseedRetryLimit,  \* policy.rdseed.retry_limit
  RdrandRetryLimit,  \* RETRY_LIMIT of rdrand.rs
  TpmRetryLimit,     \* policy.tpm2.retry_limit and policy.tpm12.retry_limit
  MaxReadRounds,     \* policy.tpm12.max_read_rounds
  TpmBlockUnits,     \* bytes of a TPM 1.2 block (32), scaled down
  DiagnosticBlocks,  \* policy.rdseed.diagnostic_blocks
  Approved,          \* sources the policy approves
  Manufacturers,     \* TRUE: the reviewed manufacturer lists are not empty
  MaxAcquisitions    \* bound on acquisitions in a run

(***************************************************************************)
(* The samplers: whether one asks firmware before it reads (calls),        *)
(* whether it then checks the manufacturer, how many blocks it reads, in   *)
(* how many pieces, how often it asks again for a piece, and whether a     *)
(* read may fail for good.                                                 *)
(***************************************************************************)

(* Two diagnostic reads, then the final one. *)
EfiRng == [calls |-> TRUE, gated |-> FALSE, blocks |-> 3, pieces |-> 1,
           retries |-> 0, errors |-> TRUE]

(* Block A, block B, and the surplus diagnostic blocks of the policy. *)
Rdseed == [calls |-> FALSE, gated |-> FALSE,
           blocks |-> IF DiagnosticBlocks > 2 THEN DiagnosticBlocks ELSE 2,
           pieces |-> ValuesPerBlock, retries |-> RdseedRetryLimit, errors |-> FALSE]

Rdrand == [calls |-> FALSE, gated |-> FALSE, blocks |-> 2,
           pieces |-> ValuesPerBlock, retries |-> RdrandRetryLimit, errors |-> FALSE]

Tpm2 == [calls |-> TRUE, gated |-> Manufacturers, blocks |-> 2, pieces |-> 1,
         retries |-> TpmRetryLimit, errors |-> TRUE]

(* A TPM 1.2 may return fewer bytes than asked for. *)
Tpm12 == [calls |-> TRUE, gated |-> Manufacturers, blocks |-> 2, pieces |-> TpmBlockUnits,
          retries |-> TpmRetryLimit, errors |-> TRUE]

Sampler == [ApprovedEfiRng |-> EfiRng, X86Rdseed64 |-> Rdseed,
            X86RdrandSupplementary |-> Rdrand,
            Tpm2GetRandom |-> Tpm2, Tpm12GetRandom |-> Tpm12]

(* In the order they are sampled. *)
Order == <<"ApprovedEfiRng", "X86Rdseed64", "X86RdrandSupplementary",
           "Tpm2GetRandom", "Tpm12GetRandom">>
Source == DOMAIN Sampler
Tpms   == {"Tpm2GetRandom", "Tpm12GetRandom"}

ASSUME BoundsAssumption ==
  /\ {Budget, ValuesPerBlock, MaxReadRounds, TpmBlockUnits, MaxAcquisitions} \subseteq Nat \ {0}
  /\ {RdseedRetryLimit, RdrandRetryLimit, TpmRetryLimit, DiagnosticBlocks} \subseteq Nat
ASSUME PolicyAssumption == Approved \subseteq Source /\ Manufacturers \in BOOLEAN

VARIABLES
  usable,     \* the policy parsed and the clock could be calibrated
  runs,       \* acquisitions begun
  tpm,        \* MachineExtras.tpm, the opt-in of this commit
  left,       \* what remains of the deadline
  at,         \* place in Order
  pc,         \* where acquire is
  blocks,     \* blocks this sampler has read and checked
  filled,     \* values (or bytes) of the block being read
  tries,      \* retries spent on the value being read
  rounds,     \* read rounds spent on the TPM 1.2 block being read
  sampled,    \* sources whose sampler returned a record
  timedOut,   \* primary_timed_out
  into,       \* AcquiredSources: the tags, in order
  result,     \* what acquire returned
  late        \* history: calls begun when nothing was left

setup    == <<usable, runs, tpm>>
reading  == <<blocks, filled, tries, rounds>>
returned == <<into, result>>
vars     == <<setup, left, at, pc, reading, sampled, timedOut, returned, late>>

Block == {"dead", "x", "y"}
Current == Order[at]
Plan    == Sampler[Current]

Init ==
  /\ usable \in BOOLEAN
  /\ runs = 0 /\ tpm = FALSE
  /\ left = Budget /\ at = 1 /\ pc = "idle"
  /\ blocks = <<>> /\ filled = 0 /\ tries = 0 /\ rounds = 0
  /\ sampled = {} /\ timedOut = FALSE
  /\ into = <<>> /\ result = "none"
  /\ late = {}

---------------------------------------------------------------------------
(* The calls and the clock. *)

(* A call that needs no deadline check.  It takes d of what is left. *)
Call(kind, d) ==
  /\ d \in 0 .. left
  /\ left' = left - d
  /\ late' = IF left = 0 THEN late \cup {<<kind, Current>>} ELSE late

\* Mutant: the deadline is looked at once per value, not before every retry.
ExpiredFirstTry == left = 0 /\ tries = 0

(* Deadline::expired, asked before every read of random bytes. *)
Expired == left = 0

NoBlock == filled' = 0 /\ tries' = 0 /\ rounds' = 0

(* The sampler returns an error; whatever it had read is given up. *)
Fail ==
  /\ pc' = "next" /\ at' = at + 1
  /\ blocks' = <<>> /\ NoBlock
  /\ UNCHANGED <<setup, sampled, returned>>

---------------------------------------------------------------------------
(* acquire, before and between the samplers. *)

\* Mutant: a second commit keeps what the first acquired.
KeptRecords == into

(* The driver scrubs the records of the commit before (driver.rs:547). *)
RecordsBeforeCommit == <<>>

(* An acquisition ends the ceremony unless it succeeds. *)
Begin(optIn) ==
  /\ pc = "idle" /\ runs < MaxAcquisitions /\ result \in {"none", "Ok"}
  /\ runs' = runs + 1 /\ tpm' = optIn
  /\ into' = RecordsBeforeCommit
  /\ IF usable
       THEN /\ result' = "none"
            /\ pc' = "next" /\ at' = 1 /\ left' = Budget
            /\ sampled' = {} /\ timedOut' = FALSE
       ELSE /\ result' = "NoSourceAvailable"
            /\ UNCHANGED <<pc, at, left, sampled, timedOut>>
  /\ UNCHANGED <<usable, reading, late>>

(* The policy approves it, the operator opted in, and one TPM family at    *)
(* most: 2.0 wins.                                                         *)
Wanted(s) ==
  /\ s \in Approved
  /\ s \in Tpms => tpm
  /\ s = "Tpm12GetRandom" => "Tpm2GetRandom" \notin sampled

SkipSource ==
  /\ pc = "next" /\ at <= Len(Order) /\ ~Wanted(Current)
  /\ at' = at + 1
  /\ UNCHANGED <<setup, left, pc, reading, sampled, timedOut, returned, late>>

(* What a sampler asks before it reads.  The instructions are gated by     *)
(* CPUID, the denylist, the processor rules and the sizes the policy asks  *)
(* for; the others by a call into firmware that lists algorithms or        *)
(* reports a TPM.                                                          *)
Probe(d, refused) ==
  /\ pc = "next" /\ at <= Len(Order) /\ Wanted(Current)
  /\ IF Plan.calls
       THEN Call("probe", d)
       ELSE d = 0 /\ UNCHANGED <<left, late>>
  /\ IF refused
       THEN Fail
       ELSE /\ pc' = IF Plan.gated THEN "manufacturer" ELSE "read"
            /\ UNCHANGED <<setup, at, reading, sampled, returned>>
  /\ UNCHANGED timedOut

(* manufacturer_gate: one command to the TPM. *)
ManufacturerGate(d, refused) ==
  /\ pc = "manufacturer"
  /\ Call("manufacturer", d)
  /\ IF refused
       THEN Fail
       ELSE pc' = "read" /\ UNCHANGED <<setup, at, reading, sampled, returned>>
  /\ UNCHANGED timedOut

---------------------------------------------------------------------------
(* Reading blocks. *)

(* Only a primary source that runs out of time is reported as a timeout. *)
TimedOutPrimary == Current \in {"ApprovedEfiRng", "X86Rdseed64"} \/ timedOut

ReadExpired ==
  /\ pc = "read" /\ Expired
  /\ timedOut' = TimedOutPrimary
  /\ Fail
  /\ UNCHANGED <<left, late>>

\* Mutant: the final read of the firmware generator is not compared.
HealthyAlone(b) ==
  b # "dead" /\ (Len(blocks) = 1 => b # Last(blocks))

(* check_not_degenerate, and check_not_repeated against the block before. *)
Healthy(b) ==
  /\ b # "dead"
  /\ blocks # <<>> => b # Last(blocks)

(* A block is complete. *)
BlockDone(b) ==
  IF Healthy(b)
    THEN /\ blocks' = Append(blocks, b) /\ NoBlock
         /\ pc' = IF Len(blocks) + 1 = Plan.blocks THEN "sampled" ELSE "read"
         /\ UNCHANGED <<setup, at, sampled, returned>>
    ELSE Fail

(* A read that brings n of the pieces of a block, b being its contents     *)
(* once it is complete.  Only TPM 1.2 may return several or fewer than     *)
(* asked for, and counts the rounds it takes.                              *)
ReadPiece(d, n, b) ==
  /\ pc = "read" /\ ~Expired
  /\ n \in 1 .. (Plan.pieces - filled)
  /\ Current # "Tpm12GetRandom" => n = 1
  /\ Call("read", d)
  /\ IF filled + n = Plan.pieces
       THEN BlockDone(b)
       ELSE IF Current = "Tpm12GetRandom" /\ rounds + 1 >= MaxReadRounds
         THEN b = "x" /\ Fail
         ELSE /\ b = "x"
              /\ filled' = filled + n /\ tries' = 0
              /\ rounds' = IF Current = "Tpm12GetRandom" THEN rounds + 1 ELSE 0
              /\ UNCHANGED <<setup, at, pc, blocks, sampled, returned>>
  /\ UNCHANGED timedOut

\* Mutant: one attempt too many.
RetriesExhaustedLate == tries > Plan.retries

RetriesExhausted == tries + 1 > Plan.retries

\* Mutant: a spent limit starts over.
ReadRetryStartsOver(d) ==
  /\ pc = "read" /\ ~Expired
  /\ Call("read", d)
  /\ tries' = IF RetriesExhausted THEN 0 ELSE tries + 1
  /\ UNCHANGED <<setup, at, pc, blocks, filled, rounds, sampled, timedOut, returned>>

(* Carry flag clear, or TPM_RC_RETRY: asked again, a limited number of     *)
(* times.                                                                  *)
ReadRetry(d) ==
  /\ pc = "read" /\ ~Expired
  /\ Call("read", d)
  /\ IF RetriesExhausted
       THEN Fail
       ELSE tries' = tries + 1 /\ UNCHANGED <<setup, at, pc, blocks, filled, rounds, sampled, returned>>
  /\ UNCHANGED timedOut

(* GetRNG fails, a TPM command fails, or its answer is malformed, an error *)
(* code, or empty.                                                         *)
ReadError(d) ==
  /\ pc = "read" /\ ~Expired /\ Plan.errors
  /\ Call("read", d)
  /\ Fail
  /\ UNCHANGED timedOut

(* The sampler returns its record. *)
Sampled ==
  /\ pc = "sampled"
  /\ sampled' = sampled \cup {Current}
  /\ pc' = "next" /\ at' = at + 1 /\ blocks' = <<>>
  /\ UNCHANGED <<setup, left, filled, tries, rounds, timedOut, returned, late>>

---------------------------------------------------------------------------
(* assemble_acquired_sources. *)

Capacity == 5

(* AcquiredSources::push drops what does not fit. *)
Push(records, s) == IF Len(records) < Capacity THEN Append(records, s) ELSE records

\* Mutant: the supplementary source counts as a primary one.
AnySource == Source

Primary == Source \ {"X86RdrandSupplementary"}

(* The records in the order of the parameters, the supplement last.        *)
PushSampled(records, s) == IF s \in sampled THEN Push(records, s) ELSE records

Assembled ==
  LET efi   == PushSampled(into, "ApprovedEfiRng")
      seed  == PushSampled(efi, "X86Rdseed64")
      tpm2  == PushSampled(seed, "Tpm2GetRandom")
      tpm12 == PushSampled(tpm2, "Tpm12GetRandom")
  IN  PushSampled(tpm12, "X86RdrandSupplementary")

Assemble ==
  /\ pc = "next" /\ at > Len(Order)
  /\ pc' = "idle"
  /\ IF sampled \cap Primary # {}
       THEN /\ into' = Assembled
            /\ result' = "Ok"
       ELSE /\ result' = IF timedOut THEN "SourceTimedOut" ELSE "NoSourceAvailable"
            /\ UNCHANGED into
  /\ UNCHANGED <<setup, left, at, reading, sampled, timedOut, late>>

---------------------------------------------------------------------------

(* acquire runs to its end without waiting for the operator. *)
Acquire ==
  \/ SkipSource
  \/ \E d \in 0 .. Budget, refused \in BOOLEAN : Probe(d, refused) \/ ManufacturerGate(d, refused)
  \/ ReadExpired
  \/ \E d \in 0 .. Budget, n \in 1 .. TpmBlockUnits, b \in Block : ReadPiece(d, n, b)
  \/ \E d \in 0 .. Budget : ReadRetry(d) \/ ReadError(d)
  \/ Sampled
  \/ Assemble

Next == (\E optIn \in BOOLEAN : Begin(optIn)) \/ Acquire

Spec     == Init /\ [][Next]_vars
FairSpec == Spec /\ WF_vars(Acquire)

---------------------------------------------------------------------------
(* Properties. *)

(* The counters of the read loops stay within the limits of the policy,    *)
(* and no more blocks are kept than a sampler needs.                       *)
TypeOK ==
  /\ usable \in BOOLEAN /\ tpm \in BOOLEAN /\ timedOut \in BOOLEAN
  /\ runs \in 0 .. MaxAcquisitions
  /\ left \in 0 .. Budget
  /\ at \in 1 .. Len(Order) + 1
  /\ pc \in {"idle", "next", "manufacturer", "read", "sampled"}
  /\ pc \in {"manufacturer", "read", "sampled"} =>
       /\ at <= Len(Order)
       /\ Len(blocks) <= Plan.blocks
       /\ filled \in 0 .. Plan.pieces - 1
       /\ tries \in 0 .. Plan.retries
       /\ rounds \in 0 .. MaxReadRounds - 1
  /\ blocks \in Seq(Block) /\ sampled \subseteq Source
  /\ into \in Seq(Source) /\ Len(into) <= Capacity
  /\ result \in {"none", "Ok", "SourceTimedOut", "NoSourceAvailable"}
  /\ late \subseteq {"probe", "manufacturer", "read"} \X Source

(* A record is only made of blocks that came after one another from the    *)
(* same source and were all found alive and all different from the one     *)
(* before, the final read of the firmware generator included.              *)
RecordsChecked ==
  pc = "sampled" =>
    /\ Len(blocks) >= IF Current = "ApprovedEfiRng" THEN 3 ELSE 2
    /\ \A i \in DOMAIN blocks : blocks[i] # "dead"
    /\ \A i \in 2 .. Len(blocks) : blocks[i] # blocks[i - 1]

(* SPEC 15.3: RDRAND never makes an acquisition succeed, and is not left   *)
(* behind by one that failed.  A deadline that expires takes nothing back  *)
(* from a primary source that succeeded before, and a failure is called a  *)
(* timeout only if time ran out.                                           *)
PrimaryDecides ==
  pc = "idle" /\ runs > 0 /\ usable =>
    /\ result = "Ok" <=> sampled \cap (Source \ {"X86RdrandSupplementary"}) # {}
    /\ result = "Ok" => ToSet(into) \cap (Source \ {"X86RdrandSupplementary"}) # {}
    /\ result # "Ok" => into = <<>>
    /\ result = "SourceTimedOut" => left = 0

(* However often setup is committed again, a successful acquisition hands  *)
(* over exactly what it sampled: AcquiredSources::push dropped nothing,    *)
(* and nothing is there twice.  A TPM is in the mix only if asked for, and *)
(* never in both families.                                                 *)
HandsOverSampled ==
  result = "Ok" =>
    /\ ToSet(into) = sampled /\ IsInjective(into)
    /\ ToSet(into) \cap Tpms # {} => tpm
    /\ ~ Tpms \subseteq ToSet(into)

(* time.rs: no random byte is asked for once the budget is spent. *)
NoReadPastBudget == \A call \in late : call[1] # "read"

(* Whatever the sources answer and whether or not the clock moves, an      *)
(* acquisition comes to an end.                                            *)
AcquisitionEnds == pc # "idle" ~> pc = "idle"
===========================================================================
