----------------------------- MODULE PolicyUse -----------------------------
(***************************************************************************)
(* What an accepted entropy policy answers when it is asked about a        *)
(* processor or a device (seed-protocol, policy/types.rs), and what the    *)
(* two places that ask about RDSEED make of the answer: the offer on the   *)
(* setup screen and the sampler.                                           *)
(*                                                                         *)
(* A processor is its CPUID identity; one that has no RDSEED instruction   *)
(* is refused by both places alike and is left out.                        *)
(***************************************************************************)
EXTENDS EntropyPolicy

Unknown == -1   \* a microcode revision that could not be read

---------------------------------------------------------------------------
(* CpuRange::matches *)
InRange(range, cpu) ==
  /\ range.vendor[2] = cpu.vendor
  /\ cpu.family \in range.family_min[2] .. range.family_max[2]
  /\ cpu.model \in range.model_min[2] .. range.model_max[2]
  /\ cpu.stepping \in range.stepping_min[2] .. range.stepping_max[2]

(* The rules that match, by their places. *)
MatchingRules(cpu) ==
  {i \in DOMAIN records.rdseed_cpu_rules : InRange(records.rdseed_cpu_rules[i], cpu)}

RdseedApproved == Bool("rdseed", "approved")

(* The loop over the rules keeps what the latest match says. *)
Decides(i, cpu) ==
  /\ i \in MatchingRules(cpu)
  /\ \A j \in MatchingRules(cpu) : j <= i

\* Mutant: the first matching rule decides.
FirstMatchAllows(cpu) ==
  /\ RdseedApproved
  /\ \E i \in MatchingRules(cpu) :
       /\ \A j \in MatchingRules(cpu) : i <= j
       /\ records.rdseed_cpu_rules[i].allow[2]

(* is_cpu_allowed: no rule means no. *)
CpuAllowed(cpu) ==
  /\ RdseedApproved
  /\ \E i \in DOMAIN records.rdseed_cpu_rules :
       Decides(i, cpu) /\ records.rdseed_cpu_rules[i].allow[2]

(* is_cpu_allowed_with_microcode.  The condition is part of the rule that  *)
(* decides; one on an overridden rule counts for nothing.                  *)
MicrocodeMet(rule, revision) ==
  "min_microcode_revision" \in DOMAIN rule =>
    revision # Unknown /\ revision >= rule.min_microcode_revision[2]

CpuAllowedWithMicrocode(cpu, revision) ==
  /\ CpuAllowed(cpu)
  /\ \A i \in DOMAIN records.rdseed_cpu_rules :
       Decides(i, cpu) => MicrocodeMet(records.rdseed_cpu_rules[i], revision)

(* is_cpu_denylisted *)
Denylisted(cpu) ==
  \E i \in DOMAIN records.denylist : InRange(records.denylist[i], cpu)

(* is_device_allowed: whether an entry fits.  The class can only be       *)
(* cdc-acm.                                                                *)
DeviceAllowed(vendor, product) ==
  /\ Bool("usb_trng", "approved")
  /\ \E i \in DOMAIN records.usb_trng_devices :
       LET d == records.usb_trng_devices[i]
       IN  d.vendor_id[2] = vendor /\ d.product_id[2] = product

---------------------------------------------------------------------------
(* The availability of RDSEED, which the setup screen offers by.           *)
OffersRdseed(cpu) == RdseedApproved /\ CpuAllowed(cpu)

(* sample: the checks before the first instruction.  VALUES_PER_BLOCK = 4  *)
SamplesRdseed(cpu) ==
  /\ RdseedApproved
  /\ Num("rdseed", "instruction_width_bits") = 64
  /\ Num("rdseed", "min_successful_values") = 4
  /\ ~Denylisted(cpu)
  /\ CpuAllowed(cpu)
===========================================================================
