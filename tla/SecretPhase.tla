---------------------------- MODULE SecretPhase ----------------------------
(***************************************************************************)
(* What run_secret_flow promises whoever calls it, whatever happens inside: *)
(* while it runs, any of its stores may hold something; it returns only    *)
(* with all of them empty, and once it has begun to stop the computer it   *)
(* never returns.  SecretFlow implements this specification (its property  *)
(* ImplementsSecretPhase), and Ceremony is built on it.                    *)
(***************************************************************************)

VARIABLES
  outcome,  \* SecretFlowOutcome, or how far the computer has been stopped
  held      \* stores that hold something

phaseVars == <<outcome, held>>

(* The arena; the physical session with its staging buffers; the acquired  *)
(* machine records; the wallet data on the driver's stack.                 *)
Stores == {"arena", "staging", "records", "wallet"}

Returns == {"ExitedToFirmwareBeforeSecret", "BackBeforeSecret", "DestroyedReturnToMenu"}

Begin == outcome = "Running" /\ held = {}

Work == outcome = "Running" /\ held' \in SUBSET Stores /\ UNCHANGED outcome

\* Mutant: the menu is reached without the scrub of driver.rs:961.
ReturnAsIs(o) ==
  /\ outcome = "Running" /\ o \in Returns
  /\ outcome' = o /\ UNCHANGED held

Return(o) ==
  /\ outcome = "Running" /\ o \in Returns
  /\ outcome' = o /\ held' = {}

(* scrub_and_shutdown does not reach the wallet data on the stack. *)
Stop == outcome = "Running" /\ outcome' = "Stopping" /\ held' \in SUBSET {"wallet"}

Stopped(o) ==
  /\ outcome = "Stopping" /\ o \in {"PoweredOff", "Halted"}
  /\ outcome' = o /\ UNCHANGED held

PhaseNext ==
  \/ Work
  \/ \E o \in Returns : Return(o)
  \/ Stop
  \/ \E o \in {"PoweredOff", "Halted"} : Stopped(o)

PhaseSpec ==
  /\ Begin /\ [][PhaseNext]_phaseVars
  /\ WF_phaseVars(\E o \in {"PoweredOff", "Halted"} : Stopped(o))
=============================================================================
