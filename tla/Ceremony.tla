------------------------------ MODULE Ceremony ------------------------------
(***************************************************************************)
(* The production program of seed-uefi-production (main.rs, launcher.rs)   *)
(* around the two drivers: the landing menu and its read-only pages, the   *)
(* separate verifier started from it, the session loop that runs one       *)
(* ceremony after another in the same process, run_secret_phase of         *)
(* firmware_wiring.rs with its arena and the arena's registration for the  *)
(* panic handler (seed-core, arena/mod.rs), and a panic at any moment.     *)
(*                                                                         *)
(* The pre-secret driver is here by its outcome (PreSecretFlow has the     *)
(* rest), the secret phase by the contract SecretPhase, which SecretFlow   *)
(* is shown to implement.  Arenas are numbered by the ceremony that made   *)
(* them, so that a pointer to an arena that is gone shows.                 *)
(***************************************************************************)
EXTENDS Naturals

CONSTANTS
  Categories,    \* seed_flow::edu::CATEGORIES
  PageCount,     \* pages of a category (category_page_count), scaled down
  MaxSessions    \* bound on ceremonies in a run

ASSUME CeremonyAssumption == PageCount \in Nat \ {0} /\ MaxSessions \in Nat \ {0}

VARIABLES
  place,       \* where the program is
  category,    \* the category open in Learn
  page,        \* index of the page shown
  mode,        \* the video mode that firmware reports
  session,     \* history: ceremonies begun
  gated,       \* history: the gates that were handed over last
  arena,       \* the arena on the stack, NoArena when there is none
  registered,  \* PANIC_SCRUB_ARENA
  outcome,     \* of the secret phase
  held         \* stores of the secret phase that hold something

launcher    == <<category, page>>
phase       == <<outcome, held>>
programVars == <<place, launcher, mode, session, gated, arena, registered, phase>>

Phase == INSTANCE SecretPhase

NoArena == 0

(* Where the program's own code runs; elsewhere the firmware does, or the  *)
(* verifier, or nothing any more.                                          *)
Program == {"start", "refusal", "landing", "verifyError", "learn", "pages", "selfcheck",
            "about", "gates", "handoff", "created", "phase", "returned", "unregistered"}

(* A video mode: width and height, pixel format, and pixels per scan line, *)
(* each as in the mode that was set at start or not.  BltOnly is the one   *)
(* format without a linear framebuffer; "other" is any other linear one.   *)
Modes == [size : {"opened", "other"}, format : {"opened", "other", "BltOnly"},
          stride : {"opened", "other"}]

(* The mode open_selected_gop sets: the session keeps its framebuffer, of  *)
(* this size, format and stride, as long as the process lives.             *)
OpenedMode == [size |-> "opened", format |-> "opened", stride |-> "opened"]

(* Before any ceremony. *)
NoGates == [session |-> 0, crypto |-> "unchecked", answered |-> TRUE]

ProgramInit ==
  /\ place = "start"
  /\ category \in Categories /\ page = 0
  /\ mode = OpenedMode
  /\ session = 0 /\ gated = NoGates
  /\ arena = NoArena /\ registered = NoArena
  /\ outcome = "none" /\ held = {}

Goto(from, to) == place = from /\ place' = to

---------------------------------------------------------------------------
(* Start. *)

OpenGraphics(opened) ==
  /\ Goto("start", IF opened THEN "landing" ELSE "refusal")
  /\ UNCHANGED <<launcher, mode, session, gated, arena, registered, phase>>

AcknowledgeRefusal ==
  /\ Goto("refusal", "firmware")
  /\ UNCHANGED <<launcher, mode, session, gated, arena, registered, phase>>

---------------------------------------------------------------------------
(* The landing menu. *)

Exit ==
  /\ Goto("landing", "firmware")
  /\ UNCHANGED <<launcher, mode, session, gated, arena, registered, phase>>

(* Learn, the self-check and About. *)
OpenItem(item) ==
  /\ item \in {"learn", "selfcheck", "about"}
  /\ Goto("landing", item)
  /\ UNCHANGED <<launcher, mode, session, gated, arena, registered, phase>>

LeaveItem ==
  /\ place \in {"learn", "selfcheck", "about", "verifyError"}
  /\ place' = "landing"
  /\ UNCHANGED <<launcher, mode, session, gated, arena, registered, phase>>

OpenCategory(c) ==
  /\ Goto("learn", "pages")
  /\ category' = c /\ page' = 0
  /\ UNCHANGED <<mode, session, gated, arena, registered, phase>>

(* Any digit; after the last page the categories are shown again. *)
NextPage ==
  /\ place = "pages"
  /\ IF page + 1 < PageCount
       THEN page' = page + 1 /\ UNCHANGED place
       ELSE place' = "learn" /\ UNCHANGED page
  /\ UNCHANGED <<category, mode, session, gated, arena, registered, phase>>

LeavePages ==
  /\ Goto("pages", "learn")
  /\ UNCHANGED <<launcher, mode, session, gated, arena, registered, phase>>

(* chain_load_verify: firmware loads and starts VERIFY.EFI, which runs as  *)
(* an image of its own, may leave any video mode, and exits; or it cannot  *)
(* be started.                                                             *)
StartVerifier(started) ==
  /\ Goto("landing", IF started THEN "verifier" ELSE "verifyError")
  /\ UNCHANGED <<launcher, mode, session, gated, arena, registered, phase>>

VerifierExits(left) ==
  /\ Goto("verifier", "landing")
  /\ mode' = left
  /\ UNCHANGED <<launcher, session, gated, arena, registered, phase>>

---------------------------------------------------------------------------
(* One ceremony. *)

\* Mutant: a later ceremony takes the gates of the first for passed.
GenerateGatesOnce ==
  /\ session < MaxSessions
  /\ Goto("landing", IF gated.session = 0 THEN "gates" ELSE "handoff")
  /\ session' = session + 1
  /\ UNCHANGED <<launcher, mode, gated, arena, registered, phase>>

Generate ==
  /\ session < MaxSessions
  /\ Goto("landing", "gates")
  /\ session' = session + 1
  /\ UNCHANGED <<launcher, mode, gated, arena, registered, phase>>

\* Mutant: only the pixel format is looked at, not the resolution.
StillLinear == mode.format # "BltOnly"

(* HeldGopGraphicsGate reads the mode again.  It refuses a mode that is    *)
(* not linear or has another width or height; which linear format it has,  *)
(* and how long its scan lines are, is not looked at.                      *)
GraphicsAvailable ==
  /\ mode.format # "BltOnly"
  /\ mode.size = OpenedMode.size

(* run_pre_secret_flow hands over, under what HandoffGuarded of            *)
(* PreSecretFlow says: the first three gates are passed, the graphics gate *)
(* among them; the cryptographic one has been run, and is passed too if    *)
(* every re-assertion of the watchdog was answered.                        *)
HandOff(crypto, answered) ==
  /\ GraphicsAvailable
  /\ answered => crypto = "clean"
  /\ Goto("gates", "handoff")
  /\ gated' = [session |-> session, crypto |-> crypto, answered |-> answered]
  /\ UNCHANGED <<launcher, mode, session, arena, registered, phase>>

(* A gate refused, or the operator left. *)
LeaveGates ==
  /\ Goto("gates", "firmware")
  /\ UNCHANGED <<launcher, mode, session, gated, arena, registered, phase>>

(* run_secret_phase, up to register_for_panic_scrub. *)
CreateArena ==
  /\ Goto("handoff", "created")
  /\ arena' = session
  /\ UNCHANGED <<launcher, mode, session, gated, registered, phase>>

\* Mutant: the phase begins with the arena not yet registered.
BeginUnregistered ==
  /\ Goto("created", "phase")
  /\ UNCHANGED registered
  /\ outcome' = "Running" /\ held' = {}
  /\ UNCHANGED <<launcher, mode, session, gated, arena>>

RegisterAndBegin ==
  /\ Goto("created", "phase")
  /\ registered' = arena
  /\ outcome' = "Running" /\ held' = {}
  /\ UNCHANGED <<launcher, mode, session, gated, arena>>

(* The secret phase itself. *)
RunPhase ==
  /\ place = "phase"
  /\ \/ Phase!Work /\ UNCHANGED place
     \/ (\E o \in Phase!Returns : Phase!Return(o)) /\ place' = "returned"
     \/ Phase!Stop /\ UNCHANGED place
     \/ (\E o \in {"PoweredOff", "Halted"} : Phase!Stopped(o)) /\ place' = "stopped"
  /\ UNCHANGED <<launcher, mode, session, gated, arena, registered>>

\* Mutant: the registration outlives the phase.
UnregisterForgotten ==
  /\ Goto("returned", "unregistered")
  /\ UNCHANGED <<launcher, mode, session, gated, arena, registered, phase>>

Unregister ==
  /\ Goto("returned", "unregistered")
  /\ registered' = NoArena
  /\ UNCHANGED <<launcher, mode, session, gated, arena, phase>>

(* The end of run_secret_phase: the arena's Drop scrubs it once more.      *)
(* Only a chosen return to the menu begins another session.                *)
ReturnFromPhase ==
  /\ place = "unregistered"
  /\ place' = IF outcome = "DestroyedReturnToMenu" THEN "landing" ELSE "firmware"
  /\ arena' = NoArena /\ held' = held \ {"arena"}
  /\ outcome' = "none"
  /\ UNCHANGED <<launcher, mode, session, gated, registered>>

---------------------------------------------------------------------------
(* The panic handler: panic_scrub_registered_arena, then halt_forever.  No *)
(* destructor runs.                                                        *)
Panic ==
  /\ place \in Program /\ place' = "panicked"
  /\ held' = IF registered # NoArena /\ registered = arena THEN held \ {"arena"} ELSE held
  /\ UNCHANGED <<launcher, mode, session, gated, arena, registered, outcome>>

ProgramNext ==
  \/ \E opened \in BOOLEAN : OpenGraphics(opened)
  \/ AcknowledgeRefusal \/ Exit
  \/ \E item \in {"learn", "selfcheck", "about"} : OpenItem(item)
  \/ LeaveItem \/ NextPage \/ LeavePages
  \/ \E c \in Categories : OpenCategory(c)
  \/ \E started \in BOOLEAN : StartVerifier(started)
  \/ \E left \in Modes : VerifierExits(left)
  \/ \E crypto \in {"clean", "blocked"}, answered \in BOOLEAN : HandOff(crypto, answered)
  \/ Generate \/ LeaveGates
  \/ CreateArena \/ RegisterAndBegin \/ RunPhase
  \/ Unregister \/ ReturnFromPhase
  \/ Panic

ProgramSpec == ProgramInit /\ [][ProgramNext]_programVars

---------------------------------------------------------------------------
(* Properties. *)

(* Whenever the program panics, in whichever ceremony and at whichever     *)
(* step, the arena holds nothing afterwards, although no destructor runs.  *)
PanicLeavesArenaClean == place = "panicked" => "arena" \notin held

(* The panic handler never follows a pointer to an arena that is gone.     *)
NeverDangling == registered # NoArena => registered = arena

(* Neither the firmware the program returns to nor the verifier it starts, *)
(* after any number of ceremonies, finds anything of them in memory.       *)
OthersFindNothing ==
  place \in {"firmware", "verifier"} => held = {} /\ arena = NoArena

(* A secret is made and drawn only behind a gate run of this very          *)
(* ceremony, not of one before, whose cryptographic check was passed       *)
(* unless the watchdog failed a re-assertion; and on a screen that is      *)
(* still linear and of the width and height the session draws with,        *)
(* whatever mode a verifier has left.  Of the pixel format and the length  *)
(* of a scan line it says nothing: the gate does not compare them.         *)
SecretBehindFreshGates ==
  place \in {"created", "phase"} =>
    /\ gated.session = session
    /\ gated.crypto = "clean" \/ ~gated.answered
    /\ mode.format # "BltOnly" /\ mode.size = OpenedMode.size
===========================================================================
