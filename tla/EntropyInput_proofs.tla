------------------------ MODULE EntropyInput_proofs ------------------------
(***************************************************************************)
(* What goes into the phrase: the sources acquired from the machine, and   *)
(* the transcript in which all sources are hashed.                         *)
(*                                                                         *)
(* The first part is about MachineAcquisition, for every budget, every     *)
(* retry limit, every number of blocks and pieces and every policy.  Its   *)
(* invariant has three parts beside the properties themselves.  InBlock    *)
(* says what has been read of a block and where: it makes a record out of  *)
(* blocks that were each compared with the one before.  InTurn says that a *)
(* sampler only runs in its turn and only if it was wanted: it keeps the   *)
(* two TPM families apart, since the older one has the last turn.          *)
(* Answered says that nothing is handed over before the sources are        *)
(* assembled, so they are assembled from nothing and none is dropped.      *)
(*                                                                         *)
(* The second part is about TranscriptUse, for every order of at most      *)
(* sixteen tags, all limits that fit their fields and the transcript, and  *)
(* all contents of the sources.  Holds says what a builder has of a set of *)
(* sources, Wire what is written for it, and Stands how far a decoder has  *)
(* read it.  Adding a source takes Holds from a set to the set with one    *)
(* more, writing takes Holds to Wire, and a round of the decoder takes     *)
(* Stands from a set to the set with one more, whether the bytes were      *)
(* written by a builder (ReadsBack) or merely accepted (ReadsSources).     *)
(*                                                                         *)
(* An induction over numbers is a least-number argument here (CountUp), in *)
(* which the set of good numbers is a parameter.                           *)
(***************************************************************************)
EXTENDS MachineAcquisition, TranscriptUse, FiniteSetTheorems, SequenceTheorems,
        WellFoundedInduction, TLAPS


---------------------------------------------------------------------------
(* The samplers. *)

(* Five sources, each with a sampler of two blocks or more, the firmware   *)
(* generator's of three.                                                   *)
LEMMA SamplerFacts ==
  /\ Source = {"ApprovedEfiRng", "X86Rdseed64", "X86RdrandSupplementary",
               "Tpm2GetRandom", "Tpm12GetRandom"}
  /\ Len(Order) = 5 /\ \A i \in 1 .. 5 : Order[i] \in Source
  /\ \A i, j \in 1 .. 5 : Order[i] = Order[j] => i = j
  /\ Order[5] = "Tpm12GetRandom"
  /\ \A s \in Source :
       /\ Sampler[s].blocks \in Nat /\ Sampler[s].blocks >= 2
       /\ s = "ApprovedEfiRng" => Sampler[s].blocks >= 3
       /\ Sampler[s].pieces \in Nat \ {0} /\ Sampler[s].retries \in Nat
<1>1. Source = {"ApprovedEfiRng", "X86Rdseed64", "X86RdrandSupplementary",
                "Tpm2GetRandom", "Tpm12GetRandom"}
  BY DEF Source, Sampler
<1>2. /\ Len(Order) = 5 /\ \A i \in 1 .. 5 : Order[i] \in Source
      /\ \A i, j \in 1 .. 5 : Order[i] = Order[j] => i = j
      /\ Order[5] = "Tpm12GetRandom"
  BY <1>1 DEF Order
<1> DEFINE OK(s, p) == /\ p.blocks \in Nat /\ p.blocks >= 2
                       /\ s = "ApprovedEfiRng" => p.blocks >= 3
                       /\ p.pieces \in Nat \ {0} /\ p.retries \in Nat
<1>3. /\ OK("ApprovedEfiRng", EfiRng) /\ OK("X86Rdseed64", Rdseed)
      /\ OK("X86RdrandSupplementary", Rdrand)
      /\ OK("Tpm2GetRandom", Tpm2) /\ OK("Tpm12GetRandom", Tpm12)
  BY BoundsAssumption DEF EfiRng, Rdseed, Rdrand, Tpm2, Tpm12
<1> HIDE DEF OK
<1>4. \A s \in Source : OK(s, Sampler[s])
  BY <1>1, <1>3 DEF Sampler
<1> QED BY <1>1, <1>2, <1>4 DEF OK

---------------------------------------------------------------------------
(* assemble_acquired_sources. *)

(* A record with a tag of its own is added behind the others.              *)
LEMMA PushFacts ==
  ASSUME NEW records \in Seq(Source), IsInjective(records), Len(records) < Capacity,
         NEW s \in Source \ ToSet(records)
  PROVE  LET pushed == PushSampled(records, s) IN
         /\ pushed \in Seq(Source) /\ IsInjective(pushed)
         /\ Len(pushed) <= Len(records) + 1
         /\ ToSet(pushed) = ToSet(records) \cup (sampled \cap {s})
<1>1. CASE s \notin sampled
  BY <1>1 DEF PushSampled
<1>2. CASE s \in sampled
  <2> DEFINE pushed == Append(records, s)
  <2>1. PushSampled(records, s) = pushed
    BY <1>2 DEF PushSampled, Push
  <2>2. /\ pushed \in Seq(Source) /\ Len(pushed) = Len(records) + 1
        /\ \A i \in 1 .. Len(records) : pushed[i] = records[i]
        /\ pushed[Len(records) + 1] = s
    OBVIOUS
  <2>3. /\ DOMAIN records = 1 .. Len(records) /\ Len(records) \in Nat
        /\ DOMAIN pushed = 1 .. Len(records) + 1
    BY <2>2
  <2> HIDE DEF pushed
  <2>4. ToSet(pushed) = ToSet(records) \cup {s}
    BY <2>2, <2>3 DEF ToSet
  <2>5. \A i \in DOMAIN records : records[i] # s
    BY DEF ToSet
  <2>6. IsInjective(pushed)
    BY <2>2, <2>3, <2>5 DEF IsInjective
  <2> QED BY <1>2, <2>1, <2>2, <2>4, <2>6
<1> QED BY <1>1, <1>2

(* From an empty set of records every sampled source is taken, once.       *)
LEMMA AssembledFacts ==
  ASSUME into = <<>>, sampled \subseteq Source
  PROVE  /\ Assembled \in Seq(Source) /\ Len(Assembled) <= Capacity
         /\ IsInjective(Assembled) /\ ToSet(Assembled) = sampled
<1> DEFINE efi   == PushSampled(into, "ApprovedEfiRng")
           seed  == PushSampled(efi, "X86Rdseed64")
           tpm2  == PushSampled(seed, "Tpm2GetRandom")
           tpm12 == PushSampled(tpm2, "Tpm12GetRandom")
           all   == PushSampled(tpm12, "X86RdrandSupplementary")
           OK(records, n, tags) == /\ records \in Seq(Source) /\ IsInjective(records)
                                   /\ Len(records) <= n
                                   /\ ToSet(records) = sampled \cap tags
<1>1. OK(into, 0, {})
  BY DEF ToSet, IsInjective
<1> DEFINE T1 == {} \cup {"ApprovedEfiRng"}
           T2 == T1 \cup {"X86Rdseed64"}
           T3 == T2 \cup {"Tpm2GetRandom"}
           T4 == T3 \cup {"Tpm12GetRandom"}
           T5 == T4 \cup {"X86RdrandSupplementary"}
           N1 == 0 + 1   N2 == N1 + 1   N3 == N2 + 1   N4 == N3 + 1   N5 == N4 + 1
<1>2. /\ "ApprovedEfiRng" \in Source \ {} /\ "X86Rdseed64" \in Source \ T1
      /\ "Tpm2GetRandom" \in Source \ T2 /\ "Tpm12GetRandom" \in Source \ T3
      /\ "X86RdrandSupplementary" \in Source \ T4 /\ T5 = Source /\ N5 = Capacity
      /\ {0, N1, N2, N3, N4} \subseteq 0 .. 4
  BY SamplerFacts DEF Capacity
<1> HIDE DEF efi, seed, tpm2, tpm12, all, OK, T1, T2, T3, T4, T5, N1, N2, N3, N4, N5
<1>3. ASSUME NEW records, NEW n \in 0 .. 4, NEW tags, OK(records, n, tags),
             NEW s \in Source \ tags
      PROVE  OK(PushSampled(records, s), n + 1, tags \cup {s})
  <2>1. s \notin ToSet(records) /\ Len(records) < Capacity
    BY <1>3 DEF Capacity, OK
  <2> QED BY <1>3, <2>1, PushFacts DEF OK
<1>4. OK(efi, N1, T1)
  BY <1>1, <1>2, <1>3 DEF efi, T1, N1
<1>5. OK(seed, N2, T2)
  BY <1>2, <1>3, <1>4 DEF seed, T2, N2
<1>6. OK(tpm2, N3, T3)
  BY <1>2, <1>3, <1>5 DEF tpm2, T3, N3
<1>7. OK(tpm12, N4, T4)
  BY <1>2, <1>3, <1>6 DEF tpm12, T4, N4
<1>8. OK(all, N5, T5)
  BY <1>2, <1>3, <1>7 DEF all, T5, N5
<1>9. Assembled = all
  BY DEF Assembled, efi, seed, tpm2, tpm12, all
<1> QED BY <1>2, <1>8, <1>9 DEF OK

---------------------------------------------------------------------------
(* The invariant. *)

Sampling == {"manufacturer", "read", "sampled"}

(* What is read of a block is counted while it is being read; the blocks   *)
(* kept so far are alive and differ from one another in turn.              *)
InBlock ==
  /\ pc # "read" => filled = 0 /\ tries = 0 /\ rounds = 0
  /\ pc \notin {"read", "sampled"} => blocks = <<>>
  /\ pc = "read" => Len(blocks) < Plan.blocks
  /\ pc = "sampled" => Len(blocks) = Plan.blocks
  /\ \A i \in 1 .. Len(blocks) : blocks[i] # "dead" /\ (i > 1 => blocks[i] # blocks[i - 1])

(* A source is sampled in its turn, so the older TPM family only when the  *)
(* newer one has had its turn in vain.                                     *)
InTurn ==
  /\ pc \in Sampling => Wanted(Current)
  /\ sampled \cap Tpms # {} => tpm
  /\ ~ Tpms \subseteq sampled
  /\ "Tpm12GetRandom" \in sampled => at = Len(Order) + 1
  /\ timedOut => left = 0

(* Nothing is handed over before the acquisition is assembled, and nothing *)
(* at all without a policy.                                                *)
Answered ==
  /\ pc # "idle" => result = "none" /\ into = <<>> /\ usable /\ runs # 0
  /\ ~usable => sampled = {} /\ result # "Ok"
  /\ runs = 0 => result = "none"

IInv == TypeOK /\ InBlock /\ InTurn /\ Answered
          /\ PrimaryDecides /\ HandsOverSampled /\ NoReadPastBudget

---------------------------------------------------------------------------
(* The steps. *)

(* A source whose turn it is has a sampler. *)
LEMMA CurrentFacts ==
  ASSUME TypeOK, at <= Len(Order)
  PROVE  /\ Current \in Source /\ (at < Len(Order) => Current # "Tpm12GetRandom")
         /\ Plan.blocks \in Nat /\ Plan.blocks >= 2
         /\ Current = "ApprovedEfiRng" => Plan.blocks >= 3
         /\ Plan.pieces \in Nat \ {0} /\ Plan.retries \in Nat
<1>1. at \in 1 .. 5 /\ Len(Order) = 5
  BY SamplerFacts DEF TypeOK
<1>2. Current \in Source /\ (at < 5 => Current # "Tpm12GetRandom")
  BY <1>1, SamplerFacts DEF Current
<1> QED BY <1>1, <1>2, SamplerFacts DEF Plan

(* A call uses some of the budget up; only one begun with nothing left is  *)
(* late.                                                                   *)
LEMMA CallFacts ==
  ASSUME TypeOK, at <= Len(Order), NEW kind \in {"probe", "manufacturer", "read"},
         NEW d, Call(kind, d)
  PROVE  /\ left' \in 0 .. Budget /\ (left = 0 => left' = 0)
         /\ late' \subseteq {"probe", "manufacturer", "read"} \X Source
         /\ NoReadPastBudget /\ (kind = "read" => left # 0) => NoReadPastBudget'
<1>1. Current \in Source
  BY CurrentFacts
<1>2. left \in 0 .. Budget /\ Budget \in Nat
  BY BoundsAssumption DEF TypeOK
<1>3. left' \in 0 .. Budget /\ (left = 0 => left' = 0)
  BY <1>2 DEF Call
<1>4. late' \subseteq late \cup {<<kind, Current>>} /\ (left # 0 => late' = late)
  BY DEF Call
<1> QED BY <1>1, <1>3, <1>4 DEF TypeOK, NoReadPastBudget

(* A sampler that fails leaves its turn as it found it.                    *)
LEMMA FailInv ==
  ASSUME IInv, pc # "idle", at <= Len(Order), Fail,
         left' \in 0 .. Budget, left = 0 => left' = 0,
         timedOut' \in BOOLEAN, timedOut' => timedOut \/ left' = 0,
         late' \subseteq {"probe", "manufacturer", "read"} \X Source, NoReadPastBudget'
  PROVE  IInv'
<1>1. at' \in 1 .. Len(Order) + 1 /\ "Tpm12GetRandom" \notin sampled
  <2>1. at \in 1 .. 6 /\ Len(Order) = 5
    BY SamplerFacts DEF IInv, TypeOK
  <2> QED BY <2>1 DEF IInv, InTurn, Fail
<1>2. TypeOK'
  BY <1>1 DEF IInv, TypeOK, Fail, NoBlock, setup, returned
<1>3. InBlock'
  BY DEF Fail, NoBlock, InBlock
<1>4. InTurn'
  BY <1>1 DEF IInv, InTurn, Fail, setup, Sampling
<1>5. Answered' /\ PrimaryDecides' /\ HandsOverSampled'
  BY DEF IInv, Answered, PrimaryDecides, HandsOverSampled, Fail, setup, returned
<1> QED BY <1>2, <1>3, <1>4, <1>5 DEF IInv

(* The turn of a source, up to its first read. *)
LEMMA ProbeInv ==
  ASSUME IInv, NEW d, NEW refused, Probe(d, refused) \/ ManufacturerGate(d, refused)
  PROVE  IInv'
<1>1. /\ pc \in {"next", "manufacturer"} /\ at <= Len(Order) /\ Wanted(Current)
      /\ UNCHANGED timedOut
      /\ left' \in 0 .. Budget /\ (left = 0 => left' = 0)
      /\ late' \subseteq {"probe", "manufacturer", "read"} \X Source /\ NoReadPastBudget'
  <2>1. CASE Probe(d, refused)
    <3>1. CASE Plan.calls
      BY <2>1, <3>1, CallFacts DEF Probe, IInv
    <3>2. CASE ~Plan.calls
      BY <2>1, <3>2 DEF Probe, IInv, TypeOK, NoReadPastBudget
    <3> QED BY <3>1, <3>2
  <2>2. CASE ManufacturerGate(d, refused)
    BY <2>2, CallFacts DEF ManufacturerGate, IInv, TypeOK, InTurn, Sampling
  <2> QED BY <2>1, <2>2
<1>2. CASE Fail
  BY <1>1, <1>2, FailInv DEF IInv, TypeOK
<1>3. CASE /\ pc' \in {"manufacturer", "read"}
           /\ UNCHANGED <<setup, at, reading, sampled, returned>>
  <2>1. /\ Plan.blocks \in Nat /\ Plan.blocks >= 2
        /\ Plan.pieces \in Nat \ {0} /\ Plan.retries \in Nat
    BY <1>1, CurrentFacts DEF IInv
  <2>2. Plan' = Plan /\ Current' = Current /\ (Wanted(Current) => Wanted(Current)')
    BY <1>3 DEF Plan, Current, Wanted, setup
  <2>3. Len(blocks) = 0 /\ filled = 0 /\ tries = 0 /\ rounds = 0
    BY <1>1 DEF IInv, InBlock
  <2>4. TypeOK'
    <3>1. MaxReadRounds \in Nat \ {0}
      BY BoundsAssumption
    <3>2. /\ Len(blocks) <= Plan.blocks
          /\ filled \in 0 .. Plan.pieces - 1
          /\ tries \in 0 .. Plan.retries
          /\ rounds \in 0 .. MaxReadRounds - 1
      BY <2>1, <2>3, <3>1
    <3> QED BY <1>1, <1>3, <2>2, <3>2 DEF IInv, TypeOK, setup, reading, returned
  <2>5. InBlock' /\ InTurn'
    BY <1>1, <1>3, <2>1, <2>2, <2>3 DEF IInv, InBlock, InTurn, setup, reading
  <2>6. Answered' /\ PrimaryDecides' /\ HandsOverSampled'
    BY <1>1, <1>3 DEF IInv, Answered, PrimaryDecides, HandsOverSampled, setup, returned
  <2> QED BY <1>1, <2>4, <2>5, <2>6 DEF IInv
<1> QED BY <1>2, <1>3 DEF Probe, ManufacturerGate

(* What every call that reads has in common. *)
LEMMA ReadFacts ==
  ASSUME IInv, pc = "read", ~Expired, NEW d, Call("read", d)
  PROVE  /\ at <= Len(Order)
         /\ left' \in 0 .. Budget /\ (left = 0 => left' = 0)
         /\ late' \subseteq {"probe", "manufacturer", "read"} \X Source /\ NoReadPastBudget'
  BY CallFacts DEF IInv, TypeOK, Expired

(* A read that neither completes a block nor fails changes the counters of *)
(* the block only.                                                         *)
LEMMA ProgressInv ==
  ASSUME IInv, pc = "read", pc' = "read",
         UNCHANGED <<setup, at, blocks, sampled, timedOut, returned>>,
         filled' \in 0 .. Plan.pieces - 1, tries' \in 0 .. Plan.retries,
         rounds' \in 0 .. MaxReadRounds - 1,
         left' \in 0 .. Budget, left = 0 => left' = 0,
         late' \subseteq {"probe", "manufacturer", "read"} \X Source, NoReadPastBudget'
  PROVE  IInv'
<1>1. Plan' = Plan /\ Current' = Current /\ (Wanted(Current) => Wanted(Current)')
  BY DEF Plan, Current, Wanted, setup
<1>2. TypeOK'
  BY <1>1 DEF IInv, TypeOK, setup, returned
<1>3. InBlock' /\ InTurn'
  BY <1>1 DEF IInv, InBlock, InTurn, Sampling, setup
<1>4. Answered' /\ PrimaryDecides' /\ HandsOverSampled'
  BY DEF IInv, Answered, PrimaryDecides, HandsOverSampled, setup, returned
<1> QED BY <1>2, <1>3, <1>4 DEF IInv

(* A healthy block is kept behind the ones before it.                      *)
LEMMA KeepInv ==
  ASSUME IInv, pc = "read", NEW b \in Block, Healthy(b),
         blocks' = Append(blocks, b), NoBlock,
         pc' = IF Len(blocks) + 1 = Plan.blocks THEN "sampled" ELSE "read",
         UNCHANGED <<setup, at, sampled, timedOut, returned>>,
         left' \in 0 .. Budget, left = 0 => left' = 0,
         late' \subseteq {"probe", "manufacturer", "read"} \X Source, NoReadPastBudget'
  PROVE  IInv'
<1>1. Plan' = Plan /\ Current' = Current /\ (Wanted(Current) => Wanted(Current)')
  BY DEF Plan, Current, Wanted, setup
<1>2. /\ Plan.blocks \in Nat /\ Plan.pieces \in Nat \ {0} /\ Plan.retries \in Nat
      /\ MaxReadRounds \in Nat \ {0}
  BY CurrentFacts, BoundsAssumption DEF IInv, TypeOK
<1>3. /\ blocks \in Seq(Block) /\ Len(blocks) \in Nat /\ Len(blocks) < Plan.blocks
      /\ \A i \in 1 .. Len(blocks) : blocks[i] # "dead" /\ (i > 1 => blocks[i] # blocks[i - 1])
  BY DEF IInv, TypeOK, InBlock
<1>4. /\ blocks' \in Seq(Block) /\ Len(blocks') = Len(blocks) + 1
      /\ blocks'[Len(blocks) + 1] = b
      /\ \A i \in 1 .. Len(blocks) : blocks'[i] = blocks[i]
  BY <1>3
<1>5. b # "dead" /\ (Len(blocks) > 0 => b # blocks[Len(blocks)])
  BY <1>3 DEF Healthy, Last
<1>6. TypeOK'
  <2>1. /\ Len(blocks') <= Plan.blocks /\ 0 \in 0 .. Plan.pieces - 1
        /\ 0 \in 0 .. Plan.retries /\ 0 \in 0 .. MaxReadRounds - 1
    BY <1>2, <1>3, <1>4
  <2>2. at \in 1 .. Len(Order) + 1 /\ at <= Len(Order)
    BY DEF IInv, TypeOK
  <2> QED BY <1>1, <1>4, <2>1, <2>2 DEF IInv, TypeOK, NoBlock, setup, returned
<1>7. InBlock'
  <2>1. \A i \in 1 .. Len(blocks') :
          blocks'[i] # "dead" /\ (i > 1 => blocks'[i] # blocks'[i - 1])
    BY <1>3, <1>4, <1>5
  <2> QED BY <1>1, <1>2, <1>3, <1>4, <2>1 DEF InBlock, NoBlock
<1>8. InTurn'
  BY <1>1 DEF IInv, InTurn, Sampling, setup
<1>9. Answered' /\ PrimaryDecides' /\ HandsOverSampled'
  BY DEF IInv, Answered, PrimaryDecides, HandsOverSampled, setup, returned
<1> QED BY <1>6, <1>7, <1>8, <1>9 DEF IInv

(* The read loops. *)
LEMMA ReadInv ==
  ASSUME IInv,
         \/ ReadExpired
         \/ \E d \in 0 .. Budget, n \in 1 .. TpmBlockUnits, b \in Block : ReadPiece(d, n, b)
         \/ \E d \in 0 .. Budget : ReadRetry(d) \/ ReadError(d)
  PROVE  IInv'
<1>0. timedOut \in BOOLEAN
  BY DEF IInv, TypeOK
<1>1. CASE ReadExpired
  <2>1. pc = "read" /\ left = 0 /\ at <= Len(Order) /\ left' = left /\ late' = late /\ Fail
    BY <1>1 DEF ReadExpired, Expired, IInv, TypeOK
  <2>2. /\ left' \in 0 .. Budget /\ NoReadPastBudget'
        /\ late' \subseteq {"probe", "manufacturer", "read"} \X Source
    BY <2>1 DEF IInv, TypeOK, NoReadPastBudget
  <2>3. timedOut' \in BOOLEAN
    BY <1>1 DEF ReadExpired, TimedOutPrimary, IInv, TypeOK
  <2> QED BY <2>1, <2>2, <2>3, FailInv
<1>2. ASSUME NEW d \in 0 .. Budget, NEW n \in 1 .. TpmBlockUnits, NEW b \in Block,
             ReadPiece(d, n, b)
      PROVE  IInv'
  <2>1. /\ pc = "read" /\ at <= Len(Order) /\ UNCHANGED timedOut
        /\ left' \in 0 .. Budget /\ (left = 0 => left' = 0)
        /\ late' \subseteq {"probe", "manufacturer", "read"} \X Source /\ NoReadPastBudget'
    BY <1>2, ReadFacts DEF ReadPiece
  <2>2. CASE Fail
    BY <1>0, <2>1, <2>2, FailInv
  <2>3. CASE BlockDone(b) /\ Healthy(b)
    BY <2>1, <2>3, KeepInv DEF BlockDone
  <2>4. CASE /\ filled + n # Plan.pieces /\ ~Fail
             /\ ~(Current = "Tpm12GetRandom" /\ rounds + 1 >= MaxReadRounds)
    <3>1. /\ Plan.pieces \in Nat \ {0} /\ Plan.retries \in Nat
          /\ MaxReadRounds \in Nat \ {0}
          /\ filled \in 0 .. Plan.pieces - 1 /\ rounds \in 0 .. MaxReadRounds - 1
      BY <2>1, CurrentFacts, BoundsAssumption DEF IInv, TypeOK
    <3>2. /\ n \in 1 .. Plan.pieces - filled
          /\ filled' = filled + n /\ tries' = 0
          /\ rounds' = IF Current = "Tpm12GetRandom" THEN rounds + 1 ELSE 0
          /\ UNCHANGED <<setup, at, pc, blocks, sampled, returned>>
      BY <1>2, <2>4 DEF ReadPiece
    <3>3. /\ filled' \in 0 .. Plan.pieces - 1 /\ tries' \in 0 .. Plan.retries
          /\ rounds' \in 0 .. MaxReadRounds - 1
      BY <2>4, <3>1, <3>2
    <3> QED BY <2>1, <3>2, <3>3, ProgressInv
  <2> QED BY <1>2, <2>2, <2>3, <2>4 DEF ReadPiece, BlockDone
<1>3. ASSUME NEW d \in 0 .. Budget, ReadRetry(d) PROVE IInv'
  <2>1. /\ pc = "read" /\ at <= Len(Order) /\ UNCHANGED timedOut
        /\ left' \in 0 .. Budget /\ (left = 0 => left' = 0)
        /\ late' \subseteq {"probe", "manufacturer", "read"} \X Source /\ NoReadPastBudget'
    BY <1>3, ReadFacts DEF ReadRetry
  <2>2. CASE RetriesExhausted
    <3>1. Fail
      BY <1>3, <2>2 DEF ReadRetry
    <3> QED BY <1>0, <2>1, <3>1, FailInv
  <2>3. CASE ~RetriesExhausted
    <3>1. /\ Plan.retries \in Nat /\ tries \in 0 .. Plan.retries
          /\ filled \in 0 .. Plan.pieces - 1 /\ rounds \in 0 .. MaxReadRounds - 1
      BY <2>1, CurrentFacts DEF IInv, TypeOK
    <3>2. /\ tries' = tries + 1
          /\ UNCHANGED <<setup, at, pc, blocks, filled, rounds, sampled, returned>>
      BY <1>3, <2>3 DEF ReadRetry
    <3>3. tries' \in 0 .. Plan.retries
      BY <2>3, <3>1, <3>2 DEF RetriesExhausted
    <3> QED BY <2>1, <3>1, <3>2, <3>3, ProgressInv
  <2> QED BY <2>2, <2>3
<1>4. ASSUME NEW d \in 0 .. Budget, ReadError(d) PROVE IInv'
  <2>1. /\ pc = "read" /\ at <= Len(Order) /\ UNCHANGED timedOut /\ Fail
        /\ left' \in 0 .. Budget /\ (left = 0 => left' = 0)
        /\ late' \subseteq {"probe", "manufacturer", "read"} \X Source /\ NoReadPastBudget'
    BY <1>4, ReadFacts DEF ReadError
  <2> QED BY <1>0, <2>1, FailInv
<1> QED BY <1>1, <1>2, <1>3, <1>4

(* Between the samplers, and before and after them.                        *)
LEMMA TurnInv ==
  ASSUME IInv, SkipSource \/ Sampled \/ Assemble \/ \E optIn \in BOOLEAN : Begin(optIn)
  PROVE  IInv'
<1> USE DEF setup, reading, returned
<1>1. at \in 1 .. 6 /\ Len(Order) = 5
  BY SamplerFacts DEF IInv, TypeOK
<1>2. CASE SkipSource
  <2>1. at' \in 1 .. 6 /\ "Tpm12GetRandom" \notin sampled
    BY <1>1, <1>2 DEF SkipSource, IInv, InTurn
  <2>2. TypeOK'
    BY <1>1, <1>2, <2>1 DEF SkipSource, IInv, TypeOK
  <2> QED
    BY <1>1, <1>2, <2>1, <2>2 DEF SkipSource, IInv, InBlock, InTurn, Sampling, Answered,
       PrimaryDecides, HandsOverSampled, NoReadPastBudget
<1>3. CASE Sampled
  <2>1. /\ at < 6 /\ Current \in Source /\ (at < 5 => Current # "Tpm12GetRandom")
        /\ Wanted(Current)
    BY <1>1, <1>3, CurrentFacts DEF Sampled, IInv, TypeOK, InTurn, Sampling
  <2>2. at' \in 1 .. 6 /\ "Tpm12GetRandom" \notin sampled /\ at' = at + 1
    BY <1>1, <1>3, <2>1 DEF Sampled, IInv, InTurn
  <2>3. TypeOK'
    BY <1>1, <1>3, <2>1, <2>2 DEF Sampled, IInv, TypeOK
  <2>4. InTurn'
    BY <1>1, <1>3, <2>1, <2>2 DEF Sampled, IInv, InTurn, Sampling, Wanted, Tpms
  <2>5. InBlock' /\ Answered'
    BY <1>3 DEF Sampled, IInv, InBlock, Answered
  <2> QED
    BY <1>3, <2>3, <2>4, <2>5 DEF Sampled, IInv, Answered, PrimaryDecides,
       HandsOverSampled, NoReadPastBudget
<1>4. CASE Assemble
  <2>1. /\ pc = "next" /\ pc' = "idle" /\ into = <<>> /\ sampled \subseteq Source /\ usable
        /\ UNCHANGED <<setup, left, at, reading, sampled, timedOut, late>>
    BY <1>4 DEF Assemble, IInv, Answered, TypeOK
  <2>2. \/ /\ sampled \cap Primary # {} /\ into' = Assembled /\ result' = "Ok"
        \/ /\ sampled \cap Primary = {} /\ into' = <<>>
           /\ result' = IF timedOut THEN "SourceTimedOut" ELSE "NoSourceAvailable"
    BY <1>4, <2>1 DEF Assemble
  <2>3. /\ into' \in Seq(Source) /\ Len(into') <= Capacity
        /\ result' = "Ok" => IsInjective(into') /\ ToSet(into') = sampled
    <3>1. CASE into' = Assembled
      BY <2>1, <3>1, AssembledFacts
    <3>2. CASE into' = <<>> /\ result' # "Ok"
      BY <3>2 DEF Capacity
    <3> QED BY <2>2, <3>1, <3>2
  <2>4. TypeOK'
    BY <2>1, <2>2, <2>3 DEF IInv, TypeOK
  <2>5. InBlock' /\ InTurn' /\ NoReadPastBudget'
    BY <2>1 DEF IInv, InBlock, InTurn, NoReadPastBudget, Sampling
  <2>6. Answered'
    BY <2>1, <1>4 DEF Assemble, IInv, Answered
  <2>7. PrimaryDecides'
    BY <2>1, <2>2, <2>3 DEF PrimaryDecides, Primary, IInv, InTurn
  <2>8. HandsOverSampled'
    BY <2>1, <2>2, <2>3 DEF HandsOverSampled, IInv, InTurn
  <2> QED BY <2>4, <2>5, <2>6, <2>7, <2>8 DEF IInv
<1>5. ASSUME NEW optIn \in BOOLEAN, Begin(optIn) PROVE IInv'
  <2>1. /\ pc = "idle" /\ runs' = runs + 1 /\ runs' \in 0 .. MaxAcquisitions
        /\ tpm' = optIn /\ into' = <<>> /\ UNCHANGED <<usable, reading, late>>
    BY <1>5, BoundsAssumption, SMTT(60) DEF Begin, RecordsBeforeCommit, IInv, TypeOK
  <2>2. blocks = <<>> /\ filled = 0 /\ tries = 0 /\ rounds = 0
    BY <2>1 DEF IInv, InBlock
  <2>3. CASE usable
    <3>1. /\ result' = "none" /\ pc' = "next" /\ at' = 1 /\ left' = Budget
          /\ sampled' = {} /\ timedOut' = FALSE
      BY <1>5, <2>3 DEF Begin
    <3>2. TypeOK'
      <4>1. /\ 1 \in 1 .. Len(Order) + 1 /\ Budget \in 0 .. Budget
            /\ <<>> \in Seq(Source) /\ Len(<<>>) <= Capacity
        BY <1>1, BoundsAssumption DEF Capacity
      <4> QED BY <2>1, <3>1, <4>1 DEF IInv, TypeOK
    <3> QED
      BY <2>1, <2>2, <2>3, <3>1, <3>2 DEF IInv, InBlock, InTurn, Sampling, Answered,
         PrimaryDecides, HandsOverSampled, NoReadPastBudget, TypeOK, Tpms
  <2>4. CASE ~usable
    <3>1. /\ result' = "NoSourceAvailable" /\ UNCHANGED <<pc, at, left, sampled, timedOut>>
          /\ sampled = {}
      BY <1>5, <2>4 DEF Begin, IInv, Answered
    <3>2. TypeOK'
      BY <2>1, <3>1 DEF IInv, TypeOK, Capacity
    <3> QED
      BY <2>1, <2>2, <2>4, <3>1, <3>2 DEF IInv, InBlock, InTurn, Sampling, Answered,
         PrimaryDecides, HandsOverSampled, NoReadPastBudget, TypeOK, Tpms
  <2> QED BY <2>3, <2>4
<1> QED BY <1>2, <1>3, <1>4, <1>5

(* Nothing has been sampled, read or handed over at first.                 *)
LEMMA InitInv == Init => IInv
<1> SUFFICES ASSUME Init PROVE IInv
  OBVIOUS
<1>1. TypeOK
  <2>1. /\ 1 \in 1 .. Len(Order) + 1 /\ Budget \in 0 .. Budget /\ 0 \in 0 .. MaxAcquisitions
        /\ <<>> \in Seq(Source) /\ Len(<<>>) <= Capacity /\ <<>> \in Seq(Block)
    BY SamplerFacts, BoundsAssumption DEF Capacity
  <2> QED BY <2>1 DEF Init, TypeOK
<1> QED
  BY <1>1 DEF Init, IInv, InBlock, InTurn, Sampling, Answered, PrimaryDecides,
     HandsOverSampled, NoReadPastBudget, Tpms

(* One case for each action, in the lemma of its group.                    *)
LEMMA NextInv == IInv /\ [Next]_vars => IInv'
<1> SUFFICES ASSUME IInv, [Next]_vars PROVE IInv'
  OBVIOUS
<1>1. CASE UNCHANGED vars
  BY <1>1 DEF vars, setup, reading, returned, IInv, TypeOK, InBlock, InTurn, Answered,
     PrimaryDecides, HandsOverSampled, NoReadPastBudget, Plan, Current, Wanted
<1>2. CASE Acquire
  BY <1>2, ProbeInv, ReadInv, TurnInv DEF Acquire
<1>3. CASE \E optIn \in BOOLEAN : Begin(optIn)
  BY <1>3, TurnInv
<1> QED BY <1>1, <1>2, <1>3 DEF Next

(* The invariant holds in every run. *)
LEMMA Invariance == Spec => []IInv
  BY InitInv, NextInv, PTL DEF Spec

---------------------------------------------------------------------------
(* The theorems. *)

(* The counters of the read loops stay within the limits of the policy,    *)
(* whatever these are.                                                     *)
THEOREM TypeCorrect == Spec => []TypeOK
<1>1. IInv => TypeOK
  BY DEF IInv
<1> QED BY <1>1, Invariance, PTL

(* A sampler returns a record only of blocks that were all alive and each  *)
(* different from the one before: two of them, and three of the firmware   *)
(* generator.                                                              *)
THEOREM EveryRecordChecked == Spec => []RecordsChecked
<1>1. IInv => RecordsChecked
  <2> SUFFICES ASSUME IInv, pc = "sampled"
               PROVE  /\ Len(blocks) >= IF Current = "ApprovedEfiRng" THEN 3 ELSE 2
                      /\ \A i \in DOMAIN blocks : blocks[i] # "dead"
                      /\ \A i \in 2 .. Len(blocks) : blocks[i] # blocks[i - 1]
    BY DEF RecordsChecked
  <2>1. /\ Len(blocks) = Plan.blocks /\ Len(blocks) \in Nat
        /\ DOMAIN blocks = 1 .. Len(blocks)
        /\ \A i \in 1 .. Len(blocks) : blocks[i] # "dead" /\ (i > 1 => blocks[i] # blocks[i - 1])
    BY DEF IInv, TypeOK, InBlock
  <2>2. Plan.blocks >= 2 /\ (Current = "ApprovedEfiRng" => Plan.blocks >= 3)
    BY CurrentFacts DEF IInv, TypeOK
  <2> QED BY <2>1, <2>2
<1> QED BY <1>1, Invariance, PTL

(* An acquisition succeeds if and only if a source other than RDRAND was   *)
(* sampled, leaves nothing behind if it does not, and blames the clock     *)
(* only when the budget is spent.                                          *)
THEOREM PrimarySourceDecides == Spec => []PrimaryDecides
<1>1. IInv => PrimaryDecides
  BY DEF IInv
<1> QED BY <1>1, Invariance, PTL

(* However often a setup is committed again, exactly what was sampled is   *)
(* handed over, each source once, and a TPM only if it was asked for and   *)
(* never in both families.                                                 *)
THEOREM HandsOverWhatItSampled == Spec => []HandsOverSampled
<1>1. IInv => HandsOverSampled
  BY DEF IInv
<1> QED BY <1>1, Invariance, PTL

(* No random bytes are asked for once the budget is spent.                 *)
THEOREM BudgetBoundsReads == Spec => []NoReadPastBudget
<1>1. IInv => NoReadPastBudget
  BY DEF IInv
<1> QED BY <1>1, Invariance, PTL

---------------------------------------------------------------------------
(***************************************************************************)
(* The transcript.                                                         *)
(***************************************************************************)

(* The number of tags. *)
N == MaxSourceRecords

---------------------------------------------------------------------------
(* Counting up.  A set of numbers that contains a, and each number of      *)
(* a + 1 .. n whose predecessor it contains, contains all of a .. n.       *)
LEMMA CountUp ==
  ASSUME NEW a \in Nat, NEW n \in Nat, NEW T, a \in T,
         \A i \in (a + 1) .. n : i - 1 \in T => i \in T
  PROVE  a .. n \subseteq T
<1> SUFFICES ASSUME ~(a .. n \subseteq T) PROVE FALSE
  OBVIOUS
<1> DEFINE Missing == {i \in a .. n : i \notin T}
           R == OpToRel(<, Nat)
<1>1. Missing # {} /\ Missing \subseteq Nat
  OBVIOUS
<1>2. PICK i \in Missing : \A j \in Missing : ~(<<j, i>> \in R)
  BY <1>1, NatLessThanWellFounded, WFMin
<1>3. \A j \in Missing : ~(j < i)
  BY <1>1, <1>2 DEF OpToRel
<1>4. i \in (a + 1) .. n /\ i - 1 \notin Missing
  BY <1>3
<1> QED
  BY <1>4

---------------------------------------------------------------------------
(* Sequences of bytes. *)

(* A cut out of the front of a sequence, and out of its middle.            *)
LEMMA CutFront ==
  ASSUME NEW X, NEW p \in Seq(X), NEW r \in Seq(X), NEW a \in Nat, NEW b \in Nat,
         a <= b, b <= Len(p)
  PROVE  SubSeq(p \o r, a + 1, b) = SubSeq(p, a + 1, b)
<1>1. CASE a = b
  BY <1>1, SubSeqEmpty
<1>2. CASE a < b
  <2>1. a + 1 \in 1 .. Len(p) /\ b \in 1 .. Len(p)
    BY <1>2
  <2> QED BY <2>1, SubSeqOfConcat1
<1> QED BY <1>1, <1>2

(* The middle of three.                                                    *)
LEMMA CutMiddle ==
  ASSUME NEW X, NEW p \in Seq(X), NEW m \in Seq(X), NEW r \in Seq(X)
  PROVE  SubSeq(p \o (m \o r), Len(p) + 1, Len(p) + Len(m)) = m
<1>1. m \o r \in Seq(X) /\ Len(m) \in Nat /\ Len(p) \in Nat /\ Len(m \o r) = Len(m) + Len(r)
      /\ Len(r) \in Nat
  BY ConcatProperties
<1>2. CASE Len(m) = 0
  <2>1. m = << >> BY <1>2, EmptySeq
  <2> QED BY <1>1, <1>2, <2>1, SubSeqEmpty
<1>3. CASE Len(m) > 0
  <2>1. SubSeq(p \o (m \o r), Len(p) + 1, Len(p) + Len(m)) = SubSeq(m \o r, 1, Len(m))
    <3>1. Len(p) + 1 \in Len(p) + 1 .. Len(p) + Len(m \o r)
      BY <1>1, <1>3
    <3>2. Len(p) + Len(m) \in Len(p) + 1 .. Len(p) + Len(m \o r)
      BY <1>1, <1>3
    <3>3. Len(p) + 1 - Len(p) = 1 /\ Len(p) + Len(m) - Len(p) = Len(m)
      BY <1>1
    <3> QED BY <1>1, <3>1, <3>2, <3>3, SubSeqOfConcat2
  <2>2. SubSeq(m \o r, 0 + 1, Len(m)) = SubSeq(m, 0 + 1, Len(m))
    BY <1>1, CutFront
  <2> QED BY <1>1, <2>1, <2>2, SubSeqFull
<1> QED BY <1>1, <1>2, <1>3

(* Two neighbouring cuts make one. *)
LEMMA CutJoin ==
  ASSUME NEW X, NEW s \in Seq(X), NEW a \in Nat, NEW b \in Nat, NEW c \in Nat,
         a <= b, b <= c, c <= Len(s)
  PROVE  SubSeq(s, a + 1, c) = SubSeq(s, a + 1, b) \o SubSeq(s, b + 1, c)
<1>1. Len(s) \in Nat /\ a + 1 \in 1 .. Len(s) + 1 /\ b \in (a + 1) - 1 .. Len(s)
      /\ c \in b .. Len(s)
  BY LenProperties
<1> QED BY <1>1, ConcatAdjacentSubSeq

(* A cut is a sequence of its length. *)
LEMMA CutFacts ==
  ASSUME NEW X, NEW s \in Seq(X), NEW a \in Nat, NEW b \in Nat, a <= b, b <= Len(s)
  PROVE  /\ SubSeq(s, a + 1, b) \in Seq(X) /\ Len(SubSeq(s, a + 1, b)) = b - a
         /\ \A i \in 1 .. b - a : SubSeq(s, a + 1, b)[i] = s[a + i]
<1>1. \A i \in a + 1 .. b : s[i] \in X
  BY ElementOfSeq
<1>2. /\ SubSeq(s, a + 1, b) \in Seq(X)
      /\ Len(SubSeq(s, a + 1, b)) = IF a + 1 <= b THEN b - (a + 1) + 1 ELSE 0
      /\ \A i \in 1 .. b - (a + 1) + 1 : SubSeq(s, a + 1, b)[i] = s[(a + 1) + i - 1]
  BY <1>1, SubSeqProperties
<1> QED BY <1>2

---------------------------------------------------------------------------
(* The recursive functions of the model.  A function given by its own      *)
(* values at smaller numbers exists: it does up to each number, counting   *)
(* up.                                                                     *)

(* Flattening goes through the flattened beginnings.                       *)
LEMMA Flattened ==
  ASSUME NEW X, NEW ss \in Seq(Seq(X))
  PROVE  \E f \in [0 .. Len(ss) -> Seq(X)] :
           /\ f[0] = << >> /\ f[Len(ss)] = FlattenSeq(ss)
           /\ \A i \in 1 .. Len(ss) : f[i] = f[i - 1] \o ss[i]
<1> DEFINE n == Len(ss)
           Upto(f, m) == [i \in 1 .. m |-> IF i = 1 THEN ss[i] ELSE f[i - 1] \o ss[i]]
           flatten == CHOOSE f : f = Upto(f, n)
<1>1. n \in Nat /\ \A i \in 1 .. n : ss[i] \in Seq(X)
  BY LenProperties, ElementOfSeq
<1>2. CASE n = 0
  <2>1. FlattenSeq(ss) = << >> BY <1>2, EmptySeq DEF FlattenSeq
  <2> WITNESS [i \in 0 .. Len(ss) |-> << >>] \in [0 .. Len(ss) -> Seq(X)]
  <2> QED BY <1>2, <2>1
<1>3. CASE n # 0
  <2>1. FlattenSeq(ss) = flatten[n]
    BY <1>3, Zenon DEF FlattenSeq
  <2>2. \A f, m : f = Upto(f, m) =>
           \A i \in 1 .. m : f[i] = IF i = 1 THEN ss[i] ELSE f[i - 1] \o ss[i]
    BY Zenon
  <2>3. \E f : f = Upto(f, n)
    <3> DEFINE T == {m \in 1 .. n : \E f : f = Upto(f, m)}
    <3>1. 1 \in T
      <4> DEFINE f == [i \in 1 .. 1 |-> ss[i]]
      <4>1. f = Upto(f, 1) OBVIOUS
      <4> HIDE DEF f, Upto
      <4> QED BY <1>1, <1>3, <4>1
    <3>2. ASSUME NEW m \in (1 + 1) .. n, m - 1 \in T PROVE m \in T
      <4> HIDE DEF Upto
      <4>1. PICK f : f = Upto(f, m - 1) BY <3>2
      <4> DEFINE g == [i \in 1 .. m |-> IF i = m THEN f[m - 1] \o ss[m] ELSE f[i]]
      <4>2. \A i \in 1 .. m - 1 : f[i] = IF i = 1 THEN ss[i] ELSE f[i - 1] \o ss[i]
        BY <2>2, <4>1
      <4>3. ASSUME NEW i \in 1 .. m PROVE g[i] = IF i = 1 THEN ss[i] ELSE g[i - 1] \o ss[i]
        <5>1. m \in Nat /\ m >= 2 /\ i \in Int /\ i >= 1 /\ i <= m BY <1>1
        <5>2. CASE i = m
          <6>1. m # 1 /\ m - 1 # m /\ m \in 1 .. m /\ m - 1 \in 1 .. m BY <5>1
          <6>2. g[m] = f[m - 1] \o ss[m] /\ g[m - 1] = f[m - 1] BY <6>1, Zenon
          <6> HIDE DEF g
          <6> QED BY <5>2, <6>1, <6>2, Zenon
        <5>3. CASE i # m
          <6>1. i \in 1 .. m - 1 /\ g[i] = f[i] /\ (i # 1 => g[i - 1] = f[i - 1])
            <7>1. /\ i \in 1 .. m - 1 /\ i \in 1 .. m /\ i # m
                  /\ i # 1 => i - 1 \in 1 .. m /\ i - 1 # m
              BY <5>1, <5>3
            <7> QED BY <7>1, Zenon
          <6> HIDE DEF g
          <6> QED BY <4>2, <6>1, Zenon
        <5> QED BY <5>2, <5>3
      <4>4. g = [i \in 1 .. m |-> g[i]] OBVIOUS
      <4> HIDE DEF g
      <4>5. g = Upto(g, m) BY <4>3, <4>4, Zenon DEF Upto
      <4> QED BY <1>1, <4>5
    <3> HIDE DEF T, Upto
    <3>3. 1 .. n \subseteq T BY <1>1, <3>1, <3>2, CountUp
    <3>4. n \in T BY <1>1, <1>3, <3>3, SMTT(60)
    <3> QED BY <3>4 DEF T
  <2> HIDE DEF Upto
  <2>4. flatten = Upto(flatten, n) BY <2>3, Zenon
  <2> HIDE DEF flatten
  <2>5. \A i \in 1 .. n : flatten[i] = IF i = 1 THEN ss[i] ELSE flatten[i - 1] \o ss[i]
    BY <2>2, <2>4
  <2>6. \A i \in 1 .. n : flatten[i] \in Seq(X)
    <3> DEFINE T == {m \in 1 .. n : flatten[m] \in Seq(X)}
    <3>1. 1 \in T BY <1>1, <1>3, <2>5
    <3>2. ASSUME NEW m \in (1 + 1) .. n, m - 1 \in T PROVE m \in T
      <4>1. m \in 1 .. n /\ m # 1 BY <1>1
      <4>2. flatten[m] = flatten[m - 1] \o ss[m] BY <2>5, <4>1
      <4> QED BY <1>1, <3>2, <4>1, <4>2, ConcatProperties, ZenonT(60)
    <3> HIDE DEF T
    <3>3. 1 .. n \subseteq T BY <1>1, <3>1, <3>2, CountUp
    <3> QED BY <3>3 DEF T
  <2> DEFINE f == [i \in 0 .. n |-> IF i = 0 THEN << >> ELSE flatten[i]]
  <2>7. f \in [0 .. n -> Seq(X)] BY <2>6, EmptySeq
  <2>8. \A i \in 1 .. n : f[i] = f[i - 1] \o ss[i]
    <3> SUFFICES ASSUME NEW i \in 1 .. n PROVE f[i] = f[i - 1] \o ss[i]
      OBVIOUS
    <3>1. CASE i = 1 BY <1>1, <2>5, <3>1, ConcatEmptySeq
    <3>2. CASE i # 1
      <4>1. f[i] = flatten[i] /\ f[i - 1] = flatten[i - 1] BY <1>1, <3>2
      <4> HIDE DEF f
      <4> QED BY <2>5, <3>2, <4>1
    <3> QED BY <3>1, <3>2
  <2>9. f[0] = << >> /\ f[n] = flatten[n] BY <1>1, <1>3
  <2> HIDE DEF f
  <2> QED BY <2>1, <2>7, <2>8, <2>9
<1> QED BY <1>2, <1>3

(* There are at most sixteen tags.                                         *)
LEMMA CountOfTags == N \in 0 .. 16 /\ DOMAIN CanonicalTags = 1 .. N
<1>1. Len(CanonicalTags) \in Nat /\ DOMAIN CanonicalTags = 1 .. Len(CanonicalTags)
      /\ Len(CanonicalTags) <= 16
  BY TagsAssumption, LenProperties DEF MaxSourceRecords
<1>2. N = Len(CanonicalTags) BY DEF N, MaxSourceRecords
<1> HIDE DEF N
<1>3. N \in Nat /\ N <= 16 BY <1>1, <1>2
<1>4. N \in 0 .. 16 BY <1>3
<1> QED BY <1>1, <1>2, <1>4

(* What the casts and the two bytes of a u16 do. *)
LEMMA WidthFacts ==
  /\ \A v \in Int : AsU8(v) \in Byte /\ AsU16(v) \in U16
  /\ \A v \in Byte : AsU8(v) = v
  /\ \A v \in U16 : AsU16(v) = v
<1>1. \A v \in Int : AsU8(v) \in Byte BY SMTT(60) DEF AsU8, Byte
<1>2. \A v \in Int : AsU16(v) \in U16 BY SMTT(60) DEF AsU16, U16
<1>3. \A v \in Byte : AsU8(v) = v BY DEF AsU8, Byte
<1>4. ASSUME NEW v \in U16 PROVE AsU16(v) = v
  <2>1. v \in Int /\ 0 <= v /\ v <= 65535 BY SMTT(60) DEF U16
  <2>2. v % 65536 = v BY <2>1
  <2> QED BY <2>2 DEF AsU16
<1> QED BY <1>1, <1>2, <1>3, <1>4

(* A u16 is its two bytes, and the two bytes are the u16.                  *)
LEMMA Be16Facts ==
  /\ \A v \in Int : Be16(v) \in Seq(Byte) /\ Len(Be16(v)) = 2
  /\ \A v \in U16 : Be16(v)[1] * 256 + Be16(v)[2] = v
  /\ \A x, y \in Byte : x * 256 + y \in U16 /\ Be16(x * 256 + y) = << x, y >>
<1>1. \A v \in Int : Be16(v) \in Seq(Byte) /\ Len(Be16(v)) = 2
  <2> SUFFICES ASSUME NEW v \in Int PROVE Be16(v) \in Seq(Byte) /\ Len(Be16(v)) = 2
    OBVIOUS
  <2>1. v \div 256 \in Int OBVIOUS
  <2>2. AsU8(v \div 256) \in Byte /\ AsU8(v) \in Byte BY <2>1, WidthFacts
  <2> QED BY <2>2 DEF Be16
<1>2. ASSUME NEW v \in U16 PROVE Be16(v)[1] * 256 + Be16(v)[2] = v
  <2>1. v \in Int /\ 0 <= v /\ v <= 65535 BY SMTT(60) DEF U16
  <2>2. v \div 256 \in Int /\ v \div 256 >= 0 BY <2>1
  <2>3. v \div 256 <= 255 BY <2>1
  <2>4. v \div 256 \in Byte BY <2>2, <2>3 DEF Byte
  <2>5. AsU8(v \div 256) = v \div 256 BY <2>4, WidthFacts
  <2>6. (v \div 256) * 256 + (v % 256) = v BY <2>1
  <2> QED BY <2>5, <2>6 DEF Be16, AsU8
<1>3. ASSUME NEW x \in Byte, NEW y \in Byte
      PROVE  x * 256 + y \in U16 /\ Be16(x * 256 + y) = << x, y >>
  <2>1. x \in 0 .. 255 /\ y \in 0 .. 255 BY DEF Byte
  <2>2. (x * 256 + y) \div 256 = x /\ (x * 256 + y) % 256 = y BY <2>1
  <2>3. AsU8(x) = x BY WidthFacts
  <2>4. x * 256 + y \in Int /\ 0 <= x * 256 + y /\ x * 256 + y <= 65535 BY <2>1
  <2>5. \A z \in Int : z \in U16 <=> 0 <= z /\ z <= 65535 BY SMTT(60) DEF U16
  <2>6. x * 256 + y \in U16 BY <2>4, <2>5
  <2> QED BY <2>2, <2>3, <2>6 DEF Be16, AsU8
<1> QED BY <1>1, <1>2, <1>3

(* The bitmap is a u16. *)
LEMMA BitmapType ==
  ASSUME NEW tags
  PROVE  Bitmap(tags) \in U16
<1> DEFINE step(x, i) == AsU16(x + IF CanonicalTags[i] \in tags THEN 2 ^ (i - 1) ELSE 0)
           Upto(f, m) == [i \in 0 .. m |-> IF i = 0 THEN 0 ELSE step(f[i - 1], i)]
           upTo == CHOOSE f : f = Upto(f, N)
<1>1. N \in Nat BY CountOfTags
<1>2. Bitmap(tags) = upTo[N] BY DEF Bitmap, N
<1>3. \A x \in U16 : \A i \in 1 .. N : step(x, i) \in U16
  <2> SUFFICES ASSUME NEW x \in U16, NEW i \in 1 .. N PROVE step(x, i) \in U16
    OBVIOUS
  <2>1. 2 ^ (i - 1) \in Int BY <1>1
  <2>2. x + (IF CanonicalTags[i] \in tags THEN 2 ^ (i - 1) ELSE 0) \in Int
    BY <2>1 DEF U16
  <2> QED BY <2>2, WidthFacts
<1>4. 0 \in U16 BY DEF U16
<1> HIDE DEF step
<1>5. \A f, m : f = Upto(f, m) =>
        \A i \in 0 .. m : f[i] = IF i = 0 THEN 0 ELSE step(f[i - 1], i)
  BY Zenon
<1> HIDE DEF Upto
<1>6. \E f : f = Upto(f, N)
  <2> DEFINE T == {m \in 0 .. N : \E f : f = Upto(f, m)}
  <2>1. 0 \in T
    <3> DEFINE f == [i \in 0 .. 0 |-> 0]
    <3>1. f = Upto(f, 0) BY DEF Upto
    <3> HIDE DEF f
    <3> QED BY <1>1, <3>1
  <2>2. ASSUME NEW m \in (0 + 1) .. N, m - 1 \in T PROVE m \in T
    <3>1. PICK f : f = Upto(f, m - 1) BY <2>2
    <3> DEFINE g == [i \in 0 .. m |-> IF i = m THEN step(f[m - 1], m) ELSE f[i]]
    <3>2. \A i \in 0 .. m - 1 : f[i] = IF i = 0 THEN 0 ELSE step(f[i - 1], i)
      BY <1>5, <3>1
    <3>3. \A i \in 0 .. m : g[i] = IF i = 0 THEN 0 ELSE step(g[i - 1], i)
      BY <1>1, <3>2
    <3>4. g = [i \in 0 .. m |-> g[i]] OBVIOUS
    <3> HIDE DEF g
    <3>5. g = Upto(g, m) BY <3>3, <3>4, Zenon DEF Upto
    <3> QED BY <1>1, <3>5
  <2> HIDE DEF T
  <2>3. 0 .. N \subseteq T BY <1>1, <2>1, <2>2, CountUp
  <2>4. N \in T BY <1>1, <2>3
  <2> QED BY <2>4 DEF T
<1>7. upTo = Upto(upTo, N) BY <1>6, Zenon
<1> HIDE DEF upTo
<1>8. \A i \in 0 .. N : upTo[i] = IF i = 0 THEN 0 ELSE step(upTo[i - 1], i)
  BY <1>5, <1>7
<1> DEFINE T == {m \in 0 .. N : upTo[m] \in U16}
<1>9. 0 \in T BY <1>1, <1>4, <1>8
<1>10. ASSUME NEW m \in (0 + 1) .. N, m - 1 \in T PROVE m \in T
  <2>1. m \in 1 .. N /\ upTo[m - 1] \in U16 BY <1>1, <1>10
  <2>2. upTo[m] = step(upTo[m - 1], m) BY <1>1, <1>8, <2>1
  <2> QED BY <1>1, <1>3, <2>1, <2>2
<1> HIDE DEF T
<1>11. 0 .. N \subseteq T BY <1>1, <1>9, <1>10, CountUp
<1>12. N \in T BY <1>1, <1>11
<1> QED BY <1>2, <1>12 DEF T

(* The rounds of the decoder: each is taken from where the one before      *)
(* stands, until there is an error.                                        *)
LEMMA RoundsTaken ==
  ASSUME NEW w, NEW count \in Nat
  PROVE  /\ Rounds(w, count)[0] = NothingDecoded
         /\ \A k \in 1 .. count :
              Rounds(w, count)[k] =
                IF Rounds(w, count)[k - 1].error # "none" THEN Rounds(w, count)[k - 1]
                ELSE DecodeRecord(w, Rounds(w, count)[k - 1])
<1> DEFINE step(d) == IF d.error # "none" THEN d ELSE DecodeRecord(w, d)
           Upto(f, m) == [k \in 0 .. m |-> IF k = 0 THEN NothingDecoded ELSE step(f[k - 1])]
           after == CHOOSE f : f = Upto(f, count)
<1>1. Rounds(w, count) = after
  <2>1. \A f, k : (IF k = 0 THEN NothingDecoded
                   ELSE IF f[k - 1].error # "none" THEN f[k - 1]
                   ELSE DecodeRecord(w, f[k - 1]))
                  = (IF k = 0 THEN NothingDecoded ELSE step(f[k - 1]))
    OBVIOUS
  <2> QED BY <2>1 DEF Rounds
<1> HIDE DEF step
<1>4. \A f, m : f = Upto(f, m) =>
        \A k \in 0 .. m : f[k] = IF k = 0 THEN NothingDecoded ELSE step(f[k - 1])
  BY Zenon
<1> HIDE DEF Upto
<1>5. \E f : f = Upto(f, count)
  <2> DEFINE T == {m \in 0 .. count : \E f : f = Upto(f, m)}
  <2>1. 0 \in T
    <3> DEFINE f == [k \in 0 .. 0 |-> NothingDecoded]
    <3>1. f = Upto(f, 0) BY DEF Upto
    <3> HIDE DEF f
    <3> QED BY <3>1
  <2>2. ASSUME NEW m \in (0 + 1) .. count, m - 1 \in T PROVE m \in T
    <3>1. PICK f : f = Upto(f, m - 1) BY <2>2
    <3> DEFINE g == [k \in 0 .. m |-> IF k = m THEN step(f[m - 1]) ELSE f[k]]
    <3>2. \A k \in 0 .. m - 1 : f[k] = IF k = 0 THEN NothingDecoded ELSE step(f[k - 1])
      BY <1>4, <3>1
    <3>3. \A k \in 0 .. m : g[k] = IF k = 0 THEN NothingDecoded ELSE step(g[k - 1])
      BY <3>2
    <3>4. g = [k \in 0 .. m |-> g[k]] OBVIOUS
    <3> HIDE DEF g
    <3>5. g = Upto(g, m) BY <3>3, <3>4, Zenon DEF Upto
    <3> QED BY <3>5
  <2> HIDE DEF T
  <2>3. 0 .. count \subseteq T BY <2>1, <2>2, CountUp
  <2>4. count \in T BY <2>3
  <2> QED BY <2>4 DEF T
<1>6. after = Upto(after, count) BY <1>5, Zenon
<1> HIDE DEF after
<1>7. \A k \in 0 .. count : after[k] = IF k = 0 THEN NothingDecoded ELSE step(after[k - 1])
  BY <1>4, <1>6
<1>8. after[0] = NothingDecoded BY <1>7
<1>9. \A k \in 1 .. count : after[k] = step(after[k - 1]) BY <1>7
<1> QED BY <1>1, <1>8, <1>9 DEF step

(* The builders of a list: each has been given one source more.            *)
LEMMA RebuiltGrows ==
  ASSUME NEW list, Len(list) \in Nat
  PROVE  /\ Rebuilt(list)[0] = Empty
         /\ \A k \in 1 .. Len(list) :
              Rebuilt(list)[k] = Added(Rebuilt(list)[k - 1], list[k])
<1> DEFINE n == Len(list)
           step(b, k) == Added(b, list[k])
           Upto(f, m) == [k \in 0 .. m |-> IF k = 0 THEN Empty ELSE step(f[k - 1], k)]
           upTo == CHOOSE f : f = Upto(f, n)
<1>1. Rebuilt(list) = upTo
  BY Zenon DEF Rebuilt
<1> HIDE DEF step
<1>4. \A f, m : f = Upto(f, m) =>
        \A k \in 0 .. m : f[k] = IF k = 0 THEN Empty ELSE step(f[k - 1], k)
  BY Zenon
<1> HIDE DEF Upto
<1>5. \E f : f = Upto(f, n)
  <2> DEFINE T == {m \in 0 .. n : \E f : f = Upto(f, m)}
  <2> HIDE DEF n
  <2>0. n \in Nat BY DEF n
  <2>1. 0 \in T
    <3> DEFINE f == [k \in 0 .. 0 |-> Empty]
    <3>1. f = Upto(f, 0) BY DEF Upto
    <3> HIDE DEF f
    <3> QED BY <2>0, <3>1
  <2>2. ASSUME NEW m \in (0 + 1) .. n, m - 1 \in T PROVE m \in T
    <3>1. PICK f : f = Upto(f, m - 1) BY <2>2
    <3> DEFINE g == [k \in 0 .. m |-> IF k = m THEN step(f[m - 1], m) ELSE f[k]]
    <3>2. \A k \in 0 .. m - 1 : f[k] = IF k = 0 THEN Empty ELSE step(f[k - 1], k)
      BY <1>4, <3>1
    <3>3. \A k \in 0 .. m : g[k] = IF k = 0 THEN Empty ELSE step(g[k - 1], k)
      BY <2>0, <3>2
    <3>4. g = [k \in 0 .. m |-> g[k]] OBVIOUS
    <3> HIDE DEF g
    <3>5. g = Upto(g, m) BY <3>3, <3>4, Zenon DEF Upto
    <3> QED BY <2>0, <3>5
  <2> HIDE DEF T
  <2>3. 0 .. n \subseteq T BY <2>0, <2>1, <2>2, CountUp
  <2>4. n \in T BY <2>0, <2>3
  <2> QED BY <2>4 DEF T
<1>6. upTo = Upto(upTo, n) BY <1>5, Zenon
<1> HIDE DEF upTo
<1>7. \A k \in 0 .. n : upTo[k] = IF k = 0 THEN Empty ELSE step(upTo[k - 1], k)
  BY <1>4, <1>6
<1>8. upTo[0] = Empty BY <1>7
<1>9. \A k \in 1 .. n : upTo[k] = step(upTo[k - 1], k) BY <1>7
<1> QED BY <1>1, <1>8, <1>9 DEF step

---------------------------------------------------------------------------
(* The tags and the room they need. *)

MachineTags == Tags \ (Physical \cup Tpm)

(* The types of the constants.                                             *)
LEMMA ConstantFacts ==
  /\ Domain \in Seq(Byte) /\ Len(Domain) \in Nat
  /\ {MaxAlgoId, MaxMachineBytes, MaxTpmBytes, MaxPhysicalEvents, TranscriptCapacity} \subseteq Nat
  /\ MaxAlgoId \in Byte
  /\ \A t \in Tags : MaxLenFor(t) \in Nat /\ MaxLenFor(t) \in U16
<1>1. Domain \in Seq(Byte) /\ MaxAlgoId \in Byte /\ TranscriptCapacity \in Nat
  BY WidthAssumption
<1>2. MaxAlgoId \in Nat BY <1>1 DEF Byte
<1>3. MaxMachineBytes \in U16 /\ MaxTpmBytes \in U16 /\ MaxPhysicalEvents \in U16
  BY WidthAssumption, SMTT(60)
<1>4. \A v \in U16 : v \in Nat BY SMTT(60) DEF U16
<1>5. Len(Domain) \in Nat BY <1>1, LenProperties
<1>6. \A t \in Tags : MaxLenFor(t) \in Nat /\ MaxLenFor(t) \in U16
  BY <1>3, <1>4 DEF MaxLenFor
<1> QED BY <1>1, <1>2, <1>3, <1>4, <1>5, <1>6

(* The tags are the bytes of the canonical order.                          *)
LEMMA TagFacts ==
  /\ Tags \subseteq Byte /\ IsFiniteSet(Tags) /\ Cardinality(Tags) <= N
  /\ Tags = {CanonicalTags[i] : i \in 1 .. N}
<1>1. Tags = {CanonicalTags[i] : i \in 1 .. N}
  BY CountOfTags DEF Tags, Range
<1>2. \A i \in 1 .. N : CanonicalTags[i] \in Byte
  BY TagsAssumption, ElementOfSeq, CountOfTags DEF N, MaxSourceRecords
<1>3. IsFiniteSet(1 .. N) /\ Cardinality(1 .. N) = N
  <2>1. 1 \in Int /\ N \in Int /\ N >= 0 BY CountOfTags
  <2>2. /\ IsFiniteSet(1 .. N)
        /\ Cardinality(1 .. N) = IF 1 > N THEN 0 ELSE N - 1 + 1
    BY <2>1, FS_Interval, Zenon
  <2> QED BY <2>1, <2>2
<1> DEFINE f == [i \in 1 .. N |-> CanonicalTags[i]]
<1>4. f \in Surjection(1 .. N, Tags)
  BY <1>1 DEF Surjection
<1>5. IsFiniteSet(Tags) /\ Cardinality(Tags) <= N
  BY <1>3, <1>4, FS_Surjection
<1> QED BY <1>1, <1>2, <1>5

(* The largest payloads of the tags of T, without the dice and the coins.  *)
Room(T) ==
  Cardinality(T) * MaxAlgoId + Cardinality(T \cap MachineTags) * MaxMachineBytes
    + Cardinality(T \cap Tpm) * MaxTpmBytes

(* Products in order.                                                      *)
LEMMA Times ==
  ASSUME NEW c \in Nat, NEW d \in Nat, NEW m \in Nat
  PROVE  /\ c * m \in Nat /\ (c + 1) * m = c * m + m
         /\ c <= d => c * m <= d * m
<1>1. c * m \in Nat /\ (c + 1) * m = c * m + m OBVIOUS
<1>2. c <= d => c * m <= d * m OBVIOUS
<1> QED BY <1>1, <1>2

(* One more tag needs the room of its largest payload, and no more.        *)
LEMMA RoomFacts ==
  ASSUME NEW T \in SUBSET Tags
  PROVE  /\ IsFiniteSet(T) /\ Cardinality(T) \in Nat /\ Cardinality(T) <= N
         /\ Room(T) \in Nat /\ Room(T) <= Room(Tags)
         /\ \A t \in Tags \ T :
              /\ Cardinality(T \cup {t}) = Cardinality(T) + 1
              /\ Room(T \cup {t}) =
                   Room(T) + MaxAlgoId + (IF t \in Physical THEN 0 ELSE MaxLenFor(t))
<1> DEFINE A(U) == Cardinality(U)
           B(U) == Cardinality(U \cap MachineTags)
           C(U) == Cardinality(U \cap Tpm)
<1>1. \A U \in SUBSET Tags : /\ IsFiniteSet(U) /\ IsFiniteSet(U \cap MachineTags)
                             /\ IsFiniteSet(U \cap Tpm)
                             /\ A(U) \in Nat /\ B(U) \in Nat /\ C(U) \in Nat
  <2> SUFFICES ASSUME NEW U \in SUBSET Tags
               PROVE  /\ IsFiniteSet(U) /\ IsFiniteSet(U \cap MachineTags)
                      /\ IsFiniteSet(U \cap Tpm)
                      /\ A(U) \in Nat /\ B(U) \in Nat /\ C(U) \in Nat
    OBVIOUS
  <2>1. IsFiniteSet(U) BY TagFacts, FS_Subset
  <2>2. IsFiniteSet(U \cap MachineTags) /\ IsFiniteSet(U \cap Tpm)
    BY <2>1, FS_Intersection
  <2> QED BY <2>1, <2>2, FS_CardinalityType
<1>2. A(T) <= A(Tags)
  BY <1>1, FS_Subset
<1>3. B(T) <= B(Tags)
  <2>1. T \cap MachineTags \in SUBSET (Tags \cap MachineTags) OBVIOUS
  <2> QED BY <1>1, <2>1, FS_Subset
<1>4. C(T) <= C(Tags)
  <2>1. T \cap Tpm \in SUBSET (Tags \cap Tpm) OBVIOUS
  <2> QED BY <1>1, <2>1, FS_Subset
<1>5. MaxAlgoId \in Nat /\ MaxMachineBytes \in Nat /\ MaxTpmBytes \in Nat
  BY ConstantFacts
<1>6. N \in Nat BY CountOfTags
<1>7. Room(T) \in Nat /\ Room(T) <= Room(Tags)
  <2>1. A(T) * MaxAlgoId \in Nat /\ A(T) * MaxAlgoId <= A(Tags) * MaxAlgoId
        /\ A(Tags) * MaxAlgoId \in Nat
    BY <1>1, <1>2, <1>5, Times
  <2>2. B(T) * MaxMachineBytes \in Nat /\ B(T) * MaxMachineBytes <= B(Tags) * MaxMachineBytes
        /\ B(Tags) * MaxMachineBytes \in Nat
    BY <1>1, <1>3, <1>5, Times
  <2>3. C(T) * MaxTpmBytes \in Nat /\ C(T) * MaxTpmBytes <= C(Tags) * MaxTpmBytes
        /\ C(Tags) * MaxTpmBytes \in Nat
    BY <1>1, <1>4, <1>5, Times
  <2> QED BY <2>1, <2>2, <2>3 DEF Room
<1>8. ASSUME NEW t \in Tags \ T
      PROVE  /\ Cardinality(T \cup {t}) = Cardinality(T) + 1
             /\ Room(T \cup {t}) =
                  Room(T) + MaxAlgoId + (IF t \in Physical THEN 0 ELSE MaxLenFor(t))
  <2> DEFINE U == T \cup {t}
  <2>1. A(U) = A(T) + 1 BY <1>1, FS_AddElement
  <2>2. t \in Byte /\ ~(t \in Physical /\ t \in Tpm)
    BY TagFacts DEF Physical, Tpm, Dice, Coins
  <2>3. A(U) * MaxAlgoId = A(T) * MaxAlgoId + MaxAlgoId
    BY <1>1, <1>5, <2>1, Times
  <2>4. /\ A(T) * MaxAlgoId \in Nat /\ B(T) * MaxMachineBytes \in Nat
        /\ C(T) * MaxTpmBytes \in Nat
    BY <1>1, <1>5, Times
  <2>0. Room(T) = A(T) * MaxAlgoId + B(T) * MaxMachineBytes + C(T) * MaxTpmBytes
    BY DEF Room
  <2> SUFFICES Room(U) = Room(T) + MaxAlgoId + (IF t \in Physical THEN 0 ELSE MaxLenFor(t))
    BY <2>1
  <2>5. CASE t \in Physical
    <3>1. U \cap MachineTags = T \cap MachineTags /\ U \cap Tpm = T \cap Tpm
      BY <2>2, <2>5 DEF MachineTags
    <3>2. Room(U) = A(U) * MaxAlgoId + B(T) * MaxMachineBytes + C(T) * MaxTpmBytes
      BY <3>1 DEF Room
    <3> HIDE DEF A, B, C, U
    <3> QED BY <1>5, <2>0, <2>3, <2>4, <2>5, <3>2
  <2>6. CASE t \in Tpm
    <3>1. U \cap MachineTags = T \cap MachineTags /\ U \cap Tpm = (T \cap Tpm) \cup {t}
      BY <2>6 DEF MachineTags
    <3>2. C(U) = C(T) + 1 BY <1>1, <3>1, FS_AddElement
    <3>3. C(U) * MaxTpmBytes = C(T) * MaxTpmBytes + MaxTpmBytes
      BY <1>1, <1>5, <3>2, Times
    <3>4. MaxLenFor(t) = MaxTpmBytes /\ t \notin Physical
      BY <2>2, <2>6 DEF MaxLenFor
    <3>5. Room(U) = A(U) * MaxAlgoId + B(T) * MaxMachineBytes + C(U) * MaxTpmBytes
      BY <3>1 DEF Room
    <3> HIDE DEF A, B, C, U
    <3> QED BY <1>5, <2>0, <2>3, <2>4, <3>3, <3>4, <3>5
  <2>7. CASE t \notin Physical /\ t \notin Tpm
    <3>1. U \cap MachineTags = (T \cap MachineTags) \cup {t} /\ U \cap Tpm = T \cap Tpm
      BY <2>7 DEF MachineTags
    <3>2. B(U) = B(T) + 1 BY <1>1, <3>1, FS_AddElement
    <3>3. B(U) * MaxMachineBytes = B(T) * MaxMachineBytes + MaxMachineBytes
      BY <1>1, <1>5, <3>2, Times
    <3>4. MaxLenFor(t) = MaxMachineBytes
      BY <2>7 DEF MaxLenFor
    <3>5. Room(U) = A(U) * MaxAlgoId + B(U) * MaxMachineBytes + C(T) * MaxTpmBytes
      BY <3>1 DEF Room
    <3> HIDE DEF A, B, C, U
    <3> QED BY <1>5, <2>0, <2>3, <2>4, <2>7, <3>3, <3>4, <3>5
  <2> HIDE DEF A, B, C, U
  <2> QED BY <2>5, <2>6, <2>7
<1>9. Cardinality(T) <= N
  <2>1. A(Tags) \in Nat /\ A(T) \in Nat BY <1>1
  <2>2. A(Tags) <= N BY TagFacts
  <2> HIDE DEF A
  <2>3. A(T) <= N BY <1>2, <1>6, <2>1, <2>2
  <2> QED BY <2>3 DEF A
<1> QED BY <1>1, <1>7, <1>8, <1>9

(* The payloads of all tags fit the scratch, and with the fixed parts of   *)
(* all records the transcript.                                             *)
LEMMA RoomForAll ==
  /\ ScratchBudget \in Int /\ Room(Tags) + MaxPhysicalEvents <= ScratchBudget
  /\ Len(Domain) + HeaderLen + N * RecordOverhead + Room(Tags) + MaxPhysicalEvents
       <= TranscriptCapacity
<1> DEFINE a == Cardinality(Tags)
           b == Cardinality(Tags \cap MachineTags) * MaxMachineBytes
           c == Cardinality(Tags \cap Tpm) * MaxTpmBytes
<1>1. Tags \cap MachineTags = Tags \ (Physical \cup Tpm) BY DEF MachineTags
<1>2. Len(Domain) + HeaderLen + N * (RecordOverhead + MaxAlgoId) + b + c + MaxPhysicalEvents
        <= TranscriptCapacity
  BY <1>1, CapacityAssumption DEF N
<1>3. N \in Nat /\ MaxAlgoId \in Nat /\ MaxMachineBytes \in Nat /\ MaxTpmBytes \in Nat
      /\ MaxPhysicalEvents \in Nat /\ TranscriptCapacity \in Nat /\ Len(Domain) \in Nat
  BY ConstantFacts, CountOfTags
<1>4. a \in Nat /\ a <= N BY TagFacts, RoomFacts
<1>5. a * MaxAlgoId <= N * MaxAlgoId /\ a * MaxAlgoId \in Nat /\ N * MaxAlgoId \in Nat
  BY <1>3, <1>4, Times
<1>6. N * (RecordOverhead + MaxAlgoId) = N * RecordOverhead + N * MaxAlgoId
      /\ N * RecordOverhead \in Nat
  BY <1>3 DEF RecordOverhead
<1>7. b \in Nat /\ c \in Nat
  <2>1. IsFiniteSet(Tags \cap MachineTags) /\ IsFiniteSet(Tags \cap Tpm)
    BY TagFacts, FS_Intersection
  <2>2. Cardinality(Tags \cap MachineTags) \in Nat /\ Cardinality(Tags \cap Tpm) \in Nat
    BY <2>1, FS_CardinalityType
  <2> QED BY <1>3, <2>2, Times
<1>8. Room(Tags) = a * MaxAlgoId + b + c BY DEF Room
<1>9. ScratchBudget = TranscriptCapacity - (Len(Domain) + HeaderLen + N * RecordOverhead)
  BY DEF ScratchBudget, N
<1> HIDE DEF a, b, c, N
<1> DEFINE l == Len(Domain)
           x == a * MaxAlgoId
           y == N * MaxAlgoId
           z == N * RecordOverhead
           p == MaxPhysicalEvents
           k == TranscriptCapacity
           r == Room(Tags)
<1>10. /\ l + HeaderLen + (z + y) + b + c + p <= k
       /\ ScratchBudget = k - (l + HeaderLen + z) /\ r = x + b + c
       /\ x <= y /\ HeaderLen = 9
       /\ l \in Nat /\ x \in Nat /\ y \in Nat /\ z \in Nat /\ b \in Nat /\ c \in Nat
       /\ p \in Nat /\ k \in Nat
  BY <1>2, <1>3, <1>5, <1>6, <1>7, <1>8, <1>9 DEF HeaderLen
<1> SUFFICES /\ ScratchBudget \in Int /\ r + p <= ScratchBudget
             /\ l + HeaderLen + z + r + p <= k
  OBVIOUS
<1> HIDE DEF l, x, y, z, p, k, r
<1> QED BY <1>10

---------------------------------------------------------------------------
(* Sets of sources. *)

TagsOf(S) == {s.tag : s \in S}
Of(S, t)  == CHOOSE s \in S : s.tag = t

(* One source of each tag at the most. *)
OneEach(S) == S \subseteq SourceRecord /\ \A s, u \in S : s.tag = u.tag => s = u

(* What is asked of a source by itself, and of the history of dice and     *)
(* coins.                                                                  *)
Valid(s) ==
  /\ Len(s.algo) <= MaxAlgoId /\ Len(s.bytes) <= MaxLenFor(s.tag)
  /\ ContentError(s.tag, s.bytes) = "none"

LenIn(S, t) == IF t \in TagsOf(S) THEN Len(Of(S, t).bytes) ELSE 0
History(S) == LenIn(S, Dice) + LenIn(S, Coins)

Consistent(S) == OneEach(S) /\ (\A s \in S : Valid(s)) /\ History(S) <= MaxPhysicalEvents

(* The fields of a source.                                                 *)
LEMMA SourceFacts ==
  ASSUME NEW s \in SourceRecord
  PROVE  /\ s.tag \in Tags /\ s.tag \in Byte /\ s.tag \in Int /\ s.tag >= 0
         /\ s.algo \in Seq(Byte) /\ Len(s.algo) \in Nat
         /\ s.bytes \in Seq(Byte) /\ Len(s.bytes) \in Nat
         /\ s = [tag |-> s.tag, algo |-> s.algo, bytes |-> s.bytes]
<1>1. s.tag \in Tags /\ s.algo \in Seq(Byte) /\ s.bytes \in Seq(Byte)
      /\ s = [tag |-> s.tag, algo |-> s.algo, bytes |-> s.bytes]
  BY DEF SourceRecord
<1>2. s.tag \in Byte BY <1>1, TagFacts
<1>3. s.tag \in Int /\ s.tag >= 0 BY <1>2 DEF Byte
<1>4. Len(s.algo) \in Nat /\ Len(s.bytes) \in Nat BY <1>1, LenProperties
<1> QED BY <1>1, <1>2, <1>3, <1>4

(* Of finds the source of a tag.                                           *)
LEMMA OfFacts ==
  ASSUME NEW S, OneEach(S)
  PROVE  /\ \A s \in S : s.tag \in TagsOf(S) /\ Of(S, s.tag) = s
         /\ \A t \in TagsOf(S) : Of(S, t) \in S /\ Of(S, t).tag = t
         /\ TagsOf(S) \in SUBSET Tags
<1>1. \A t \in TagsOf(S) : Of(S, t) \in S /\ Of(S, t).tag = t
  BY DEF TagsOf, Of
<1>2. \A s \in S : s.tag \in TagsOf(S)
  BY DEF TagsOf
<1>3. \A s \in S : Of(S, s.tag) = s
  BY <1>1, <1>2 DEF OneEach
<1>4. TagsOf(S) \in SUBSET Tags
  BY SourceFacts DEF OneEach, TagsOf
<1> QED BY <1>1, <1>2, <1>3, <1>4

(* A set of sources and a part of it. *)
LEMMA PartOf ==
  ASSUME NEW S, OneEach(S), NEW P \in SUBSET S
  PROVE  /\ OneEach(P) /\ TagsOf(P) \subseteq TagsOf(S)
         /\ \A t \in TagsOf(P) : Of(P, t) = Of(S, t)
         /\ \A t : LenIn(S, t) \in Nat /\ LenIn(P, t) \in Nat /\ LenIn(P, t) <= LenIn(S, t)
         /\ History(P) \in Nat /\ History(S) \in Nat
         /\ Consistent(S) => Consistent(P)
<1>1. OneEach(P) BY DEF OneEach
<1>2. TagsOf(P) \subseteq TagsOf(S) BY DEF TagsOf
<1>3. \A t \in TagsOf(P) : Of(P, t) = Of(S, t)
  <2> SUFFICES ASSUME NEW t \in TagsOf(P) PROVE Of(P, t) = Of(S, t)
    OBVIOUS
  <2>1. Of(P, t) \in P /\ Of(P, t).tag = t BY <1>1, OfFacts
  <2> QED BY <2>1, OfFacts
<1>4. ASSUME NEW t
      PROVE  LenIn(S, t) \in Nat /\ LenIn(P, t) \in Nat /\ LenIn(P, t) <= LenIn(S, t)
  <2>1. t \in TagsOf(S) => Len(Of(S, t).bytes) \in Nat
    BY OfFacts, SourceFacts DEF OneEach
  <2> QED BY <1>2, <1>3, <2>1 DEF LenIn
<1>5. History(P) \in Nat /\ History(S) \in Nat /\ History(P) <= History(S)
  BY <1>4 DEF History
<1>6. Consistent(S) => Consistent(P)
  BY <1>1, <1>5, ConstantFacts DEF Consistent
<1> QED BY <1>1, <1>2, <1>3, <1>4, <1>5, <1>6

(* One source more. *)
LEMMA OneMore ==
  ASSUME NEW S, OneEach(S), NEW s \in SourceRecord, s.tag \notin TagsOf(S)
  PROVE  /\ OneEach(S \cup {s}) /\ TagsOf(S \cup {s}) = TagsOf(S) \cup {s.tag}
         /\ Of(S \cup {s}, s.tag) = s
         /\ \A t \in TagsOf(S) : Of(S \cup {s}, t) = Of(S, t)
         /\ History(S \cup {s}) =
              History(S) + (IF s.tag \in Physical THEN Len(s.bytes) ELSE 0)
<1> DEFINE M == S \cup {s}
<1>1. OneEach(M) BY DEF OneEach, TagsOf
<1>2. TagsOf(M) = TagsOf(S) \cup {s.tag} BY DEF TagsOf
<1>3. Of(M, s.tag) = s
  <2>1. s \in M OBVIOUS
  <2> HIDE DEF M
  <2> QED BY <1>1, <2>1, OfFacts
<1>4. \A t \in TagsOf(S) : Of(M, t) = Of(S, t)
  <2>1. S \in SUBSET M OBVIOUS
  <2> HIDE DEF M
  <2> QED BY <1>1, <2>1, PartOf
<1>5. \A t : LenIn(M, t) = IF t = s.tag THEN Len(s.bytes) ELSE LenIn(S, t)
  <2> HIDE DEF M
  <2> QED BY <1>2, <1>3, <1>4 DEF LenIn
<1>6. Len(s.bytes) \in Nat BY SourceFacts
<1>7. S \in SUBSET S /\ LenIn(S, Dice) \in Nat /\ LenIn(S, Coins) \in Nat
  BY PartOf
<1>8. LenIn(S, s.tag) = 0 BY DEF LenIn
<1> HIDE DEF M
<1>9. History(M) = History(S) + (IF s.tag \in Physical THEN Len(s.bytes) ELSE 0)
  <2>1. CASE s.tag = Dice
    <3>1. s.tag # Coins /\ s.tag \in Physical BY <2>1 DEF Dice, Coins, Physical
    <3> QED BY <1>5, <1>6, <1>7, <1>8, <2>1, <3>1 DEF History
  <2>2. CASE s.tag = Coins
    <3>1. s.tag # Dice /\ s.tag \in Physical BY <2>2 DEF Dice, Coins, Physical
    <3> QED BY <1>5, <1>6, <1>7, <1>8, <2>2, <3>1 DEF History
  <2>3. CASE s.tag # Dice /\ s.tag # Coins
    <3>1. s.tag \notin Physical BY <2>3 DEF Physical
    <3> QED BY <1>5, <1>7, <2>3, <3>1 DEF History
  <2> QED BY <2>1, <2>2, <2>3
<1> QED BY <1>1, <1>2, <1>3, <1>4, <1>9 DEF M

(* Nothing is consistent.                                                  *)
LEMMA NoSource ==
  /\ Consistent({}) /\ TagsOf({}) = {} /\ History({}) = 0
<1>1. OneEach({}) BY DEF OneEach
<1>2. TagsOf({}) = {} BY DEF TagsOf
<1>3. \A t : LenIn({}, t) = 0 BY <1>2 DEF LenIn
<1>4. History({}) = 0 BY <1>3 DEF History
<1> QED BY <1>1, <1>2, <1>4, ConstantFacts DEF Consistent

---------------------------------------------------------------------------
(* What a builder holds. *)

StagedRecord == [tag : Tags, algo_off : Nat, algo_len : Nat, data_off : Nat, data_len : Nat]

(* r says where in scratch the payloads of s are. *)
Place(scratch, r, s) ==
  /\ r.tag = s.tag /\ r.algo_len = Len(s.algo) /\ r.data_len = Len(s.bytes)
  /\ r.algo_off + r.algo_len <= Len(scratch) /\ r.data_off + r.data_len <= Len(scratch)
  /\ SubSeq(scratch, r.algo_off + 1, r.algo_off + r.algo_len) = s.algo
  /\ SubSeq(scratch, r.data_off + 1, r.data_off + r.data_len) = s.bytes

Holds(b, S) ==
  /\ b.scratch \in Seq(Byte) /\ Len(b.scratch) <= Room(TagsOf(S)) + History(S)
  /\ b.records \in Seq(StagedRecord) /\ Len(b.records) = Cardinality(TagsOf(S))
  /\ \A i \in 1 .. Len(b.records) : \E s \in S : Place(b.scratch, b.records[i], s)
  /\ \A s \in S : \E i \in 1 .. Len(b.records) : b.records[i].tag = s.tag

(* The empty builder holds nothing.                                        *)
LEMMA EmptyHolds == Holds(Empty, {})
<1>1. Empty.scratch = << >> /\ Empty.records = << >> BY DEF Empty
<1>2. Empty.scratch \in Seq(Byte) /\ Len(Empty.scratch) = 0
      /\ Empty.records \in Seq(StagedRecord) /\ Len(Empty.records) = 0
  BY <1>1, EmptySeq
<1>3. Room({}) \in Nat BY RoomFacts
<1>4. Cardinality({}) = 0 BY FS_EmptySet
<1>5. 1 .. Len(Empty.records) = {} BY <1>2
<1>6. Len(Empty.scratch) <= Room(TagsOf({})) + History({})
  <2>1. Room(TagsOf({})) \in Nat /\ History({}) = 0 BY <1>3, NoSource, Zenon
  <2>2. Len(Empty.scratch) = 0 BY <1>2
  <2> QED BY <2>1, <2>2
<1>7. Len(Empty.records) = Cardinality(TagsOf({})) BY <1>2, <1>4, NoSource
<1> QED BY <1>2, <1>5, <1>6, <1>7, Zenon DEF Holds

(* Its records are those of the sources, and the payloads it cuts out for  *)
(* them theirs.                                                            *)
LEMMA HeldFacts ==
  ASSUME NEW S, OneEach(S), NEW b, Holds(b, S)
  PROVE  /\ Staged(b) = TagsOf(S)
         /\ \A s \in S : Find(b, s.tag).data_len = Len(s.bytes) /\ StagedSource(b, s.tag) = s
<1>1. DOMAIN b.records = 1 .. Len(b.records) BY LenProperties DEF Holds
<1>2. \A i \in DOMAIN b.records : \E s \in S : Place(b.scratch, b.records[i], s)
  BY <1>1 DEF Holds
<1>3. \A s \in S : \E i \in DOMAIN b.records : b.records[i].tag = s.tag
  BY <1>1 DEF Holds
<1>4. Staged(b) = TagsOf(S)
  BY <1>2, <1>3 DEF Staged, TagsOf, Place
<1>5. ASSUME NEW s \in S
      PROVE  Find(b, s.tag).data_len = Len(s.bytes) /\ StagedSource(b, s.tag) = s
  <2> DEFINE r == Find(b, s.tag)
  <2>1. PICK i \in DOMAIN b.records : b.records[i].tag = s.tag /\ r = b.records[i]
    BY <1>3 DEF Find
  <2>2. PICK u \in S : Place(b.scratch, r, u) BY <1>2, <2>1
  <2>3. u = s BY <2>1, <2>2 DEF Place, OneEach
  <2>4. Place(b.scratch, r, s) BY <2>2, <2>3
  <2>5. s \in SourceRecord BY DEF OneEach
  <2>6. s = [tag |-> s.tag, algo |-> s.algo, bytes |-> s.bytes] BY <2>5, SourceFacts
  <2>7. StagedSource(b, s.tag) = [tag |-> s.tag,
          algo |-> SubSeq(b.scratch, r.algo_off + 1, r.algo_off + r.algo_len),
          bytes |-> SubSeq(b.scratch, r.data_off + 1, r.data_off + r.data_len)]
    BY DEF StagedSource
  <2> HIDE DEF r
  <2>8. r.data_len = Len(s.bytes) BY <2>4 DEF Place
  <2>9. StagedSource(b, s.tag) = s BY <2>4, <2>6, <2>7 DEF Place
  <2> QED BY <2>8, <2>9 DEF r
<1> QED BY <1>4, <1>5

(* The sibling has taken all of the history.                               *)
LEMMA SiblingFacts ==
  ASSUME NEW S, OneEach(S), NEW b, Holds(b, S), NEW tag \in Physical, tag \notin TagsOf(S)
  PROVE  SiblingLen(b, tag) = History(S)
<1>1. Staged(b) = TagsOf(S) BY HeldFacts
<1>2. \A t \in TagsOf(S) : Find(b, t).data_len = LenIn(S, t)
  BY OfFacts, HeldFacts DEF LenIn
<1>3. \A t : LenIn(S, t) \in Nat
  <2>1. S \in SUBSET S OBVIOUS
  <2> QED BY <2>1, PartOf
<1>4. LenIn(S, tag) = 0 BY DEF LenIn
<1>5. ASSUME NEW other \in Physical, other # tag PROVE SiblingLen(b, tag) = LenIn(S, other)
  <2>1. Physical \ {tag} = {other} BY <1>5 DEF Physical
  <2>2. (CHOOSE o \in Physical : o # tag) = other BY <2>1
  <2>3. CASE other \in TagsOf(S)
    <3>1. Staged(b) \cap (Physical \ {tag}) # {} BY <1>1, <2>1, <2>3
    <3> QED BY <1>2, <2>2, <2>3, <3>1 DEF SiblingLen
  <2>4. CASE other \notin TagsOf(S)
    <3>1. Staged(b) \cap (Physical \ {tag}) = {} BY <1>1, <2>1, <2>4
    <3>2. LenIn(S, other) = 0 BY <2>4 DEF LenIn
    <3> QED BY <3>1, <3>2 DEF SiblingLen
  <2> QED BY <2>3, <2>4
<1>6. Dice \in Physical /\ Coins \in Physical /\ Dice # Coins
  BY DEF Dice, Coins, Physical
<1>7. CASE tag = Dice
  <2>1. SiblingLen(b, tag) = LenIn(S, Coins) BY <1>5, <1>6, <1>7
  <2> QED BY <1>3, <1>4, <1>7, <2>1 DEF History
<1>8. CASE tag = Coins
  <2>1. SiblingLen(b, tag) = LenIn(S, Dice) BY <1>5, <1>6, <1>8
  <2> QED BY <1>3, <1>4, <1>8, <2>1 DEF History
<1> QED BY <1>7, <1>8 DEF Physical

(* A source that is valid, has a tag of its own and room in the history    *)
(* makes a consistent set, and no other does.                              *)
LEMMA OneMoreConsistent ==
  ASSUME NEW S, Consistent(S), NEW s \in SourceRecord, s.tag \notin TagsOf(S)
  PROVE  Consistent(S \cup {s}) <=>
           /\ Valid(s)
           /\ s.tag \in Physical => Len(s.bytes) + History(S) <= MaxPhysicalEvents
<1>1. OneEach(S) BY DEF Consistent
<1>2. OneEach(S \cup {s}) /\ History(S \cup {s}) =
              History(S) + (IF s.tag \in Physical THEN Len(s.bytes) ELSE 0)
  BY <1>1, OneMore
<1>3. History(S) \in Nat /\ Len(s.bytes) \in Nat /\ MaxPhysicalEvents \in Nat
  <2>1. S \in SUBSET S OBVIOUS
  <2> QED BY <1>1, <2>1, PartOf, SourceFacts, ConstantFacts
<1>4. (\A u \in S \cup {s} : Valid(u)) <=> Valid(s) BY DEF Consistent
<1>5. History(S \cup {s}) <= MaxPhysicalEvents <=>
        (s.tag \in Physical => Len(s.bytes) + History(S) <= MaxPhysicalEvents)
  BY <1>2, <1>3 DEF Consistent
<1> QED BY <1>2, <1>4, <1>5 DEF Consistent

(* Its payloads fit. *)
LEMMA OneMoreFits ==
  ASSUME NEW S, Consistent(S), NEW b, Holds(b, S),
         NEW s \in SourceRecord, s.tag \notin TagsOf(S), Consistent(S \cup {s})
  PROVE  /\ Len(b.scratch) + Len(s.algo) + Len(s.bytes)
              <= Room(TagsOf(S \cup {s})) + History(S \cup {s})
         /\ Len(b.scratch) + Len(s.algo) + Len(s.bytes) <= ScratchBudget
         /\ Len(b.records) + 1 = Cardinality(TagsOf(S \cup {s})) /\ Len(b.records) + 1 <= N
<1> DEFINE M == S \cup {s}
           used == Len(b.scratch)
           algo == Len(s.algo)
           bytes == Len(s.bytes)
           count == Len(b.records)
           room == Room(TagsOf(S))
           roomM == Room(TagsOf(M))
           roomAll == Room(Tags)
           history == History(S)
           historyM == History(M)
           tags == Cardinality(TagsOf(S))
           tagsM == Cardinality(TagsOf(M))
           extra == IF s.tag \in Physical THEN Len(s.bytes) ELSE 0
           most == IF s.tag \in Physical THEN 0 ELSE MaxLenFor(s.tag)
<1>1. OneEach(S) /\ Valid(s) BY OneMoreConsistent DEF Consistent
<1>2. TagsOf(M) = TagsOf(S) \cup {s.tag} /\ History(M) = History(S) + extra
  BY <1>1, OneMore
<1>3. TagsOf(S) \in SUBSET Tags /\ TagsOf(M) \in SUBSET Tags
  <2>1. s.tag \in Tags BY SourceFacts
  <2>2. TagsOf(S) \in SUBSET Tags BY <1>1, OfFacts
  <2> HIDE DEF M
  <2> QED BY <1>2, <2>1, <2>2
<1>4. s.tag \in Tags \ TagsOf(S) BY SourceFacts
<1>5. tagsM = tags + 1 /\ roomM = room + MaxAlgoId + most
  BY <1>2, <1>3, <1>4, RoomFacts
<1>6. /\ roomM \in Nat /\ roomM <= roomAll /\ tagsM \in Nat /\ tagsM <= N
      /\ room \in Nat /\ roomAll \in Nat /\ tags \in Nat
  BY <1>3, RoomFacts
<1>7. used \in Nat /\ algo \in Nat /\ bytes \in Nat
  BY LenProperties, SourceFacts DEF Holds
<1>8. MaxAlgoId \in Nat /\ MaxPhysicalEvents \in Nat /\ MaxLenFor(s.tag) \in Nat
  BY ConstantFacts, <1>4
<1>9. history \in Nat
  <2>1. S \in SUBSET S OBVIOUS
  <2> QED BY <1>1, <2>1, PartOf
<1>10. used <= room + history /\ count = tags
  BY DEF Holds
<1>11. algo <= MaxAlgoId /\ bytes <= extra + most /\ extra \in Nat /\ most \in Nat
  <2>1. algo <= MaxAlgoId /\ bytes <= MaxLenFor(s.tag) BY <1>1 DEF Valid
  <2>2. s.tag \in Physical => extra = bytes /\ most = 0 OBVIOUS
  <2>3. s.tag \notin Physical => extra = 0 /\ most = MaxLenFor(s.tag) OBVIOUS
  <2> HIDE DEF algo, bytes, extra, most
  <2> QED BY <2>1, <2>2, <2>3, <1>7, <1>8
<1>12. historyM = history + extra /\ historyM <= MaxPhysicalEvents
  BY <1>2 DEF Consistent
<1>13. ScratchBudget \in Int /\ roomAll + MaxPhysicalEvents <= ScratchBudget
  BY RoomForAll
<1> SUFFICES /\ used + algo + bytes <= roomM + historyM /\ used + algo + bytes <= ScratchBudget
             /\ count + 1 = tagsM /\ count + 1 <= N
  OBVIOUS
<1> HIDE DEF M, used, algo, bytes, count, room, roomM, roomAll, history, historyM, tags, tagsM,
             extra, most, N
<1>14. used + algo + bytes <= roomM + historyM
  BY <1>5, <1>6, <1>7, <1>8, <1>9, <1>10, <1>11, <1>12
<1>15. used + algo + bytes <= ScratchBudget
  BY <1>6, <1>7, <1>8, <1>9, <1>11, <1>12, <1>13, <1>14
<1>16. count + 1 = tagsM /\ count + 1 <= N
  BY <1>5, <1>6, <1>10
<1> QED BY <1>14, <1>15, <1>16

(* What add_source answers. *)
LEMMA AddAnswers ==
  ASSUME NEW S, Consistent(S), NEW b, Holds(b, S), NEW s \in SourceRecord
  PROVE  /\ AddError(b, s) # "BufferOverflow"
         /\ AddError(b, s) = "none" <=> s.tag \notin TagsOf(S) /\ Consistent(S \cup {s})
<1>1. OneEach(S) BY DEF Consistent
<1>2. Staged(b) = TagsOf(S) BY <1>1, HeldFacts
<1>3. CASE s.tag \in TagsOf(S)
  BY <1>2, <1>3 DEF AddError
<1>4. CASE s.tag \notin TagsOf(S)
  <2> DEFINE shared == s.tag \in Physical /\ Len(s.bytes) + SiblingLen(b, s.tag) > MaxPhysicalEvents
             full == Len(b.records) >= N
             longAlgo == Len(s.algo) > MaxAlgoId
             long == Len(s.bytes) > MaxLenFor(s.tag)
             bad == ContentError(s.tag, s.bytes)
             over == Len(b.scratch) + Len(s.algo) + Len(s.bytes) > ScratchBudget
  <2>1. AddError(b, s) =
          IF full THEN "TooManyRecords" ELSE IF longAlgo THEN "AlgoIdTooLong"
          ELSE IF long THEN "SourceTooLong" ELSE IF shared THEN "SourceTooLong"
          ELSE IF bad # "none" THEN bad ELSE IF over THEN "BufferOverflow" ELSE "none"
    BY <1>2, <1>4 DEF AddError, N
  <2>2. bad \in {"none", "InvalidRollValue", "InvalidFlipValue"} BY DEF ContentError
  <2>3. Consistent(S \cup {s}) <=> ~longAlgo /\ ~long /\ bad = "none" /\ ~shared
    <3>1. /\ Len(s.algo) \in Nat /\ Len(s.bytes) \in Nat /\ MaxAlgoId \in Nat
          /\ MaxLenFor(s.tag) \in Nat /\ MaxPhysicalEvents \in Nat
      BY SourceFacts, ConstantFacts
    <3>2. Valid(s) <=> ~longAlgo /\ ~long /\ bad = "none"
      BY <3>1 DEF Valid
    <3>3. History(S) \in Nat
      <4>1. S \in SUBSET S OBVIOUS
      <4> QED BY <1>1, <4>1, PartOf
    <3>4. s.tag \in Physical => SiblingLen(b, s.tag) = History(S)
      BY <1>1, <1>4, SiblingFacts
    <3>5. (s.tag \in Physical => Len(s.bytes) + History(S) <= MaxPhysicalEvents) <=> ~shared
      BY <3>1, <3>3, <3>4
    <3> QED BY <1>4, <3>2, <3>5, OneMoreConsistent
  <2>4. Consistent(S \cup {s}) => ~over /\ ~full
    <3> SUFFICES ASSUME Consistent(S \cup {s}) PROVE ~over /\ ~full
      OBVIOUS
    <3>1. /\ Len(b.scratch) + Len(s.algo) + Len(s.bytes) <= ScratchBudget
          /\ Len(b.records) + 1 <= N
      BY <1>4, OneMoreFits
    <3>2. /\ Len(b.scratch) \in Nat /\ Len(s.algo) \in Nat /\ Len(s.bytes) \in Nat
          /\ Len(b.records) \in Nat /\ ScratchBudget \in Int /\ N \in Nat
      BY LenProperties, SourceFacts, RoomForAll, CountOfTags, SMTT(60) DEF Holds
    <3>3. \A x, y \in Int : x <= y => ~(x > y) OBVIOUS
    <3>4. \A x, y \in Int : x + 1 <= y => ~(x >= y) OBVIOUS
    <3>5. Len(b.scratch) + Len(s.algo) + Len(s.bytes) \in Int BY <3>2
    <3>6. Len(b.records) \in Int /\ N \in Int BY <3>2
    <3>7. ~over BY <3>1, <3>2, <3>3, <3>5, Zenon
    <3>8. ~full BY <3>1, <3>4, <3>6, Zenon
    <3> QED BY <3>7, <3>8
  <2> HIDE DEF shared, full, longAlgo, long, bad, over
  <2>5. AddError(b, s) # "BufferOverflow"
    BY <2>1, <2>2, <2>3, <2>4
  <2>6. AddError(b, s) = "none" <=> Consistent(S \cup {s})
    BY <2>1, <2>2, <2>3, <2>4, SMTT(60)
  <2> QED BY <1>4, <2>5, <2>6
<1> QED BY <1>3, <1>4

(* A u16 is a number up to 65535.                                          *)
LEMMA U16Interval == \A z \in Int : z \in U16 <=> 0 <= z /\ z <= 65535
  BY SMTT(60) DEF U16

(* What is no larger than a byte is one, and the same of a u16.            *)
LEMMA Narrower ==
  /\ \A x \in Nat, y \in Byte : x <= y => x \in Byte
  /\ \A x \in Nat, y \in U16 : x <= y => x \in U16
<1>1. ASSUME NEW x \in Nat, NEW y \in Byte, x <= y PROVE x \in Byte
  BY <1>1 DEF Byte
<1>2. ASSUME NEW x \in Nat, NEW y \in U16, x <= y PROVE x \in U16
  <2>1. y \in Int BY DEF U16
  <2>2. y <= 65535 BY <2>1, U16Interval
  <2>3. x \in Int /\ 0 <= x /\ x <= 65535 BY <1>2, <2>1, <2>2
  <2> QED BY <2>3, U16Interval
<1> QED BY <1>1, <1>2

(* Putting together is associative.                                        *)
LEMMA Rebracketed ==
  \A x, y, z \in Seq(Byte) : (x \o y) \o z = x \o (y \o z)
<1> SUFFICES ASSUME NEW x \in Seq(Byte), NEW y \in Seq(Byte), NEW z \in Seq(Byte)
             PROVE  (x \o y) \o z = x \o (y \o z)
  OBVIOUS
<1> QED BY ConcatAssociative, SMTT(30)

(* Payloads put behind others. *)
LEMMA PutBehind ==
  ASSUME NEW p \in Seq(Byte), NEW a \in Seq(Byte), NEW d \in Seq(Byte),
         NEW q, q = (p \o a) \o d
  PROVE  /\ q \in Seq(Byte) /\ q = p \o (a \o d) /\ a \o d \in Seq(Byte)
         /\ Len(p) \in Nat /\ Len(a) \in Nat /\ Len(d) \in Nat
         /\ Len(q) = Len(p) + Len(a) + Len(d)
         /\ SubSeq(q, Len(p) + 1, Len(p) + Len(a)) = a
         /\ SubSeq(q, Len(p) + Len(a) + 1, Len(p) + Len(a) + Len(d)) = d
         /\ \A off, n \in Nat : off + n <= Len(p) =>
              SubSeq(q, off + 1, off + n) = SubSeq(p, off + 1, off + n)
<1>1. a \o d \in Seq(Byte) /\ p \o a \in Seq(Byte)
      /\ Len(p) \in Nat /\ Len(a) \in Nat /\ Len(d) \in Nat
      /\ Len(p \o a) = Len(p) + Len(a) /\ Len(a \o d) = Len(a) + Len(d)
  BY ConcatProperties, LenProperties
<1>2. q = p \o (a \o d) BY Rebracketed
<1>3. q \in Seq(Byte) /\ Len(q) = Len(p \o a) + Len(d) BY <1>1, ConcatProperties
<1>4. SubSeq(q, Len(p) + 1, Len(p) + Len(a)) = a
  BY <1>2, CutMiddle
<1>5. SubSeq(q, Len(p) + Len(a) + 1, Len(p) + Len(a) + Len(d)) = d
  <2>1. << >> \in Seq(Byte) /\ d \o << >> = d BY EmptySeq, ConcatEmptySeq
  <2>2. SubSeq((p \o a) \o (d \o << >>), Len(p \o a) + 1, Len(p \o a) + Len(d)) = d
    BY <1>1, <2>1, CutMiddle
  <2> QED BY <1>1, <2>1, <2>2
<1>6. ASSUME NEW off \in Nat, NEW n \in Nat, off + n <= Len(p)
      PROVE  SubSeq(q, off + 1, off + n) = SubSeq(p, off + 1, off + n)
  <2>1. off + n \in Nat /\ off <= off + n OBVIOUS
  <2>2. SubSeq(p \o (a \o d), off + 1, off + n) = SubSeq(p, off + 1, off + n)
    <3> DEFINE r == a \o d
               c == off + n
    <3>1. r \in Seq(Byte) /\ c \in Nat /\ off <= c /\ c <= Len(p) BY <1>1, <1>6, <2>1
    <3> HIDE DEF r, c
    <3>2. SubSeq(p \o r, off + 1, c) = SubSeq(p, off + 1, c) BY <3>1, CutFront
    <3> QED BY <3>2 DEF r, c
  <2> QED BY <1>2, <2>2
<1> QED BY <1>1, <1>2, <1>3, <1>4, <1>5, <1>6

(* A place in scratch stays one when more is put behind.                   *)
LEMMA PlaceKept ==
  ASSUME NEW p \in Seq(Byte), NEW a \in Seq(Byte), NEW d \in Seq(Byte),
         NEW r \in StagedRecord, NEW s, Place(p, r, s)
  PROVE  Place((p \o a) \o d, r, s)
<1> DEFINE q == (p \o a) \o d
<1>1. /\ r.algo_off \in Nat /\ r.algo_len \in Nat /\ r.data_off \in Nat /\ r.data_len \in Nat
  BY DEF StagedRecord
<1>2. /\ r.algo_off + r.algo_len <= Len(p) /\ r.data_off + r.data_len <= Len(p)
  BY DEF Place
<1>3. /\ Len(p) \in Nat /\ Len(a) \in Nat /\ Len(d) \in Nat
      /\ Len(q) = Len(p) + Len(a) + Len(d)
      /\ \A off, n \in Nat : off + n <= Len(p) =>
              SubSeq(q, off + 1, off + n) = SubSeq(p, off + 1, off + n)
  BY PutBehind
<1> HIDE DEF q
<1>4. SubSeq(q, r.algo_off + 1, r.algo_off + r.algo_len)
        = SubSeq(p, r.algo_off + 1, r.algo_off + r.algo_len)
  BY <1>1, <1>2, <1>3, Zenon
<1>5. SubSeq(q, r.data_off + 1, r.data_off + r.data_len)
        = SubSeq(p, r.data_off + 1, r.data_off + r.data_len)
  BY <1>1, <1>2, <1>3, Zenon
<1>6. \A x, y, z, v, n \in Nat : x + y <= z => x + y <= z + v + n OBVIOUS
<1>7. r.algo_off + r.algo_len <= Len(q) /\ r.data_off + r.data_len <= Len(q)
  BY <1>1, <1>2, <1>3, <1>6
<1>8. Place(q, r, s) BY <1>4, <1>5, <1>7 DEF Place
<1> QED BY <1>8 DEF q

(* With the source it accepts, a builder holds one source more.            *)
LEMMA AddHolds ==
  ASSUME NEW S, Consistent(S), NEW b, Holds(b, S),
         NEW s \in SourceRecord, s.tag \notin TagsOf(S), Consistent(S \cup {s})
  PROVE  Holds(Added(b, s), S \cup {s})
<1> DEFINE M == S \cup {s}
           k == Len(b.records)
           scratch == (b.scratch \o s.algo) \o s.bytes
           r == [tag |-> s.tag, algo_off |-> Len(b.scratch), algo_len |-> Len(s.algo),
                 data_off |-> Len(b.scratch) + Len(s.algo), data_len |-> Len(s.bytes)]
<1>1. /\ b.scratch \in Seq(Byte) /\ Len(b.scratch) \in Nat /\ b.records \in Seq(StagedRecord)
      /\ k \in Nat /\ s.algo \in Seq(Byte) /\ s.bytes \in Seq(Byte)
      /\ Len(s.algo) \in Nat /\ Len(s.bytes) \in Nat /\ s.tag \in Tags
  BY LenProperties, SourceFacts DEF Holds
<1>2. Valid(s) BY DEF Consistent
<1>3. AsU8(Len(s.algo)) = Len(s.algo) /\ AsU16(Len(s.bytes)) = Len(s.bytes)
  <2>1. /\ Len(s.algo) <= MaxAlgoId /\ MaxAlgoId \in Byte
        /\ Len(s.bytes) <= MaxLenFor(s.tag) /\ MaxLenFor(s.tag) \in U16
    BY <1>1, <1>2, ConstantFacts DEF Valid
  <2>4. Len(s.algo) \in Byte /\ Len(s.bytes) \in U16 BY <1>1, <2>1, Narrower, Zenon
  <2> QED BY <2>4, WidthFacts
<1>4. Added(b, s).scratch = scratch /\ Added(b, s).records = Append(b.records, r)
  BY <1>3 DEF Added
<1>5. r \in StagedRecord
  <2>0. \A x, y \in Nat : x + y \in Nat OBVIOUS
  <2>1. Len(b.scratch) + Len(s.algo) \in Nat BY <1>1, <2>0, Zenon
  <2> QED BY <1>1, <2>1, Zenon DEF StagedRecord
<1>6. /\ scratch \in Seq(Byte)
      /\ Len(scratch) = Len(b.scratch) + Len(s.algo) + Len(s.bytes)
      /\ SubSeq(scratch, Len(b.scratch) + 1, Len(b.scratch) + Len(s.algo)) = s.algo
      /\ SubSeq(scratch, Len(b.scratch) + Len(s.algo) + 1,
               Len(b.scratch) + Len(s.algo) + Len(s.bytes)) = s.bytes
  <2> DEFINE p == b.scratch
             a == s.algo
             d == s.bytes
  <2>1. p \in Seq(Byte) /\ a \in Seq(Byte) /\ d \in Seq(Byte) /\ scratch = (p \o a) \o d
    BY <1>1
  <2> SUFFICES /\ scratch \in Seq(Byte) /\ Len(scratch) = Len(p) + Len(a) + Len(d)
               /\ SubSeq(scratch, Len(p) + 1, Len(p) + Len(a)) = a
               /\ SubSeq(scratch, Len(p) + Len(a) + 1, Len(p) + Len(a) + Len(d)) = d
    OBVIOUS
  <2> HIDE DEF scratch, p, a, d
  <2> QED BY <2>1, PutBehind
<1>7. /\ r.tag = s.tag /\ r.algo_len = Len(s.algo) /\ r.data_len = Len(s.bytes)
      /\ r.algo_off = Len(b.scratch) /\ r.data_off = Len(b.scratch) + Len(s.algo)
  OBVIOUS
<1>8. Place(scratch, r, s)
  <2>1. Len(b.scratch) + Len(s.algo) <= Len(scratch)
        /\ Len(b.scratch) + Len(s.algo) + Len(s.bytes) <= Len(scratch)
    <3>1. \A x, y, z \in Nat : x + y <= x + y + z /\ x + y + z <= x + y + z OBVIOUS
    <3> QED BY <1>1, <1>6, <3>1
  <2> HIDE DEF scratch, r
  <2> QED BY <1>6, <1>7, <2>1, Zenon DEF Place
<1>9. /\ Len(scratch) <= Room(TagsOf(M)) + History(M)
      /\ k + 1 = Cardinality(TagsOf(M))
  <2>1. /\ Len(b.scratch) + Len(s.algo) + Len(s.bytes) <= Room(TagsOf(M)) + History(M)
        /\ k + 1 = Cardinality(TagsOf(M))
    BY OneMoreFits
  <2> HIDE DEF scratch, M, k
  <2> QED BY <1>6, <2>1
<1>10. /\ Append(b.records, r) \in Seq(StagedRecord) /\ Len(Append(b.records, r)) = k + 1
       /\ \A i \in 1 .. k : Append(b.records, r)[i] = b.records[i]
       /\ Append(b.records, r)[k + 1] = r
  BY <1>1, <1>5, AppendProperties
<1>11. \A i \in 1 .. k : b.records[i] \in StagedRecord BY <1>1, ElementOfSeq
<1>12. \A i \in 1 .. k : \E u \in S : Place(b.scratch, b.records[i], u)
  BY DEF Holds
<1>13. \A u \in S : \E i \in 1 .. k : b.records[i].tag = u.tag
  BY DEF Holds
<1>14. r.tag = s.tag OBVIOUS
<1> DEFINE c == Added(b, s)
<1>15. \A i \in 1 .. k : \E u \in S : Place(scratch, b.records[i], u)
  <2> SUFFICES ASSUME NEW i \in 1 .. k PROVE \E u \in S : Place(scratch, b.records[i], u)
    OBVIOUS
  <2>1. PICK u \in S : Place(b.scratch, b.records[i], u) BY <1>12
  <2>2. b.records[i] \in StagedRecord BY <1>11
  <2>3. Place(scratch, b.records[i], u) BY <1>1, <2>1, <2>2, PlaceKept, Zenon
  <2> QED BY <2>3
<1>16. \A i \in 1 .. k + 1 : i \in 1 .. k \/ i = k + 1 BY <1>1, SMTT(60)
<1>17. \A i \in 1 .. k : i \in 1 .. k + 1 BY <1>1
<1>18. k + 1 \in 1 .. k + 1 BY <1>1
<1> HIDE DEF scratch, r, k, c, M
<1>19. c.scratch = scratch /\ c.records = Append(b.records, r) /\ Len(c.records) = k + 1
  BY <1>4, <1>10 DEF c
<1>20. \A i \in 1 .. Len(c.records) : \E u \in M : Place(c.scratch, c.records[i], u)
  BY <1>8, <1>10, <1>15, <1>16, <1>19 DEF M
<1>21. \A u \in M : \E i \in 1 .. Len(c.records) : c.records[i].tag = u.tag
  BY <1>10, <1>13, <1>14, <1>17, <1>18, <1>19 DEF M
<1>22. Holds(c, M) BY <1>6, <1>9, <1>10, <1>19, <1>20, <1>21 DEF Holds
<1> QED BY <1>22 DEF c, M

---------------------------------------------------------------------------
(* What is written of a set of sources. *)

Coded(S, i) ==
  IF CanonicalTags[i] \in TagsOf(S) THEN EncodedRecord(Of(S, CanonicalTags[i])) ELSE << >>

Body(S) == FlattenSeq([i \in 1 .. N |-> Coded(S, i)])

Wire(S, header) ==
  (Domain \o EncodedHeader(header, Bitmap(TagsOf(S)), Cardinality(TagsOf(S)))) \o Body(S)

(* The canonical order ascends.                                            *)
LEMMA OrderFacts ==
  /\ \A j \in 1 .. N : CanonicalTags[j] \in Tags /\ CanonicalTags[j] \in Int
  /\ \A i, j \in 1 .. N : i < j => CanonicalTags[i] < CanonicalTags[j]
<1>1. \A t \in Tags : t \in Int BY TagFacts DEF Byte
<1>2. \A j \in 1 .. N : CanonicalTags[j] \in Tags BY TagFacts
<1>3. \A i, j \in 1 .. N : i < j => CanonicalTags[i] < CanonicalTags[j]
  BY TagsAssumption, CountOfTags
<1> QED BY <1>1, <1>2, <1>3

(* Two strings put together.                                               *)
LEMMA Joined ==
  ASSUME NEW a \in Seq(Byte), NEW d \in Seq(Byte)
  PROVE  /\ a \o d \in Seq(Byte) /\ Len(a) \in Nat /\ Len(d) \in Nat
         /\ Len(a \o d) \in Nat /\ Len(a \o d) = Len(a) + Len(d)
BY ConcatProperties, LenProperties

(* A record is four bytes longer than what it carries.                     *)
LEMMA EncodedFacts ==
  ASSUME NEW s \in SourceRecord
  PROVE  /\ EncodedRecord(s) \in Seq(Byte)
         /\ Len(EncodedRecord(s)) = 4 + Len(s.algo) + Len(s.bytes)
<1> DEFINE a == << s.tag, AsU8(Len(s.algo)) >>
           d == Be16(Len(s.bytes))
<1>1. s.algo \in Seq(Byte) /\ s.bytes \in Seq(Byte) /\ Len(s.algo) \in Nat /\ Len(s.bytes) \in Nat
      /\ s.tag \in Byte
  BY SourceFacts
<1>2. a \in Seq(Byte) /\ Len(a) = 2
  <2>1. AsU8(Len(s.algo)) \in Byte BY <1>1, WidthFacts
  <2> QED BY <1>1, <2>1
<1>3. d \in Seq(Byte) /\ Len(d) = 2 
  <2>1. Len(s.bytes) \in Int BY <1>1
  <2> QED BY <2>1, Be16Facts, Zenon
<1>4. EncodedRecord(s) = ((a \o s.algo) \o d) \o s.bytes BY DEF EncodedRecord
<1> DEFINE e == s.algo
           g == s.bytes
<1>5. e \in Seq(Byte) /\ g \in Seq(Byte) /\ Len(e) \in Nat /\ Len(g) \in Nat BY <1>1
<1> SUFFICES /\ ((a \o e) \o d) \o g \in Seq(Byte)
             /\ Len(((a \o e) \o d) \o g) = 4 + Len(e) + Len(g)
  BY <1>4
<1> HIDE DEF a, d, e, g
<1>6. a \o e \in Seq(Byte) /\ Len(a \o e) = 2 + Len(e) BY <1>2, <1>5, Joined
<1>7. (a \o e) \o d \in Seq(Byte) /\ Len((a \o e) \o d) = 4 + Len(e)
  BY <1>3, <1>5, <1>6, Joined, SMTT(60)
<1> QED BY <1>5, <1>7, Joined

(* At each place of the order stands the record of its source, or nothing. *)
LEMMA CodedFacts ==
  ASSUME NEW S, OneEach(S), NEW i \in 1 .. N
  PROVE  /\ Coded(S, i) \in Seq(Byte)
         /\ CanonicalTags[i] \notin TagsOf(S) => Coded(S, i) = << >>
         /\ CanonicalTags[i] \in TagsOf(S) =>
              /\ Of(S, CanonicalTags[i]) \in S /\ Of(S, CanonicalTags[i]) \in SourceRecord
              /\ Of(S, CanonicalTags[i]).tag = CanonicalTags[i]
              /\ Coded(S, i) = EncodedRecord(Of(S, CanonicalTags[i]))
<1>1. CASE CanonicalTags[i] \in TagsOf(S)
  <2>1. Of(S, CanonicalTags[i]) \in S /\ Of(S, CanonicalTags[i]).tag = CanonicalTags[i]
    BY <1>1, OfFacts
  <2>2. Of(S, CanonicalTags[i]) \in SourceRecord BY <2>1 DEF OneEach
  <2>3. Coded(S, i) = EncodedRecord(Of(S, CanonicalTags[i])) BY <1>1 DEF Coded
  <2>4. Coded(S, i) \in Seq(Byte) BY <2>2, <2>3, EncodedFacts
  <2> QED BY <1>1, <2>1, <2>2, <2>3, <2>4
<1>2. CASE CanonicalTags[i] \notin TagsOf(S)
  BY <1>2, EmptySeq DEF Coded
<1> QED BY <1>1, <1>2

(* The body is written place by place. *)
LEMMA BodyGrows ==
  ASSUME NEW S, OneEach(S)
  PROVE  \E f \in [0 .. N -> Seq(Byte)] :
           /\ f[0] = << >> /\ f[N] = Body(S)
           /\ \A i \in 1 .. N : f[i] = f[i - 1] \o Coded(S, i)
<1> DEFINE ss == [i \in 1 .. N |-> Coded(S, i)]
<1>1. N \in Nat BY CountOfTags
<1>2. \A i \in 1 .. N : Coded(S, i) \in Seq(Byte) BY CodedFacts
<1>3. ss \in Seq(Seq(Byte)) BY <1>1, <1>2
<1>4. Len(ss) = N BY <1>1
<1>5. \A i \in 1 .. N : ss[i] = Coded(S, i) OBVIOUS
<1>6. Body(S) = FlattenSeq(ss) BY DEF Body
<1> HIDE DEF ss
<1>7. \E f \in [0 .. Len(ss) -> Seq(Byte)] :
        /\ f[0] = << >> /\ f[Len(ss)] = FlattenSeq(ss)
        /\ \A i \in 1 .. Len(ss) : f[i] = f[i - 1] \o ss[i]
  BY <1>3, Flattened
<1> QED BY <1>4, <1>5, <1>6, <1>7

(* The body is a string of bytes.                                          *)
LEMMA BodyType ==
  ASSUME NEW S, OneEach(S)
  PROVE  Body(S) \in Seq(Byte)
<1>1. PICK f \in [0 .. N -> Seq(Byte)] : f[N] = Body(S) BY BodyGrows
<1>2. N \in 0 .. N BY CountOfTags
<1> QED BY <1>1, <1>2

(* The sources whose tags are among the first i.                           *)
Part(S, i) == {s \in S : \E j \in 1 .. i : s.tag = CanonicalTags[j]}

(* Place by place, the part grows by the source of the place, whose tag is *)
(* above all before it.                                                    *)
LEMMA PartFacts ==
  ASSUME NEW S, OneEach(S)
  PROVE  /\ Part(S, 0) = {} /\ Part(S, N) = S /\ \A i : Part(S, i) \in SUBSET S
         /\ \A i \in 1 .. N :
              /\ CanonicalTags[i] \in TagsOf(S) =>
                   Part(S, i) = Part(S, i - 1) \cup {Of(S, CanonicalTags[i])}
              /\ CanonicalTags[i] \notin TagsOf(S) => Part(S, i) = Part(S, i - 1)
              /\ \A s \in Part(S, i - 1) : s.tag < CanonicalTags[i]
              /\ CanonicalTags[i] \in Tags /\ CanonicalTags[i] \notin TagsOf(Part(S, i - 1))
<1>1. Part(S, 0) = {} BY DEF Part
<1>2. Part(S, N) = S
  <2>1. \A s \in S : s.tag \in Tags BY SourceFacts DEF OneEach
  <2> QED BY <2>1, TagFacts DEF Part
<1>3. ASSUME NEW i PROVE Part(S, i) \in SUBSET S BY DEF Part
<1>4. ASSUME NEW i \in 1 .. N
      PROVE  /\ CanonicalTags[i] \in TagsOf(S) =>
                   Part(S, i) = Part(S, i - 1) \cup {Of(S, CanonicalTags[i])}
             /\ CanonicalTags[i] \notin TagsOf(S) => Part(S, i) = Part(S, i - 1)
             /\ \A s \in Part(S, i - 1) : s.tag < CanonicalTags[i]
             /\ CanonicalTags[i] \in Tags /\ CanonicalTags[i] \notin TagsOf(Part(S, i - 1))
  <2> DEFINE t == CanonicalTags[i]
  <2>1. N \in Nat BY CountOfTags
  <2>2. \A j \in 1 .. i : j = i \/ j \in 1 .. i - 1 BY <2>1
  <2>3. \A j \in 1 .. i - 1 : j \in 1 .. i BY <2>1
  <2>4. i \in 1 .. i BY <2>1
  <2>5. \A j \in 1 .. i - 1 : CanonicalTags[j] < t
    BY <2>1, TagsAssumption, CountOfTags
  <2>6. t \in Tags BY TagFacts
  <2>7. \A s \in Part(S, i - 1) : s.tag < t BY <2>5 DEF Part
  <2>8. t \notin TagsOf(Part(S, i - 1))
    <3>1. t \in Int BY <2>6, TagFacts DEF Byte
    <3>2. ~(t < t) BY <3>1
    <3> QED BY <2>7, <3>2 DEF TagsOf
  <2>9. \A s \in S : s \in Part(S, i) <=> s.tag = t \/ s \in Part(S, i - 1)
    BY <2>2, <2>3, <2>4 DEF Part
  <2>10. Part(S, i) \subseteq S /\ Part(S, i - 1) \subseteq S BY <1>3
  <2>11. t \notin TagsOf(S) => Part(S, i) = Part(S, i - 1)
    BY <2>9, <2>10 DEF TagsOf
  <2>12. t \in TagsOf(S) => Part(S, i) = Part(S, i - 1) \cup {Of(S, t)}
    <3> HAVE t \in TagsOf(S)
    <3>1. Of(S, t) \in S /\ Of(S, t).tag = t BY OfFacts
    <3>2. \A s \in S : s.tag = t => s = Of(S, t) BY <3>1 DEF OneEach
    <3> QED BY <2>9, <2>10, <3>1, <3>2
  <2> QED BY <2>6, <2>7, <2>8, <2>11, <2>12
<1> QED BY <1>1, <1>2, <1>3, <1>4

(* A source with a tag above all others is written behind them.            *)
LEMMA BodyOfOneMore ==
  ASSUME NEW S, OneEach(S), NEW s \in SourceRecord, \A u \in S : u.tag < s.tag
  PROVE  Body(S \cup {s}) = Body(S) \o EncodedRecord(s)
<1> DEFINE M == S \cup {s}
           e == EncodedRecord(s)
<1>0. s.tag \notin TagsOf(S)
  <2>1. ~(s.tag < s.tag) BY SourceFacts
  <2> QED BY <2>1 DEF TagsOf
<1>1. /\ OneEach(M) /\ TagsOf(M) = TagsOf(S) \cup {s.tag} /\ Of(M, s.tag) = s
      /\ \A t \in TagsOf(S) : Of(M, t) = Of(S, t)
  BY <1>0, OneMore
<1>2. e \in Seq(Byte) /\ N \in Nat
  <2>1. e \in Seq(Byte) BY EncodedFacts, Zenon
  <2>2. N \in Nat BY CountOfTags
  <2> QED BY <2>1, <2>2
<1>3. PICK p \in 1 .. N : CanonicalTags[p] = s.tag
  BY SourceFacts, TagFacts
<1>4. ASSUME NEW i \in 1 .. N, i # p
      PROVE  Coded(M, i) = Coded(S, i) /\ (i > p => Coded(S, i) = << >>)
  <2> DEFINE t == CanonicalTags[i]
  <2>0. /\ p \in 1 .. N /\ CanonicalTags[p] \in Int /\ t \in Int
    BY OrderFacts
  <2>1. i < p => t < s.tag
    BY <1>3, TagsAssumption, CountOfTags
  <2>2. i > p => s.tag < t
    BY <1>3, TagsAssumption, CountOfTags
  <2>3. i < p \/ i > p BY <1>2, <1>4
  <2>4. t # s.tag BY <1>3, <2>0, <2>1, <2>2, <2>3
  <2>5. Coded(M, i) = Coded(S, i)
    <3> HIDE DEF M
    <3> QED BY <1>1, <2>4 DEF Coded
  <2>6. i > p => Coded(S, i) = << >>
    <3> HAVE i > p
    <3>1. t \notin TagsOf(S)
      <4> SUFFICES ASSUME NEW u \in S, u.tag = t PROVE FALSE
        BY DEF TagsOf
      <4>1. u.tag < s.tag OBVIOUS
      <4> QED BY <1>3, <2>0, <2>2, <4>1
    <3> QED BY <3>1 DEF Coded
  <2> QED BY <2>5, <2>6
<1>5. Coded(M, p) = e /\ Coded(S, p) = << >>
  <2> HIDE DEF M
  <2> QED BY <1>0, <1>1, <1>3 DEF Coded
<1> HIDE DEF M, e
<1>6. PICK f \in [0 .. N -> Seq(Byte)] :
           /\ f[0] = << >> /\ f[N] = Body(S)
           /\ \A i \in 1 .. N : f[i] = f[i - 1] \o Coded(S, i)
  BY BodyGrows
<1>7. PICK g \in [0 .. N -> Seq(Byte)] :
           /\ g[0] = << >> /\ g[N] = Body(M)
           /\ \A i \in 1 .. N : g[i] = g[i - 1] \o Coded(M, i)
  BY <1>1, BodyGrows
<1> DEFINE T == {i \in 0 .. N : g[i] = f[i] \o (IF i >= p THEN e ELSE << >>)}
<1>8. 0 \in T
  <2>1. ~(0 >= p) /\ 0 \in 0 .. N BY <1>2
  <2>2. << >> \in Seq(Byte) /\ << >> \o << >> = << >> BY EmptySeq, ConcatEmptySeq
  <2> QED BY <1>6, <1>7, <2>1, <2>2
<1>9. ASSUME NEW i \in (0 + 1) .. N, i - 1 \in T PROVE i \in T
  <2>1. i \in 1 .. N /\ i - 1 \in 0 .. N /\ i \in 0 .. N BY <1>2
  <2>2. g[i] = g[i - 1] \o Coded(M, i) /\ f[i] = f[i - 1] \o Coded(S, i)
    BY <1>6, <1>7, <2>1
  <2>3. f[i - 1] \in Seq(Byte) /\ f[i] \in Seq(Byte) BY <2>1
  <2>4. g[i - 1] = f[i - 1] \o (IF i - 1 >= p THEN e ELSE << >>) BY <1>9
  <2>5. << >> \in Seq(Byte) /\ Coded(S, i) \in Seq(Byte) BY <2>1, CodedFacts, EmptySeq
  <2>6. CASE i < p
    <3>1. ~(i >= p) /\ ~(i - 1 >= p) /\ i # p BY <1>2, <2>1, <2>6
    <3>2. g[i - 1] = f[i - 1] BY <2>3, <2>4, <3>1, ConcatEmptySeq
    <3>3. g[i] = f[i] BY <1>4, <2>1, <2>2, <3>1, <3>2
    <3> QED BY <2>1, <2>3, <3>1, <3>3, ConcatEmptySeq
  <2>7. CASE i = p
    <3>1. i >= p /\ ~(i - 1 >= p) BY <1>2, <2>1, <2>7
    <3>2. g[i - 1] = f[i - 1] BY <2>3, <2>4, <3>1, ConcatEmptySeq
    <3>3. f[i] = f[i - 1] /\ g[i] = f[i - 1] \o e
      BY <1>5, <2>2, <2>3, <2>7, <3>2, ConcatEmptySeq
    <3> QED BY <2>1, <3>1, <3>3
  <2>8. CASE i > p
    <3>1. i >= p /\ i - 1 >= p /\ i # p BY <1>2, <2>1, <2>8
    <3>2. g[i - 1] = f[i - 1] \o e /\ Coded(M, i) = << >> /\ Coded(S, i) = << >>
      BY <1>4, <2>1, <2>4, <2>8, <3>1
    <3>3. f[i - 1] \o e \in Seq(Byte) BY <1>2, <2>3, ConcatProperties
    <3>4. f[i] = f[i - 1] /\ g[i] = f[i - 1] \o e
      BY <2>2, <2>3, <3>2, <3>3, ConcatEmptySeq
    <3> QED BY <2>1, <3>1, <3>4
  <2> QED BY <1>2, <2>1, <2>6, <2>7, <2>8, SMTT(60)
<1> HIDE DEF T
<1>10. 0 .. N \subseteq T BY <1>2, <1>8, <1>9, CountUp
<1>11. N \in T /\ N >= p BY <1>2, <1>10
<1>12. g[N] = f[N] \o e BY <1>11 DEF T
<1> QED BY <1>6, <1>7, <1>12 DEF M, e

(* A builder that holds the sources serializes them.                       *)
LEMMA SerializeIsWire ==
  ASSUME NEW S, OneEach(S), NEW b, Holds(b, S), NEW header
  PROVE  Serialize(b, header) = Wire(S, header)
<1>1. Staged(b) = TagsOf(S) /\ Len(b.records) = Cardinality(TagsOf(S))
  BY HeldFacts DEF Holds
<1>2. \A i \in 1 .. N : Written(b, i) = Coded(S, i)
  <2> SUFFICES ASSUME NEW i \in 1 .. N PROVE Written(b, i) = Coded(S, i)
    OBVIOUS
  <2>1. CASE CanonicalTags[i] \in TagsOf(S)
    <3>1. Of(S, CanonicalTags[i]) \in S /\ Of(S, CanonicalTags[i]).tag = CanonicalTags[i]
      BY <2>1, OfFacts
    <3>2. StagedSource(b, CanonicalTags[i]) = Of(S, CanonicalTags[i])
      BY <3>1, HeldFacts
    <3> QED BY <1>1, <2>1, <3>2 DEF Written, Coded
  <2>2. CASE CanonicalTags[i] \notin TagsOf(S)
    BY <1>1, <2>2 DEF Written, Coded
  <2> QED BY <2>1, <2>2
<1>3. [i \in 1 .. N |-> Written(b, i)] = [i \in 1 .. N |-> Coded(S, i)]
  BY <1>2
<1>4. FlattenSeq([i \in 1 .. N |-> Written(b, i)]) = Body(S)
  BY <1>3 DEF Body
<1> QED BY <1>1, <1>4 DEF Serialize, Wire, N

(* Two bytes put behind a string, by their places.                         *)
LEMMA PairBehind ==
  ASSUME NEW p \in Seq(Byte), NEW x \in Byte, NEW y \in Byte, NEW q, q = p \o << x, y >>
  PROVE  /\ q \in Seq(Byte) /\ Len(p) \in Nat /\ Len(q) = Len(p) + 2
         /\ \A i \in 1 .. Len(p) : q[i] = p[i]
         /\ q[Len(p) + 1] = x /\ q[Len(p) + 2] = y
<1> DEFINE u == << x, y >>
           l == Len(p)
<1>1. u \in Seq(Byte) /\ Len(u) = 2 /\ u[1] = x /\ u[2] = y OBVIOUS
<1>2. q = p \o u OBVIOUS
<1>3. l \in Nat BY LenProperties
<1> HIDE DEF u
<1>4. /\ q \in Seq(Byte) /\ Len(q) = l + 2
      /\ \A i \in 1 .. l + 2 : q[i] = IF i <= l THEN p[i] ELSE u[i - l]
  BY <1>1, <1>2, ConcatProperties
<1> SUFFICES /\ Len(q) = l + 2 /\ \A i \in 1 .. l : q[i] = p[i]
             /\ q[l + 1] = x /\ q[l + 2] = y
  BY <1>3, <1>4
<1> HIDE DEF l
<1>5. \A i \in 1 .. l : q[i] = p[i] BY <1>3, <1>4
<1>6. l + 1 \in 1 .. l + 2 /\ ~(l + 1 <= l) /\ (l + 1) - l = 1
      /\ l + 2 \in 1 .. l + 2 /\ ~(l + 2 <= l) /\ (l + 2) - l = 2
  BY <1>3
<1>7. q[l + 1] = u[1] /\ q[l + 2] = u[2] BY <1>4, <1>6
<1> QED BY <1>1, <1>4, <1>5, <1>7

(* The header's nine bytes. *)
LEMMA HeaderBytes ==
  ASSUME NEW header, header.arch \in Int, header.bits \in Int, header.policy \in Int,
         NEW bitmap \in Int, NEW count \in Byte, NEW h, h = EncodedHeader(header, bitmap, count)
  PROVE  /\ h \in Seq(Byte) /\ Len(h) = 9
         /\ << h[1], h[2] >> = Be16(header.arch) /\ << h[3], h[4] >> = Be16(header.bits)
         /\ << h[5], h[6] >> = Be16(header.policy) /\ << h[7], h[8] >> = Be16(bitmap)
         /\ h[9] = count
<1> DEFINE a1 == AsU8(header.arch \div 256)
           a2 == AsU8(header.arch)
           b1 == AsU8(header.bits \div 256)
           b2 == AsU8(header.bits)
           p1 == AsU8(header.policy \div 256)
           p2 == AsU8(header.policy)
           m1 == AsU8(bitmap \div 256)
           m2 == AsU8(bitmap)
<1>1. /\ Be16(header.arch) = << a1, a2 >> /\ Be16(header.bits) = << b1, b2 >>
      /\ Be16(header.policy) = << p1, p2 >> /\ Be16(bitmap) = << m1, m2 >>
  BY DEF Be16
<1>2. \A v \in Int : v \div 256 \in Int OBVIOUS
<1>3. /\ a1 \in Byte /\ a2 \in Byte /\ b1 \in Byte /\ b2 \in Byte
      /\ p1 \in Byte /\ p2 \in Byte /\ m1 \in Byte /\ m2 \in Byte
  BY <1>2, WidthFacts
<1>4. h = (((<< a1, a2 >> \o << b1, b2 >>) \o << p1, p2 >>) \o << m1, m2 >>) \o << count >>
  BY <1>1 DEF EncodedHeader
<1> HIDE DEF a1, a2, b1, b2, p1, p2, m1, m2
<1> DEFINE q1 == << a1, a2 >>
           q2 == q1 \o << b1, b2 >>
           q3 == q2 \o << p1, p2 >>
           q4 == q3 \o << m1, m2 >>
<1>5. q1 \in Seq(Byte) /\ Len(q1) = 2 /\ q1[1] = a1 /\ q1[2] = a2 BY <1>3
<1>6. /\ q2 = q1 \o << b1, b2 >> /\ q3 = q2 \o << p1, p2 >>
      /\ q4 = q3 \o << m1, m2 >> /\ h = q4 \o << count >>
  BY <1>4
<1> HIDE DEF q1, q2, q3, q4
<1>7. /\ q2 \in Seq(Byte) /\ Len(q2) = 4
      /\ q2[1] = a1 /\ q2[2] = a2 /\ q2[3] = b1 /\ q2[4] = b2
  <2>1. /\ q2 \in Seq(Byte) /\ Len(q2) = Len(q1) + 2
        /\ \A i \in 1 .. Len(q1) : q2[i] = q1[i]
        /\ q2[Len(q1) + 1] = b1 /\ q2[Len(q1) + 2] = b2
    <3>1. q1 \in Seq(Byte) /\ b1 \in Byte /\ b2 \in Byte /\ q2 = q1 \o << b1, b2 >>
      BY <1>3, <1>5, <1>6
    <3> QED BY ONLY <3>1, PairBehind
  <2> QED BY <1>5, <2>1
<1>8. /\ q3 \in Seq(Byte) /\ Len(q3) = 6
      /\ q3[1] = a1 /\ q3[2] = a2 /\ q3[3] = b1 /\ q3[4] = b2 /\ q3[5] = p1 /\ q3[6] = p2
  BY <1>3, <1>6, <1>7, PairBehind, SMTT(60)
<1>9. /\ q4 \in Seq(Byte) /\ Len(q4) = 8
      /\ q4[1] = a1 /\ q4[2] = a2 /\ q4[3] = b1 /\ q4[4] = b2 /\ q4[5] = p1 /\ q4[6] = p2
      /\ q4[7] = m1 /\ q4[8] = m2
  BY <1>3, <1>6, <1>8, PairBehind, SMTT(60)
<1>10. h = Append(q4, count)
  BY <1>6, <1>9, AppendIsConcat
<1>11. /\ h \in Seq(Byte) /\ Len(h) = 9 /\ \A i \in 1 .. 8 : h[i] = q4[i]
       /\ h[9] = count
  <2>1. /\ h \in Seq(Byte) /\ Len(h) = Len(q4) + 1
        /\ (\A i \in 1 .. Len(q4) : h[i] = q4[i]) /\ h[Len(q4) + 1] = count
    <3>1. q4 \in Seq(Byte) /\ count \in Byte BY <1>9
    <3> QED BY ONLY <1>10, <3>1, AppendProperties
  <2>2. Len(q4) = 8 BY <1>9
  <2>3. h[9] = count BY <2>1, <2>2
  <2> QED BY <2>1, <2>2, <2>3
<1> QED BY <1>1, <1>9, <1>11

(* How many tags there are is a byte. *)
LEMMA CountByte ==
  ASSUME NEW S, OneEach(S)
  PROVE  /\ Cardinality(TagsOf(S)) \in Byte /\ Cardinality(TagsOf(S)) \in Nat
         /\ Cardinality(TagsOf(S)) <= N
<1>1. TagsOf(S) \in SUBSET Tags BY OfFacts
<1>2. Cardinality(TagsOf(S)) \in Nat /\ Cardinality(TagsOf(S)) <= N BY <1>1, RoomFacts
<1>3. N \in Byte BY CountOfTags DEF Byte
<1> QED BY <1>2, <1>3, Narrower

(* The length of the body, part by part. *)
LEMMA BodyLength ==
  ASSUME NEW S, Consistent(S)
  PROVE  Len(Body(S)) <= N * RecordOverhead + Room(Tags) + MaxPhysicalEvents
<1>0. OneEach(S) BY DEF Consistent
<1>1. N \in Nat BY CountOfTags
<1>2. PICK f \in [0 .. N -> Seq(Byte)] :
           /\ f[0] = << >> /\ f[N] = Body(S)
           /\ \A i \in 1 .. N : f[i] = f[i - 1] \o Coded(S, i)
  BY <1>0, BodyGrows
<1> DEFINE count(i) == Cardinality(TagsOf(Part(S, i)))
           room(i) == Room(TagsOf(Part(S, i)))
           history(i) == History(Part(S, i))
           T == {i \in 0 .. N : Len(f[i]) <= 4 * count(i) + room(i) + history(i)}
<1>3. \A i : /\ OneEach(Part(S, i)) /\ TagsOf(Part(S, i)) \in SUBSET Tags
             /\ Part(S, i) \in SUBSET S
             /\ count(i) \in Nat /\ count(i) <= N
             /\ room(i) \in Nat /\ room(i) <= Room(Tags) /\ history(i) \in Nat
  <2> SUFFICES ASSUME NEW i
               PROVE  /\ OneEach(Part(S, i)) /\ TagsOf(Part(S, i)) \in SUBSET Tags
                      /\ Part(S, i) \in SUBSET S
                      /\ count(i) \in Nat /\ count(i) <= N
                      /\ room(i) \in Nat /\ room(i) <= Room(Tags) /\ history(i) \in Nat
    OBVIOUS
  <2>1. Part(S, i) \in SUBSET S BY <1>0, PartFacts
  <2>2. OneEach(Part(S, i)) /\ History(Part(S, i)) \in Nat BY <1>0, <2>1, PartOf
  <2>3. TagsOf(Part(S, i)) \in SUBSET Tags BY <2>2, OfFacts
  <2> QED BY <2>1, <2>2, <2>3, RoomFacts
<1>4. 0 \in T
  <2>1. Part(S, 0) = {} BY <1>0, PartFacts
  <2>2. Len(f[0]) = 0 BY <1>2, EmptySeq
  <2>3. 0 <= 4 * count(0) + room(0) + history(0)
    <3>1. count(0) \in Nat /\ room(0) \in Nat /\ history(0) \in Nat BY <1>3
    <3> HIDE DEF count, room, history
    <3> QED BY <3>1
  <2> QED BY <1>1, <2>2, <2>3
<1>5. ASSUME NEW i \in (0 + 1) .. N, i - 1 \in T PROVE i \in T
  <2>1. i \in 1 .. N /\ i \in 0 .. N /\ i - 1 \in 0 .. N BY <1>1
  <2>2. f[i] = f[i - 1] \o Coded(S, i) BY <1>2, <2>1
  <2>3. f[i - 1] \in Seq(Byte) /\ f[i] \in Seq(Byte) BY <2>1
  <2>4. Len(f[i - 1]) <= 4 * count(i - 1) + room(i - 1) + history(i - 1) BY <1>5
  <2> DEFINE t == CanonicalTags[i]
             s == Of(S, t)
  <2>5. CASE t \notin TagsOf(S)
    <3>1. Part(S, i) = Part(S, i - 1) BY <1>0, <2>1, <2>5, PartFacts
    <3>2. Coded(S, i) = << >> BY <1>0, <2>1, <2>5, CodedFacts
    <3>3. f[i] = f[i - 1] BY <2>2, <2>3, <3>2, ConcatEmptySeq
    <3> QED BY <2>1, <2>4, <3>1, <3>3
  <2>6. CASE t \in TagsOf(S)
    <3>1. /\ s \in S /\ s \in SourceRecord /\ s.tag = t /\ Coded(S, i) = EncodedRecord(s)
      BY <1>0, <2>1, <2>6, CodedFacts
    <3>2. Part(S, i) = Part(S, i - 1) \cup {s} /\ t \notin TagsOf(Part(S, i - 1))
      BY <1>0, <2>1, <2>6, PartFacts
    <3> DEFINE P == Part(S, i - 1)
               M == Part(S, i)
               extra == IF s.tag \in Physical THEN Len(s.bytes) ELSE 0
               most == IF s.tag \in Physical THEN 0 ELSE MaxLenFor(s.tag)
    <3>3. TagsOf(M) = TagsOf(P) \cup {t} /\ History(M) = History(P) + extra
      <4>1. /\ OneEach(P) /\ s \in SourceRecord /\ s.tag \notin TagsOf(P)
            /\ M = P \cup {s} /\ s.tag = t
        BY <1>3, <3>1, <3>2
      <4> HIDE DEF P, M, s, t
      <4> QED BY <4>1, OneMore
    <3>4. t \in Tags \ TagsOf(P) BY <3>1, <3>2, SourceFacts
    <3>5. count(i) = count(i - 1) + 1 /\ room(i) = room(i - 1) + MaxAlgoId + most
      BY <1>3, <3>1, <3>3, <3>4, RoomFacts
    <3>6. history(i) = history(i - 1) + extra BY <3>3
    <3>7. Len(s.algo) \in Nat /\ Len(s.bytes) \in Nat BY <3>1, SourceFacts
    <3>8. MaxAlgoId \in Nat /\ MaxLenFor(s.tag) \in Nat BY <3>1, <3>4, ConstantFacts
    <3>9. Valid(s) BY <3>1 DEF Consistent
    <3> DEFINE algo == Len(s.algo)
               bytes == Len(s.bytes)
               before == Len(f[i - 1])
               now == Len(f[i])
    <3>10. algo <= MaxAlgoId /\ bytes <= extra + most /\ extra \in Nat /\ most \in Nat
      <4>1. algo <= MaxAlgoId /\ bytes <= MaxLenFor(s.tag) BY <3>9 DEF Valid
      <4>2. s.tag \in Physical => extra = bytes /\ most = 0 OBVIOUS
      <4>3. s.tag \notin Physical => extra = 0 /\ most = MaxLenFor(s.tag) OBVIOUS
      <4>4. algo \in Nat /\ bytes \in Nat BY <3>7
      <4> HIDE DEF algo, bytes, extra, most
      <4> QED BY <4>1, <4>2, <4>3, <4>4, <3>8
    <3>11. now = before + (4 + algo + bytes) /\ before \in Nat
      <4>1. EncodedRecord(s) \in Seq(Byte) /\ Len(EncodedRecord(s)) = 4 + algo + bytes
        BY <3>1, EncodedFacts
      <4>2. f[i] = f[i - 1] \o EncodedRecord(s) BY <2>2, <3>1
      <4> HIDE DEF algo, bytes, s
      <4> QED BY <2>3, <4>1, <4>2, Joined, ZenonT(60)
    <3>12. algo \in Nat /\ bytes \in Nat BY <3>7
    <3>13. /\ count(i - 1) \in Nat /\ room(i - 1) \in Nat /\ history(i - 1) \in Nat
      BY <1>3
    <3>14. before <= 4 * count(i - 1) + room(i - 1) + history(i - 1) BY <2>4
    <3> DEFINE c0 == count(i - 1)
               c1 == count(i)
               r0 == room(i - 1)
               r1 == room(i)
               h0 == history(i - 1)
               h1 == history(i)
               l == MaxLenFor(s.tag)
    <3>15. now <= 4 * c1 + r1 + h1
      <4>1. /\ c1 = c0 + 1 /\ r1 = r0 + MaxAlgoId + most /\ h1 = h0 + extra
            /\ before <= 4 * c0 + r0 + h0
            /\ c0 \in Nat /\ r0 \in Nat /\ h0 \in Nat
        BY <3>5, <3>6, <3>13, <3>14
      <4> HIDE DEF c0, c1, r0, r1, h0, h1, algo, bytes, extra, most, now, before
      <4> QED BY <3>8, <3>10, <3>11, <3>12, <4>1
    <3> QED BY <2>1, <3>15 DEF now
  <2> QED BY <2>5, <2>6
<1> HIDE DEF T
<1>6. 0 .. N \subseteq T BY <1>1, <1>4, <1>5, CountUp
<1>7. N \in T BY <1>1, <1>6
<1> DEFINE l == Len(Body(S))
           all == Room(Tags)
<1>8. l <= 4 * count(N) + room(N) + history(N) BY <1>2, <1>7 DEF T
<1>9. history(N) <= MaxPhysicalEvents /\ MaxPhysicalEvents \in Nat
  BY <1>0, PartFacts, ConstantFacts DEF Consistent
<1>10. /\ count(N) \in Nat /\ count(N) <= N /\ room(N) \in Nat /\ room(N) <= all
       /\ history(N) \in Nat
  BY <1>3
<1>11. all \in Nat /\ l \in Nat
  BY <1>0, RoomFacts, BodyType, LenProperties
<1>12. N * RecordOverhead = 4 * N BY <1>1 DEF RecordOverhead
<1> SUFFICES l <= N * RecordOverhead + all + MaxPhysicalEvents OBVIOUS
<1> HIDE DEF count, room, history, l, all, N
<1> QED BY <1>1, <1>8, <1>9, <1>10, <1>11, <1>12, SMTT(60)

(* A cut, byte by byte. *)
LEMMA CutBytes ==
  ASSUME NEW w \in Seq(Byte), NEW l \in Nat, NEW k \in Nat, l + k <= Len(w)
  PROVE  /\ SubSeq(w, l + 1, l + k) \in Seq(Byte) /\ Len(SubSeq(w, l + 1, l + k)) = k
         /\ \A i \in 1 .. k : SubSeq(w, l + 1, l + k)[i] = w[l + i]
<1> DEFINE m == l + k
<1>1. m \in Nat /\ l <= m /\ m <= Len(w) /\ m - l = k OBVIOUS
<1> HIDE DEF m
<1>2. /\ SubSeq(w, l + 1, m) \in Seq(Byte) /\ Len(SubSeq(w, l + 1, m)) = m - l
      /\ \A i \in 1 .. m - l : SubSeq(w, l + 1, m)[i] = w[l + i]
  BY <1>1, CutFacts
<1>3. /\ SubSeq(w, l + 1, m) \in Seq(Byte) /\ Len(SubSeq(w, l + 1, m)) = k
      /\ \A i \in 1 .. k : SubSeq(w, l + 1, m)[i] = w[l + i]
  BY <1>1, <1>2
<1> QED BY <1>3 DEF m

(* A cut is what it is byte by byte.                                       *)
LEMMA CutSame ==
  ASSUME NEW w \in Seq(Byte), NEW l \in Nat, NEW k \in Nat, l + k <= Len(w),
         NEW v \in Seq(Byte), Len(v) = k
  PROVE  SubSeq(w, l + 1, l + k) = v <=> \A i \in 1 .. k : w[l + i] = v[i]
<1> DEFINE u == SubSeq(w, l + 1, l + k)
<1>1. u \in Seq(Byte) /\ Len(u) = k /\ \A i \in 1 .. k : u[i] = w[l + i]
  BY CutBytes
<1> HIDE DEF u
<1>2. u = v => \A i \in 1 .. k : w[l + i] = v[i] BY <1>1
<1>3. (\A i \in 1 .. k : w[l + i] = v[i]) => u = v
  <2> SUFFICES ASSUME \A i \in 1 .. k : w[l + i] = v[i] PROVE u = v
    OBVIOUS
  <2>1. Len(u) = Len(v) /\ \A i \in 1 .. Len(u) : u[i] = v[i] BY <1>1
  <2> QED BY ONLY <1>1, <2>1, v \in Seq(Byte), SeqEqual
<1> QED BY <1>2, <1>3 DEF u

(* The header, the domain before it and the body behind it.                *)
LEMMA Framed ==
  ASSUME NEW h \in Seq(Byte), Len(h) = 9, NEW body \in Seq(Byte),
         NEW w, w = (Domain \o h) \o body
  PROVE  /\ w \in Seq(Byte) /\ Len(w) = Len(Domain) + 9 + Len(body)
         /\ \A i \in 1 .. 9 : w[Len(Domain) + i] = h[i]
         /\ Cut(w, 0, Len(Domain)) = Domain
<1> DEFINE l == Len(Domain)
           n == Len(body)
<1>1. Domain \in Seq(Byte) BY ConstantFacts
<1>2. /\ w \in Seq(Byte)
      /\ Len(Domain) \in Nat /\ Len(body) \in Nat
      /\ Len(w) = Len(Domain) + Len(h) + Len(body)
      /\ SubSeq(w, Len(Domain) + 1, Len(Domain) + Len(h)) = h
      /\ \A off, k \in Nat : off + k <= Len(Domain) =>
            SubSeq(w, off + 1, off + k) = SubSeq(Domain, off + 1, off + k)
  <2> DEFINE p == Domain
  <2>1. p \in Seq(Byte) /\ h \in Seq(Byte) /\ body \in Seq(Byte) /\ w = (p \o h) \o body
    BY <1>1
  <2> SUFFICES
      /\ w \in Seq(Byte)
      /\ Len(p) \in Nat /\ Len(body) \in Nat
      /\ Len(w) = Len(p) + Len(h) + Len(body)
      /\ SubSeq(w, Len(p) + 1, Len(p) + Len(h)) = h
      /\ \A off, k \in Nat : off + k <= Len(p) =>
            SubSeq(w, off + 1, off + k) = SubSeq(p, off + 1, off + k)
    OBVIOUS
  <2> HIDE DEF p
  <2> QED BY ONLY <2>1, PutBehind
<1>3. l \in Nat /\ n \in Nat /\ Len(w) = l + 9 + n
  BY <1>2
<1>4. SubSeq(w, l + 1, l + 9) = h BY <1>2
<1>5. Cut(w, 0, l) = Domain
  <2>1. 0 \in Nat /\ 0 + l <= l BY <1>3
  <2>2. SubSeq(w, 0 + 1, 0 + l) = SubSeq(Domain, 0 + 1, 0 + l) BY <1>2, <1>3, <2>1, Zenon
  <2>3. 0 + 1 = 1 /\ 0 + l = l BY <1>3
  <2>4. SubSeq(Domain, 1, l) = Domain BY <1>1, SubSeqFull
  <2> QED BY <2>2, <2>3, <2>4 DEF Cut
<1> HIDE DEF l, n
<1>6. \A i \in 1 .. 9 : h[i] = w[l + i]
  <2>1. 9 \in Nat /\ l + 9 <= Len(w) BY <1>3
  <2> QED BY <1>2, <1>3, <1>4, <2>1, CutBytes
<1>7. \A i \in 1 .. 9 : w[l + i] = h[i] BY <1>6
<1> QED BY <1>2, <1>3, <1>5, <1>7 DEF l, n

(* A string that begins with the domain and the nine bytes of h is these,  *)
(* and the rest.                                                           *)
LEMMA Unframed ==
  ASSUME NEW w \in Seq(Byte), Len(Domain) + 9 <= Len(w), Cut(w, 0, Len(Domain)) = Domain,
         NEW h \in Seq(Byte), Len(h) = 9, \A i \in 1 .. 9 : w[Len(Domain) + i] = h[i]
  PROVE  w = (Domain \o h) \o SubSeq(w, Len(Domain) + 9 + 1, Len(w))
<1> DEFINE l == Len(Domain)
           m == l + 9
           n == Len(w)
<1>1. l \in Nat /\ n \in Nat /\ m \in Nat /\ l <= m /\ m <= n /\ l <= n /\ m - l = 9
  <2>1. l \in Nat /\ n \in Nat /\ l + 9 <= n BY ConstantFacts, LenProperties
  <2> HIDE DEF l, n
  <2> QED BY <2>1
<1>2. SubSeq(w, 0 + 1, l) = Domain
  <2>1. 0 + l = l BY <1>1
  <2> QED BY <2>1 DEF Cut
<1> SUFFICES w = (Domain \o h) \o SubSeq(w, m + 1, n)
  OBVIOUS
<1>3. \A i \in 1 .. 9 : w[l + i] = h[i] OBVIOUS
<1> HIDE DEF l, m, n
<1>4. SubSeq(w, l + 1, m) = h
  <2>1. w \in Seq(Byte) /\ l \in Nat /\ 9 \in Nat /\ l + 9 <= Len(w) /\ h \in Seq(Byte)
        /\ Len(h) = 9
    BY <1>1 DEF m, n
  <2>2. SubSeq(w, l + 1, l + 9) = h BY ONLY <1>3, <2>1, CutSame, ZenonT(60)
  <2> QED BY <2>2 DEF m
<1>5. SubSeq(w, 0 + 1, n) = SubSeq(w, 0 + 1, m) \o SubSeq(w, m + 1, n)
  <2>1. 0 \in Nat /\ 0 <= m /\ n <= Len(w) BY <1>1 DEF n
  <2> QED BY <1>1, <2>1, CutJoin, ZenonT(60)
<1>6. SubSeq(w, 0 + 1, m) = SubSeq(w, 0 + 1, l) \o SubSeq(w, l + 1, m)
  <2>1. 0 \in Nat /\ 0 <= l /\ m <= Len(w) BY <1>1 DEF n
  <2> QED BY <1>1, <2>1, CutJoin, ZenonT(60)
<1>7. SubSeq(w, 0 + 1, n) = w
  BY SubSeqFull DEF n
<1> QED BY <1>2, <1>4, <1>5, <1>6, <1>7

(* Whatever was accepted fits.                                             *)
LEMMA WireFits ==
  ASSUME NEW S, Consistent(S), NEW header,
         header.arch \in Int, header.bits \in Int, header.policy \in Int
  PROVE  /\ Wire(S, header) \in Seq(Byte)
         /\ Len(Wire(S, header)) <= TranscriptCapacity
<1> DEFINE h == EncodedHeader(header, Bitmap(TagsOf(S)), Cardinality(TagsOf(S)))
           n == Len(Body(S))
           l == Len(Domain)
           w == Wire(S, header)
           k == Len(Wire(S, header))
           r == Room(Tags)
           f == N * RecordOverhead
<1>0. OneEach(S) BY DEF Consistent
<1>1. h \in Seq(Byte) /\ Len(h) = 9
  <2>1. Bitmap(TagsOf(S)) \in Int 
    <3>1. Bitmap(TagsOf(S)) \in U16 BY BitmapType, ZenonT(60)
    <3>2. \A x \in U16 : x \in Int BY DEF U16
    <3> QED BY <3>1, <3>2, Zenon
  <2>2. Cardinality(TagsOf(S)) \in Byte BY <1>0, CountByte
  <2> DEFINE bitmap == Bitmap(TagsOf(S))
             count == Cardinality(TagsOf(S))
  <2>3. bitmap \in Int /\ count \in Byte /\ h = EncodedHeader(header, bitmap, count)
        /\ header.arch \in Int /\ header.bits \in Int /\ header.policy \in Int
    BY <2>1, <2>2
  <2> HIDE DEF bitmap, count, h
  <2> QED BY ONLY <2>3, HeaderBytes
<1>2. Body(S) \in Seq(Byte) /\ n \in Nat BY <1>0, BodyType, LenProperties
<1>3. w = (Domain \o h) \o Body(S) BY DEF Wire
<1>4. w \in Seq(Byte) /\ k = l + 9 + n
  <2> HIDE DEF w, h
  <2> QED BY <1>1, <1>2, <1>3, Framed, ZenonT(60) DEF w
<1>5. n <= f + r + MaxPhysicalEvents BY BodyLength
<1>6. l + 9 + f + r + MaxPhysicalEvents <= TranscriptCapacity
  BY RoomForAll DEF HeaderLen
<1>7. l \in Nat /\ r \in Nat /\ MaxPhysicalEvents \in Nat /\ TranscriptCapacity \in Nat
  BY ConstantFacts, RoomFacts
<1>8. f \in Nat
  <2>1. N \in Nat BY CountOfTags
  <2> QED BY <2>1 DEF RecordOverhead
<1> HIDE DEF n, l, k, r, f
<1>9. k <= TranscriptCapacity BY <1>2, <1>4, <1>5, <1>6, <1>7, <1>8
<1> QED BY <1>4, <1>9 DEF k

---------------------------------------------------------------------------
(* One record, written and read. *)

(* A string put behind another, by its places.                             *)
LEMMA Behind ==
  ASSUME NEW p \in Seq(Byte), NEW u \in Seq(Byte), NEW q, q = p \o u
  PROVE  /\ q \in Seq(Byte) /\ Len(p) \in Nat /\ Len(u) \in Nat /\ Len(q) = Len(p) + Len(u)
         /\ \A i \in 1 .. Len(p) : q[i] = p[i]
         /\ \A i \in 1 .. Len(u) : q[Len(p) + i] = u[i]
<1> DEFINE l == Len(p)
           k == Len(u)
<1>1. l \in Nat /\ k \in Nat BY LenProperties
<1>2. /\ q \in Seq(Byte) /\ Len(q) = l + k
      /\ \A i \in 1 .. l + k : q[i] = IF i <= l THEN p[i] ELSE u[i - l]
  BY ConcatProperties
<1> HIDE DEF l, k
<1>3. \A i \in 1 .. l : q[i] = p[i] BY <1>1, <1>2
<1>4. ASSUME NEW i \in 1 .. k PROVE q[l + i] = u[i]
  <2>1. l + i \in 1 .. l + k /\ ~(l + i <= l) /\ (l + i) - l = i BY <1>1
  <2> QED BY <1>2, <2>1
<1> QED BY <1>1, <1>2, <1>3, <1>4 DEF l, k

(* A record byte by byte.                                                  *)
LEMMA EncodedBytes ==
  ASSUME NEW s \in SourceRecord, Len(s.algo) \in Byte, Len(s.bytes) \in U16
  PROVE  /\ EncodedRecord(s) \in Seq(Byte)
         /\ Len(EncodedRecord(s)) = 4 + Len(s.algo) + Len(s.bytes)
         /\ EncodedRecord(s)[1] = s.tag /\ EncodedRecord(s)[2] = Len(s.algo)
         /\ \A i \in 1 .. Len(s.algo) : EncodedRecord(s)[2 + i] = s.algo[i]
         /\ << EncodedRecord(s)[3 + Len(s.algo)], EncodedRecord(s)[4 + Len(s.algo)] >>
              = Be16(Len(s.bytes))
         /\ \A i \in 1 .. Len(s.bytes) : EncodedRecord(s)[4 + Len(s.algo) + i] = s.bytes[i]
<1> DEFINE t == s.tag
           a == s.algo
           g == s.bytes
           al == Len(s.algo)
           bl == Len(s.bytes)
           e == EncodedRecord(s)
           x == AsU8(bl \div 256)
           y == AsU8(bl)
           p0 == << t, al >>
           p1 == p0 \o a
           p2 == p1 \o << x, y >>
<1>1. /\ t \in Byte /\ a \in Seq(Byte) /\ g \in Seq(Byte) /\ al \in Nat /\ bl \in Nat
      /\ Len(a) = al /\ Len(g) = bl
  BY SourceFacts
<1>2. al \in Byte /\ bl \in U16 /\ AsU8(al) = al BY WidthFacts
<1>3. x \in Byte /\ y \in Byte
  <2>1. bl \in Int /\ bl \div 256 \in Int BY <1>1
  <2> QED BY <2>1, WidthFacts
<1>4. e = p2 \o g /\ Be16(bl) = << x, y >> BY <1>2 DEF EncodedRecord, Be16
<1>5. p0 \in Seq(Byte) /\ Len(p0) = 2 /\ p0[1] = t /\ p0[2] = al BY <1>1, <1>2
<1>6. p1 = p0 \o a /\ p2 = p1 \o << x, y >> OBVIOUS
<1> SUFFICES /\ e \in Seq(Byte) /\ Len(e) = 4 + al + bl
             /\ e[1] = t /\ e[2] = al
             /\ \A i \in 1 .. al : e[2 + i] = a[i]
             /\ e[3 + al] = x /\ e[4 + al] = y
             /\ \A i \in 1 .. bl : e[4 + al + i] = g[i]
  BY <1>1, <1>4
<1> HIDE DEF t, a, g, al, bl, e, x, y, p0, p1, p2
<1>7. /\ p1 \in Seq(Byte) /\ Len(p1) = 2 + al
      /\ p1[1] = t /\ p1[2] = al /\ \A i \in 1 .. al : p1[2 + i] = a[i]
  <2>1. /\ p1 \in Seq(Byte) /\ Len(p1) = Len(p0) + Len(a)
        /\ \A i \in 1 .. Len(p0) : p1[i] = p0[i]
        /\ \A i \in 1 .. Len(a) : p1[Len(p0) + i] = a[i]
    <3>1. p0 \in Seq(Byte) /\ a \in Seq(Byte) /\ p1 = p0 \o a BY <1>1, <1>5, <1>6
    <3> QED BY ONLY <3>1, Behind
  <2>2. /\ Len(p1) = 2 + al /\ \A i \in 1 .. 2 : p1[i] = p0[i]
        /\ \A i \in 1 .. al : p1[2 + i] = a[i]
    BY ONLY <1>1, <1>5, <2>1
  <2> QED BY <1>5, <2>1, <2>2
<1> DEFINE n == 2 + al
<1>8. /\ p2 \in Seq(Byte) /\ Len(p2) = n + 2
      /\ \A i \in 1 .. n : p2[i] = p1[i]
      /\ p2[n + 1] = x /\ p2[n + 2] = y
  <2>1. p1 \in Seq(Byte) /\ x \in Byte /\ y \in Byte /\ p2 = p1 \o << x, y >>
    BY <1>3, <1>6, <1>7
  <2>2. /\ p2 \in Seq(Byte) /\ Len(p2) = Len(p1) + 2
        /\ \A i \in 1 .. Len(p1) : p2[i] = p1[i]
        /\ p2[Len(p1) + 1] = x /\ p2[Len(p1) + 2] = y
    BY ONLY <2>1, PairBehind
  <2>3. Len(p1) = n BY <1>7
  <2> HIDE DEF n
  <2> QED BY <2>2, <2>3
<1>9. /\ e \in Seq(Byte) /\ Len(e) = (n + 2) + bl
      /\ \A i \in 1 .. n + 2 : e[i] = p2[i]
      /\ \A j \in 1 .. bl : e[(n + 2) + j] = g[j]
  <2>1. /\ e \in Seq(Byte) /\ Len(e) = Len(p2) + Len(g)
        /\ \A i \in 1 .. Len(p2) : e[i] = p2[i]
        /\ \A j \in 1 .. Len(g) : e[Len(p2) + j] = g[j]
    <3>1. p2 \in Seq(Byte) /\ g \in Seq(Byte) /\ e = p2 \o g BY <1>1, <1>4, <1>8
    <3> QED BY ONLY <3>1, Behind
  <2> HIDE DEF n
  <2> QED BY <1>1, <1>8, <2>1
<1>10. n = 2 + al /\ n + 2 = 4 + al /\ n + 1 = 3 + al BY <1>1
<1>11. e[3 + al] = x /\ e[4 + al] = y
  <2>1. n + 1 \in 1 .. n + 2 /\ n + 2 \in 1 .. n + 2 /\ 1 \in 1 .. n BY <1>1
  <2> HIDE DEF n
  <2> QED BY <1>8, <1>9, <1>10, <2>1
<1>12. e[1] = t /\ e[2] = al /\ \A i \in 1 .. al : e[2 + i] = a[i]
  <2>1. \A i \in 1 .. n : i \in 1 .. n + 2 BY <1>1
  <2>2. \A i \in 1 .. n : e[i] = p1[i] BY <1>8, <1>9, <2>1
  <2>3. 1 \in 1 .. n /\ 2 \in 1 .. n /\ \A i \in 1 .. al : 2 + i \in 1 .. n BY <1>1
  <2> HIDE DEF n
  <2> QED BY <1>7, <2>2, <2>3
<1>13. Len(e) = 4 + al + bl /\ \A i \in 1 .. bl : e[4 + al + i] = g[i]
  <2>1. 1 \in 1 .. n + 2 BY <1>1
  <2> HIDE DEF n
  <2> QED BY <1>9, <1>10, <2>1
<1> QED BY <1>9, <1>11, <1>12, <1>13, <1>1

(* w has, from off on, what a record of s says. *)
RecordAt(w, off, s) ==
  /\ off + 4 + Len(s.algo) + Len(s.bytes) <= Len(w)
  /\ w[off + 1] = s.tag /\ w[off + 2] = Len(s.algo)
  /\ Cut(w, off + 2, Len(s.algo)) = s.algo
  /\ FromBe16(w, off + 2 + Len(s.algo) + 1) = Len(s.bytes)
  /\ Cut(w, off + 2 + Len(s.algo) + 2, Len(s.bytes)) = s.bytes

(* What stands in a string of bytes is a byte.                             *)
LEMMA ByteAt ==
  ASSUME NEW w \in Seq(Byte), NEW i \in Nat, 1 <= i, i <= Len(w)
  PROVE  w[i] \in Byte /\ w[i] \in Nat
<1>1. i \in 1 .. Len(w) BY LenProperties
<1>2. w[i] \in Byte BY <1>1, ElementOfSeq
<1>3. \A x \in Byte : x \in Nat BY DEF Byte
<1> QED BY <1>2, <1>3, Zenon

(* The bytes from off on are the record of s just when its fields are read *)
(* there.                                                                  *)
LEMMA RecordEncoded ==
  ASSUME NEW w \in Seq(Byte), NEW off \in Nat, NEW s \in SourceRecord,
         Len(s.algo) \in Byte, Len(s.bytes) \in U16, NEW e, e = EncodedRecord(s)
  PROVE  off + Len(e) <= Len(w) /\ SubSeq(w, off + 1, off + Len(e)) = e
           <=> RecordAt(w, off, s)
<1> DEFINE al == Len(s.algo)
           bl == Len(s.bytes)
           a == s.algo
           g == s.bytes
           n == 4 + al + bl
           pos == off + 2
           on == off + 2 + al + 2
<1>1. /\ a \in Seq(Byte) /\ g \in Seq(Byte) /\ al \in Nat /\ bl \in Nat
      /\ Len(a) = al /\ Len(g) = bl
  BY SourceFacts
<1>2. /\ e \in Seq(Byte) /\ Len(e) = n
      /\ e[1] = s.tag /\ e[2] = al
      /\ \A i \in 1 .. al : e[2 + i] = a[i]
      /\ << e[3 + al], e[4 + al] >> = Be16(bl)
      /\ \A i \in 1 .. bl : e[4 + al + i] = g[i]
  BY EncodedBytes
<1>3. /\ n \in Nat /\ pos \in Nat /\ on \in Nat /\ Len(w) \in Nat
      /\ pos + al <= off + n /\ on + bl = off + n /\ pos = off + 2 /\ on = off + 4 + al
      /\ off + 4 + al + bl = off + n
  <2>1. Len(w) \in Nat /\ al \in Nat /\ bl \in Nat BY <1>1, LenProperties
  <2> HIDE DEF al, bl
  <2> QED BY <2>1
<1>4. RecordAt(w, off, s) <=>
        /\ off + n <= Len(w)
        /\ w[off + 1] = s.tag /\ w[off + 2] = al
        /\ SubSeq(w, pos + 1, pos + al) = a
        /\ w[on - 1] * 256 + w[on] = bl
        /\ SubSeq(w, on + 1, on + bl) = g
  <2>1. off + 2 + al + 1 = on - 1 /\ off + 2 + al + 1 + 1 = on BY <1>1
  <2> QED BY <1>3, <2>1 DEF RecordAt, Cut, FromBe16
<1> SUFFICES ASSUME off + n <= Len(w)
             PROVE  SubSeq(w, off + 1, off + n) = e <=> RecordAt(w, off, s)
  BY <1>2, <1>4
<1> HIDE DEF al, bl, a, g, n, pos, on
<1>5. SubSeq(w, off + 1, off + n) = e <=> \A i \in 1 .. n : w[off + i] = e[i]
  <2>1. w \in Seq(Byte) /\ off \in Nat /\ n \in Nat /\ off + n <= Len(w)
        /\ e \in Seq(Byte) /\ Len(e) = n
    BY <1>2, <1>3
  <2> QED BY ONLY <2>1, CutSame
<1>6. SubSeq(w, pos + 1, pos + al) = a <=> \A i \in 1 .. al : w[pos + i] = a[i]
  <2>1. w \in Seq(Byte) /\ pos \in Nat /\ al \in Nat /\ pos + al <= Len(w)
        /\ a \in Seq(Byte) /\ Len(a) = al
    BY <1>1, <1>3
  <2> QED BY ONLY <2>1, CutSame, SMTT(60)
<1>7. SubSeq(w, on + 1, on + bl) = g <=> \A i \in 1 .. bl : w[on + i] = g[i]
  <2>1. w \in Seq(Byte) /\ on \in Nat /\ bl \in Nat /\ on + bl <= Len(w)
        /\ g \in Seq(Byte) /\ Len(g) = bl
    BY <1>1, <1>3
  <2> QED BY ONLY <2>1, CutSame, SMTT(60)
<1>8. w[on - 1] * 256 + w[on] = bl <=> w[on - 1] = e[3 + al] /\ w[on] = e[4 + al]
  <2>1. w[on - 1] \in Byte /\ w[on] \in Byte
    <3>1. on - 1 \in Nat /\ 1 <= on - 1 /\ on - 1 <= Len(w) /\ 1 <= on /\ on <= Len(w)
      BY <1>1, <1>3
    <3> QED BY <1>3, <3>1, ByteAt
  <2>2. bl \in U16 BY DEF bl
  <2>3. Be16(bl)[1] * 256 + Be16(bl)[2] = bl BY <2>2, Be16Facts
  <2>4. Be16(w[on - 1] * 256 + w[on]) = << w[on - 1], w[on] >> BY <2>1, Be16Facts
  <2>5. Be16(bl)[1] = e[3 + al] /\ Be16(bl)[2] = e[4 + al] BY <1>2
  <2>6. w[on - 1] * 256 + w[on] = bl => w[on - 1] = e[3 + al] /\ w[on] = e[4 + al]
    BY <1>2, <2>4
  <2> QED BY <2>3, <2>5, <2>6
<1>9. ASSUME \A i \in 1 .. n : w[off + i] = e[i]
      PROVE  RecordAt(w, off, s)
  <2>1. 1 \in 1 .. n /\ 2 \in 1 .. n /\ 3 + al \in 1 .. n /\ 4 + al \in 1 .. n
    BY <1>1 DEF n
  <2>2. w[off + 1] = s.tag /\ w[off + 2] = al BY <1>2, <1>9, <2>1
  <2>3. off + (3 + al) = on - 1 /\ off + (4 + al) = on BY <1>1, <1>3
  <2>4. w[on - 1] = e[3 + al] /\ w[on] = e[4 + al] BY <1>9, <2>1, <2>3
  <2>5. ASSUME NEW i \in 1 .. al PROVE w[pos + i] = a[i]
    <3>1. 2 + i \in 1 .. n /\ off + (2 + i) = pos + i BY <1>1, <1>3 DEF n
    <3> QED BY <1>2, <1>9, <3>1
  <2>6. ASSUME NEW i \in 1 .. bl PROVE w[on + i] = g[i]
    <3>1. 4 + al + i \in 1 .. n /\ off + (4 + al + i) = on + i BY <1>1, <1>3 DEF n
    <3> QED BY <1>2, <1>9, <3>1
  <2> QED BY <1>4, <1>6, <1>7, <1>8, <2>2, <2>4, <2>5, <2>6
<1>10. ASSUME RecordAt(w, off, s), NEW i \in 1 .. n
       PROVE  w[off + i] = e[i]
  <2>1. /\ w[off + 1] = s.tag /\ w[off + 2] = al
        /\ \A j \in 1 .. al : w[pos + j] = a[j]
        /\ w[on - 1] = e[3 + al] /\ w[on] = e[4 + al]
        /\ \A j \in 1 .. bl : w[on + j] = g[j]
    BY <1>4, <1>6, <1>7, <1>8, <1>10
  <2>2. \/ i = 1 \/ i = 2 \/ i = 3 + al \/ i = 4 + al
        \/ i - 2 \in 1 .. al \/ i - 4 - al \in 1 .. bl
    BY <1>1 DEF n
  <2>3. i \in Int BY <1>1, <1>3
  <2>4. CASE i = 1 \/ i = 2 BY <1>2, <2>1, <2>4
  <2>5. CASE i = 3 + al
    <3>1. off + i = on - 1 BY <1>1, <1>3, <2>5
    <3> QED BY <2>1, <2>5, <3>1
  <2>6. CASE i = 4 + al
    <3>1. off + i = on BY <1>1, <1>3, <2>6
    <3> QED BY <2>1, <2>6, <3>1
  <2>7. CASE i - 2 \in 1 .. al
    <3> DEFINE j == i - 2
    <3>1. off + i = pos + j /\ i = 2 + j BY <1>1, <1>3, <2>3
    <3>2. j \in 1 .. al BY <2>7
    <3> HIDE DEF j
    <3> QED BY <1>2, <2>1, <3>1, <3>2
  <2>8. CASE i - 4 - al \in 1 .. bl
    <3> DEFINE j == i - 4 - al
    <3>1. off + i = on + j /\ i = 4 + al + j BY <1>1, <1>3, <2>3
    <3>2. j \in 1 .. bl BY <2>8
    <3> HIDE DEF j
    <3> QED BY <1>2, <2>1, <3>1, <3>2
  <2> QED BY <2>2, <2>4, <2>5, <2>6, <2>7, <2>8
<1> QED BY <1>5, <1>9, <1>10

DecodeState ==
  [off : Nat, last : Int, physical : Nat, records : Seq(SourceRecord), error : {"none"}]

(* What one round makes of d when it finds s. *)
Taken(d, s) ==
  [off |-> d.off + 2 + Len(s.algo) + 2 + Len(s.bytes), last |-> s.tag,
   physical |-> IF s.tag \in Physical THEN d.physical + Len(s.bytes) ELSE d.physical,
   records |-> Append(d.records, s), error |-> "none"]

(* s may follow in d. *)
MayFollow(d, s) ==
  /\ s \in SourceRecord /\ Valid(s) /\ s.tag > d.last
  /\ s.tag \in Physical => d.physical + Len(s.bytes) <= MaxPhysicalEvents

(* A round keeps to the types.                                             *)
LEMMA TakenType ==
  ASSUME NEW d \in DecodeState, NEW s \in SourceRecord
  PROVE  Taken(d, s) \in DecodeState
<1>1. /\ d.off \in Nat /\ d.physical \in Nat /\ d.records \in Seq(SourceRecord)
      /\ s.tag \in Int /\ Len(s.algo) \in Nat /\ Len(s.bytes) \in Nat
  BY SourceFacts DEF DecodeState
<1>2. Append(d.records, s) \in Seq(SourceRecord) BY <1>1, AppendProperties
<1>3. \A x, y, z \in Nat : x + 2 + y + 2 + z \in Nat /\ x + z \in Nat OBVIOUS
<1>4. d.off + 2 + Len(s.algo) + 2 + Len(s.bytes) \in Nat BY <1>1, <1>3, Zenon
<1>5. d.physical + Len(s.bytes) \in Nat BY <1>1, <1>3, Zenon
<1>6. (IF s.tag \in Physical THEN d.physical + Len(s.bytes) ELSE d.physical) \in Nat
  BY <1>1, <1>5
<1>7. s.tag \in Int /\ "none" \in {"none"} BY <1>1
<1> QED BY <1>2, <1>4, <1>5, <1>6, <1>7, Zenon DEF DecodeState, Taken

(* A round finds what is there. *)
LEMMA Finds ==
  ASSUME NEW w \in Seq(Byte), NEW d \in DecodeState, NEW s, MayFollow(d, s), RecordAt(w, d.off, s)
  PROVE  DecodeRecord(w, d) = Taken(d, s)
<1> DEFINE off == d.off
           al == Len(s.algo)
           bl == Len(s.bytes)
           pos == off + 2 + al
           total == IF s.tag \in Physical THEN d.physical + bl ELSE d.physical
<1>1. s \in SourceRecord /\ Valid(s) /\ s.tag > d.last BY DEF MayFollow
<1>2. /\ off \in Nat /\ d.physical \in Nat /\ d.last \in Int
      /\ d = [off |-> d.off, last |-> d.last, physical |-> d.physical, records |-> d.records,
              error |-> d.error]
  BY DEF DecodeState
<1>3. s.tag \in Tags /\ s.tag \in Int /\ al \in Nat /\ bl \in Nat
      /\ s = [tag |-> s.tag, algo |-> s.algo, bytes |-> s.bytes]
  BY <1>1, SourceFacts
<1>4. Len(w) \in Nat BY LenProperties
<1>5. /\ off + 4 + al + bl <= Len(w)
      /\ w[off + 1] = s.tag /\ w[off + 2] = al
      /\ Cut(w, off + 2, al) = s.algo
      /\ FromBe16(w, pos + 1) = bl
      /\ Cut(w, pos + 2, bl) = s.bytes
  BY DEF RecordAt
<1>6. /\ al <= MaxAlgoId /\ bl <= MaxLenFor(s.tag) /\ ContentError(s.tag, s.bytes) = "none"
      /\ s.tag \in Physical => total <= MaxPhysicalEvents
  BY <1>1 DEF Valid, MayFollow
<1>7. MaxAlgoId \in Nat /\ MaxLenFor(s.tag) \in Nat /\ MaxPhysicalEvents \in Nat
  BY <1>3, ConstantFacts
<1>8. total \in Nat
  <2> HIDE DEF bl
  <2> QED BY <1>2, <1>3
<1>9. DecodeRecord(w, d) =
        IF ~(off + 1 <= Len(w)) THEN Failed(d, "Truncated")
        ELSE IF s.tag \notin Tags THEN Failed(d, "UnknownTag")
        ELSE IF s.tag = d.last THEN Failed(d, "DuplicateTag")
        ELSE IF s.tag < d.last THEN Failed(d, "OutOfCanonicalOrder")
        ELSE IF ~(off + 2 <= Len(w)) THEN Failed(d, "Truncated")
        ELSE IF al > MaxAlgoId THEN Failed(d, "AlgoIdTooLong")
        ELSE IF ~(off + (2 + al) <= Len(w)) \/ ~(off + (4 + al) <= Len(w))
          THEN Failed(d, "Truncated")
        ELSE IF bl > MaxLenFor(s.tag) THEN Failed(d, "SourceTooLong")
        ELSE IF s.tag \in Physical /\ total > MaxPhysicalEvents THEN Failed(d, "SourceTooLong")
        ELSE IF ~(off + (4 + al + bl) <= Len(w)) THEN Failed(d, "Truncated")
        ELSE IF ContentError(s.tag, s.bytes) # "none" THEN Failed(d, ContentError(s.tag, s.bytes))
        ELSE [off |-> pos + 2 + bl, last |-> s.tag, physical |-> total,
              records |-> Append(d.records,
                                 [tag |-> s.tag, algo |-> s.algo, bytes |-> s.bytes]),
              error |-> "none"]
  BY <1>5, Zenon DEF DecodeRecord
<1>10. [off |-> pos + 2 + bl, last |-> s.tag, physical |-> total,
        records |-> Append(d.records, [tag |-> s.tag, algo |-> s.algo, bytes |-> s.bytes]),
        error |-> "none"] = Taken(d, s)
  BY <1>3 DEF Taken
<1> DEFINE len == Len(w)
<1>11. /\ off + 1 <= len /\ off + 2 <= len /\ off + (2 + al) <= len /\ off + (4 + al) <= len
       /\ off + (4 + al + bl) <= len
  <2>1. off + 4 + al + bl <= len /\ len \in Nat BY <1>4, <1>5
  <2> HIDE DEF off, al, bl, len
  <2> QED BY <1>2, <1>3, <2>1, SMTT(60)
<1>12. ~(s.tag = d.last) /\ ~(s.tag < d.last) BY <1>1, <1>2, <1>3
<1>13. ~(al > MaxAlgoId) /\ ~(bl > MaxLenFor(s.tag))
       /\ ~(s.tag \in Physical /\ total > MaxPhysicalEvents)
  <2>1. \A x, y \in Int : x <= y => ~(x > y) OBVIOUS
  <2> HIDE DEF al, bl, total
  <2> QED BY <1>3, <1>6, <1>7, <1>8, <2>1
<1> DEFINE t == s.tag
           c == ContentError(s.tag, s.bytes)
           new == [off |-> pos + 2 + bl, last |-> s.tag, physical |-> total,
                   records |-> Append(d.records,
                                      [tag |-> s.tag, algo |-> s.algo, bytes |-> s.bytes]),
                   error |-> "none"]
<1>14. c = "none" /\ s.tag \in Tags BY <1>3, <1>6
<1> HIDE DEF new, pos, total, off, al, bl, len, c
<1>15. DecodeRecord(w, d) = new
  BY ONLY <1>9, <1>11, <1>12, <1>13, <1>14, SMT DEF len, c, new
<1> QED BY <1>10, <1>15 DEF new

(* A round that ends without an error has found a record, and taken it.    *)
LEMMA Found ==
  ASSUME NEW w \in Seq(Byte), NEW d \in DecodeState, DecodeRecord(w, d).error = "none"
  PROVE  \E s : MayFollow(d, s) /\ RecordAt(w, d.off, s) /\ DecodeRecord(w, d) = Taken(d, s)
<1> DEFINE off == d.off
           tag == w[off + 1]
           al == w[off + 2]
           pos == off + 2 + al
           bl == FromBe16(w, pos + 1)
           total == IF tag \in Physical THEN d.physical + bl ELSE d.physical
           algo == Cut(w, off + 2, al)
           data == Cut(w, pos + 2, bl)
           len == Len(w)
           r == DecodeRecord(w, d)
           s == [tag |-> tag, algo |-> algo, bytes |-> data]
<1>1. /\ off \in Nat /\ d.physical \in Nat /\ d.last \in Int /\ len \in Nat
      /\ d = [off |-> d.off, last |-> d.last, physical |-> d.physical, records |-> d.records,
              error |-> d.error]
  BY LenProperties DEF DecodeState
<1>2. \A x : Failed(d, x).error = x BY <1>1 DEF Failed
<1>3. r =
        IF ~(off + 1 <= len) THEN Failed(d, "Truncated")
        ELSE IF tag \notin Tags THEN Failed(d, "UnknownTag")
        ELSE IF tag = d.last THEN Failed(d, "DuplicateTag")
        ELSE IF tag < d.last THEN Failed(d, "OutOfCanonicalOrder")
        ELSE IF ~(off + 2 <= len) THEN Failed(d, "Truncated")
        ELSE IF al > MaxAlgoId THEN Failed(d, "AlgoIdTooLong")
        ELSE IF ~(off + (2 + al) <= len) \/ ~(off + (4 + al) <= len) THEN Failed(d, "Truncated")
        ELSE IF bl > MaxLenFor(tag) THEN Failed(d, "SourceTooLong")
        ELSE IF tag \in Physical /\ total > MaxPhysicalEvents THEN Failed(d, "SourceTooLong")
        ELSE IF ~(off + (4 + al + bl) <= len) THEN Failed(d, "Truncated")
        ELSE IF ContentError(tag, data) # "none" THEN Failed(d, ContentError(tag, data))
        ELSE [off |-> pos + 2 + bl, last |-> tag, physical |-> total,
              records |-> Append(d.records, [tag |-> tag, algo |-> algo, bytes |-> data]),
              error |-> "none"]
  BY Zenon DEF DecodeRecord
<1>4. r.error = "none" OBVIOUS
<1> HIDE DEF r
<1>5. /\ off + 1 <= len /\ tag \in Tags /\ ~(tag = d.last) /\ ~(tag < d.last) /\ off + 2 <= len
      /\ ~(al > MaxAlgoId) /\ off + (2 + al) <= len /\ off + (4 + al) <= len
      /\ ~(bl > MaxLenFor(tag)) /\ ~(tag \in Physical /\ total > MaxPhysicalEvents)
      /\ off + (4 + al + bl) <= len /\ ContentError(tag, data) = "none"
      /\ r = [off |-> pos + 2 + bl, last |-> tag, physical |-> total,
              records |-> Append(d.records, [tag |-> tag, algo |-> algo, bytes |-> data]),
              error |-> "none"]
  <2> HIDE DEF off, tag, al, pos, bl, total, algo, data, len
  <2> QED BY <1>2, <1>3, <1>4
<1>6. tag \in Int /\ al \in Nat
  <2>1. 1 <= off + 2 /\ off + 2 \in Nat BY <1>1
  <2>2. w[off + 2] \in Nat BY <1>5, <2>1, ByteAt
  <2>3. \A t \in Tags : t \in Int BY TagFacts DEF Byte
  <2>4. tag \in Int BY <1>5, <2>3, Zenon
  <2> QED BY <2>2, <2>4
<1>7. bl \in Nat
  <2> HIDE DEF al
  <2>1. pos + 1 \in Nat /\ pos + 1 + 1 \in Nat /\ 1 <= pos + 1 /\ 1 <= pos + 1 + 1
        /\ pos + 1 <= len /\ pos + 1 + 1 <= len
    <3>1. off \in Nat /\ len \in Nat /\ off + (4 + al) <= len BY <1>1, <1>5
    <3>2. pos = off + 2 + al OBVIOUS
    <3> HIDE DEF off, al, pos, len
    <3> QED BY ONLY <1>6, <3>1, <3>2
  <2>2. w[pos + 1] \in Byte /\ w[pos + 1 + 1] \in Byte BY <2>1, ByteAt
  <2>3. \A x, y \in Byte : x * 256 + y \in Nat BY DEF Byte
  <2>4. w[pos + 1] * 256 + w[pos + 1 + 1] \in Nat BY <2>2, <2>3, ZenonT(60)
  <2> QED BY <2>4 DEF FromBe16
<1>8. algo \in Seq(Byte) /\ Len(algo) = al /\ data \in Seq(Byte) /\ Len(data) = bl
  <2> HIDE DEF off, al, bl, len
  <2>1. off + 2 \in Nat /\ off + 2 + al <= len /\ pos + 2 \in Nat /\ pos + 2 + bl <= len
    <3>1. off + (4 + al + bl) <= len BY <1>5
    <3>2. off \in Nat /\ len \in Nat BY <1>1
    <3>3. pos = off + 2 + al OBVIOUS
    <3> HIDE DEF pos
    <3> QED BY ONLY <1>6, <1>7, <3>1, <3>2, <3>3
  <2> DEFINE x == off + 2
             y == pos + 2
  <2>2. x \in Nat /\ x + al <= Len(w) /\ y \in Nat /\ y + bl <= Len(w) BY <2>1 DEF len
  <2>3. algo = SubSeq(w, x + 1, x + al) /\ data = SubSeq(w, y + 1, y + bl) BY DEF Cut
  <2> HIDE DEF x, y, algo, data
  <2> QED BY <1>6, <1>7, <2>2, <2>3, CutBytes
<1>9. s.tag = tag /\ s.algo = algo /\ s.bytes = data OBVIOUS
<1>10. s \in SourceRecord BY <1>5, <1>8 DEF SourceRecord
<1>11. MaxAlgoId \in Nat /\ MaxLenFor(tag) \in Nat /\ MaxPhysicalEvents \in Nat
  BY <1>5, ConstantFacts
<1>12. al <= MaxAlgoId /\ bl <= MaxLenFor(tag) /\ tag > d.last
       /\ (tag \in Physical => d.physical + bl <= MaxPhysicalEvents)
  <2> DEFINE m == MaxLenFor(tag)
             last == d.last
             physical == d.physical
  <2>1. tag \in Physical => total = physical + bl OBVIOUS
  <2>2. /\ ~(tag = last) /\ ~(tag < last) /\ ~(al > MaxAlgoId) /\ ~(bl > m)
        /\ ~(tag \in Physical /\ total > MaxPhysicalEvents)
    BY <1>5
  <2>3. last \in Int /\ physical \in Nat /\ m \in Nat /\ MaxAlgoId \in Nat
        /\ MaxPhysicalEvents \in Nat
    BY <1>1, <1>11
  <2> HIDE DEF off, tag, al, bl, total, m, last, physical
  <2>4. /\ al <= MaxAlgoId /\ bl <= m /\ tag > last
        /\ tag \in Physical => physical + bl <= MaxPhysicalEvents
    BY ONLY <1>6, <1>7, <2>1, <2>2, <2>3
  <2> QED BY <2>4 DEF m, last, physical
<1>13. off + 4 + al + bl <= Len(w)
  <2>1. off + (4 + al + bl) <= len BY <1>5
  <2> HIDE DEF off, al, bl, len
  <2>2. off + 4 + al + bl <= len BY <1>1, <1>6, <1>7, <2>1
  <2> QED BY <2>2 DEF len
<1>14. MayFollow(d, s)
  <2> HIDE DEF s, tag, algo, data, al, bl
  <2> QED BY <1>5, <1>8, <1>9, <1>10, <1>12 DEF MayFollow, Valid
<1>15. RecordAt(w, off, s)
  <2>1. w[off + 1] = tag /\ w[off + 2] = al /\ Cut(w, off + 2, al) = algo
        /\ FromBe16(w, off + 2 + al + 1) = bl /\ Cut(w, off + 2 + al + 2, bl) = data
    OBVIOUS
  <2> HIDE DEF off, s, tag, algo, data, al, bl
  <2> QED BY <1>8, <1>9, <1>13, <2>1 DEF RecordAt
<1>16. r = Taken(d, s)
  <2>1. pos = off + 2 + al /\ s = [tag |-> tag, algo |-> algo, bytes |-> data]
        /\ total = IF tag \in Physical THEN d.physical + bl ELSE d.physical
    OBVIOUS
  <2> DEFINE x == pos + 2 + bl
  <2>2. x = off + 2 + al + 2 + bl OBVIOUS
  <2> HIDE DEF s, tag, algo, data, al, bl, pos, total, x
  <2>3. Taken(d, s) = [off |-> x, last |-> tag, physical |-> total,
                       records |-> Append(d.records, s), error |-> "none"]
    BY <1>8, <1>9, <2>1, <2>2, Zenon DEF Taken
  <2>4. [off |-> x, last |-> tag, physical |-> total, records |-> Append(d.records, s),
         error |-> "none"] = r
    BY <1>5, <2>1 DEF x
  <2> QED BY <2>3, <2>4
<1> QED BY <1>14, <1>15, <1>16 DEF r

---------------------------------------------------------------------------
(* Where the decoder stands when it has read the sources of S, and         *)
(* nothing else.                                                           *)
Stands(w, d, S) ==
  /\ d \in DecodeState /\ Consistent(S)
  /\ InOrder(d.records, S) /\ Len(d.records) = Cardinality(TagsOf(S))
  /\ d.physical = History(S) /\ d.last \in {-1} \cup TagsOf(S)
  /\ \A s \in S : s.tag <= d.last
  /\ d.off = Len(Domain) + 9 + Len(Body(S)) /\ d.off <= Len(w)
  /\ SubSeq(w, Len(Domain) + 9 + 1, d.off) = Body(S)

(* Before the first record, nothing has been read.                         *)
LEMMA NothingStands ==
  ASSUME NEW w \in Seq(Byte), Len(Domain) + 9 <= Len(w)
  PROVE  Stands(w, NothingDecoded, {})
<1> DEFINE off == Len(Domain) + 9
<1>1. off \in Nat /\ off <= Len(w) BY ConstantFacts
<1>2. NothingDecoded = [off |-> off, last |-> -1, physical |-> 0, records |-> << >>,
                        error |-> "none"]
  BY DEF NothingDecoded, HeaderLen
<1>3. << >> \in Seq(SourceRecord) /\ Len(<< >>) = 0 /\ DOMAIN << >> = {} OBVIOUS
<1>4. NothingDecoded \in DecodeState
  <2>1. -1 \in Int /\ 0 \in Nat OBVIOUS
  <2> HIDE DEF off
  <2> QED BY <1>1, <1>2, <1>3, <2>1 DEF DecodeState
<1>5. Consistent({}) /\ TagsOf({}) = {} /\ History({}) = 0 BY NoSource
<1>6. InOrder(<< >>, {}) BY <1>3 DEF InOrder, Range
<1>7. Len(<< >>) = Cardinality(TagsOf({})) BY <1>3, <1>5, FS_EmptySet
<1>8. Body({}) = << >>
  <2> DEFINE ss == [i \in 1 .. N |-> Coded({}, i)]
  <2>1. OneEach({}) /\ N \in Nat BY <1>5, CountOfTags DEF Consistent
  <2>2. PICK f \in [0 .. N -> Seq(Byte)] :
           /\ f[0] = << >> /\ f[N] = Body({})
           /\ \A i \in 1 .. N : f[i] = f[i - 1] \o Coded({}, i)
    BY <2>1, BodyGrows
  <2>3. \A i \in 1 .. N : Coded({}, i) = << >> BY <1>5 DEF Coded
  <2> DEFINE T == {i \in 0 .. N : f[i] = << >>}
  <2>4. 0 \in T BY <2>1, <2>2
  <2>5. ASSUME NEW i \in (0 + 1) .. N, i - 1 \in T PROVE i \in T
    <3>1. i \in 1 .. N /\ f[i - 1] = << >> BY <2>1, <2>5
    <3>2. f[i] = << >> \o << >> BY <2>2, <2>3, <3>1
    <3> QED BY <2>1, <3>1, <3>2
  <2> HIDE DEF T
  <2>6. 0 .. N \subseteq T BY <2>1, <2>4, <2>5, CountUp
  <2>7. N \in T BY <2>1, <2>6
  <2> QED BY <2>2, <2>7 DEF T
<1>9. SubSeq(w, off + 1, off) = << >> BY <1>1, SubSeqEmpty
<1>10. off = Len(Domain) + 9 + Len(Body({})) BY <1>1, <1>3, <1>8
<1> HIDE DEF off
<1>11. SubSeq(w, Len(Domain) + 9 + 1, off) = Body({}) BY <1>8, <1>9 DEF off
<1> QED BY <1>1, <1>2, <1>4, <1>5, <1>6, <1>7, <1>10, <1>11 DEF Stands

(* The list with one more at its end. *)
LEMMA InOrderOneMore ==
  ASSUME NEW list \in Seq(SourceRecord), NEW S, InOrder(list, S), S \subseteq SourceRecord,
         NEW s \in SourceRecord, \A u \in S : u.tag < s.tag
  PROVE  InOrder(Append(list, s), S \cup {s})
<1> DEFINE n == Len(list)
           q == Append(list, s)
<1>1. n \in Nat /\ DOMAIN list = 1 .. n BY LenProperties
<1>2. q \in Seq(SourceRecord) /\ DOMAIN q = 1 .. n + 1 /\ q[n + 1] = s
      /\ \A i \in 1 .. n : q[i] = list[i]
  BY <1>1, AppendProperties
<1>3. Range(list) = {list[i] : i \in 1 .. n} /\ Range(q) = {q[i] : i \in 1 .. n + 1}
  BY <1>1, <1>2, Zenon DEF Range
<1>4. \A i \in 1 .. n + 1 : i \in 1 .. n \/ i = n + 1 BY <1>1
<1>5. \A i \in 1 .. n : i \in 1 .. n + 1 BY <1>1
<1>6. n + 1 \in 1 .. n + 1 BY <1>1
<1>7. Range(list) = S /\ \A i, j \in 1 .. n : i < j => list[i].tag < list[j].tag
  BY <1>1 DEF InOrder
<1> HIDE DEF q, n
<1>8. Range(q) = S \cup {s} BY <1>2, <1>3, <1>4, <1>5, <1>6, <1>7, Zenon
<1>9. ASSUME NEW i \in 1 .. n + 1, NEW j \in 1 .. n + 1, i < j PROVE q[i].tag < q[j].tag
  <2>1. i \in 1 .. n BY <1>1, <1>9
  <2>2. CASE j \in 1 .. n BY <1>2, <1>7, <1>9, <2>1, <2>2
  <2>3. CASE j = n + 1
    <3>1. list[i] \in S BY <1>3, <1>7, <2>1
    <3> QED BY <1>2, <2>1, <2>3, <3>1
  <2> QED BY <1>4, <2>2, <2>3
<1> QED BY <1>2, <1>8, <1>9 DEF InOrder, q

(* One record read. *)
LEMMA StandsOn ==
  ASSUME NEW w \in Seq(Byte), NEW d, NEW S, Stands(w, d, S),
         NEW s, MayFollow(d, s), RecordAt(w, d.off, s)
  PROVE  Stands(w, Taken(d, s), S \cup {s})
<1> DEFINE M == S \cup {s}
           e == EncodedRecord(s)
           g == Taken(d, s)
           al == Len(s.algo)
           bl == Len(s.bytes)
           x == d.off
           y == x + Len(e)
           o == Len(Domain) + 9
           b == Body(S)
<1>1. d \in DecodeState /\ Consistent(S) /\ OneEach(S) /\ S \subseteq SourceRecord
  BY DEF Stands, Consistent, OneEach
<1>2. s \in SourceRecord /\ Valid(s) /\ s.tag > d.last
      /\ (s.tag \in Physical => d.physical + Len(s.bytes) <= MaxPhysicalEvents)
  BY DEF MayFollow
<1>3. s.tag \in Int /\ s.tag \in Tags /\ al \in Nat /\ bl \in Nat BY <1>2, SourceFacts
<1>4. d.last \in Int /\ x \in Nat /\ d.physical \in Nat /\ d.records \in Seq(SourceRecord)
  BY <1>1 DEF DecodeState
<1>5. \A u \in S : u.tag < s.tag
  <2>1. \A u \in S : u.tag \in Int /\ u.tag <= d.last
    BY <1>1, SourceFacts DEF Stands
  <2>2. \A p, q, r \in Int : p <= q /\ r > q => p < r OBVIOUS
  <2> QED BY <1>2, <1>3, <1>4, <2>1, <2>2, Zenon
<1>6. s.tag \notin TagsOf(S)
  <2>1. ~(s.tag < s.tag) BY <1>3
  <2> QED BY <1>5, <2>1 DEF TagsOf
<1>7. /\ TagsOf(M) = TagsOf(S) \cup {s.tag}
      /\ History(M) = History(S) + (IF s.tag \in Physical THEN bl ELSE 0)
  BY <1>1, <1>2, <1>6, OneMore
<1>8. History(S) = d.physical BY DEF Stands
<1>9. Consistent(M)
  <2>1. s.tag \in Physical => Len(s.bytes) + History(S) <= MaxPhysicalEvents
    <3>1. \A p, q \in Nat : p + q = q + p OBVIOUS
    <3> QED BY <1>2, <1>3, <1>4, <1>8, <3>1, Zenon
  <2> QED BY <1>1, <1>2, <1>6, <2>1, OneMoreConsistent
<1>10. g \in DecodeState BY <1>1, <1>2, TakenType
<1>11. InOrder(g.records, M)
  <2>1. g.records = Append(d.records, s) BY DEF Taken
  <2>2. InOrder(d.records, S) BY DEF Stands
  <2> QED BY <1>1, <1>2, <1>4, <1>5, <2>1, <2>2, InOrderOneMore
<1>12. Len(g.records) = Cardinality(TagsOf(M))
  <2>1. TagsOf(S) \in SUBSET Tags BY <1>1, OfFacts
  <2>2. Cardinality(TagsOf(S) \cup {s.tag}) = Cardinality(TagsOf(S)) + 1
    BY <1>3, <1>6, <2>1, RoomFacts
  <2>3. Len(Append(d.records, s)) = Len(d.records) + 1 BY <1>2, <1>4, AppendProperties
  <2>4. Len(d.records) = Cardinality(TagsOf(S)) BY DEF Stands
  <2>5. g.records = Append(d.records, s) BY DEF Taken
  <2> QED BY <1>7, <2>2, <2>3, <2>4, <2>5
<1>13. g.physical = History(M)
  <2>1. g.physical = IF s.tag \in Physical THEN d.physical + bl ELSE d.physical BY DEF Taken
  <2>2. \A p \in Nat : p + 0 = p OBVIOUS
  <2> QED BY <1>4, <1>7, <1>8, <2>1, <2>2
<1>14. g.last = s.tag BY DEF Taken
<1>15. \A u \in M : u.tag <= g.last
  <2>1. \A u \in S : u.tag \in Int BY <1>1, SourceFacts
  <2>2. \A p, q \in Int : p < q \/ p = q => p <= q OBVIOUS
  <2> QED BY <1>3, <1>5, <1>14, <2>1, <2>2, Zenon
<1>16. e \in Seq(Byte) /\ Len(e) = 4 + al + bl /\ Len(e) \in Nat
  BY <1>2, EncodedFacts, LenProperties
<1>17. x + Len(e) <= Len(w) /\ SubSeq(w, x + 1, x + Len(e)) = e
  <2>1. MaxLenFor(s.tag) \in U16 /\ MaxAlgoId \in Byte BY <1>3, ConstantFacts
  <2>2. al <= MaxAlgoId /\ bl <= MaxLenFor(s.tag) BY <1>2 DEF Valid
  <2> HIDE DEF al, bl
  <2>3. al \in Byte /\ bl \in U16 BY <1>3, <2>1, <2>2, Narrower
  <2>4. RecordAt(w, x, s) OBVIOUS
  <2> HIDE DEF x, e
  <2>5. e = EncodedRecord(s) BY DEF e
  <2> QED BY <1>2, <1>4, <2>3, <2>4, <2>5, RecordEncoded, ZenonT(60) DEF al, bl
<1>18. Body(M) = b \o e BY <1>1, <1>2, <1>5, BodyOfOneMore
<1>19. b \in Seq(Byte) /\ Len(b) \in Nat BY <1>1, BodyType, LenProperties
<1>20. x = o + Len(b) /\ SubSeq(w, o + 1, x) = b BY DEF Stands
<1>21. o \in Nat
  <2>1. Len(Domain) \in Nat BY ConstantFacts
  <2> QED BY <2>1
<1>22. g.off = y
  <2>1. g.off = x + 2 + al + 2 + bl BY DEF Taken
  <2>2. \A p, q, r \in Nat : p + 2 + q + 2 + r = p + (4 + q + r) OBVIOUS
  <2>3. x + 2 + al + 2 + bl = x + (4 + al + bl) BY <1>3, <1>4, <2>2, ZenonT(60)
  <2> HIDE DEF x, al, bl, e, g
  <2> QED BY <1>16, <2>1, <2>3 DEF y
<1>23. Len(Body(M)) = Len(b) + Len(e) BY <1>16, <1>18, <1>19, Joined, ZenonT(60)
<1>24. y = o + Len(Body(M))
  <2> DEFINE lb == Len(b)
             le == Len(e)
  <2>1. lb \in Nat /\ le \in Nat /\ x = o + lb /\ Len(Body(M)) = lb + le
    BY <1>16, <1>19, <1>20, <1>23
  <2>2. y = x + le OBVIOUS
  <2> HIDE DEF lb, le, x, y, o, M
  <2> QED BY <1>21, <2>1, <2>2
<1>25. SubSeq(w, o + 1, y) = Body(M)
  <2> DEFINE le == Len(e)
             lb == Len(b)
  <2>1. x \in Nat /\ le \in Nat /\ lb \in Nat /\ x = o + lb BY <1>4, <1>16, <1>19, <1>20
  <2>2. y = x + le /\ y <= Len(w) BY <1>17
  <2> HIDE DEF le, lb, o, x
  <2>3. y \in Nat /\ o <= x /\ x <= y BY <1>21, <2>1, <2>2
  <2> HIDE DEF y
  <2>4. SubSeq(w, o + 1, y) = SubSeq(w, o + 1, x) \o SubSeq(w, x + 1, y)
    BY <1>21, <2>1, <2>2, <2>3, CutJoin
  <2>5. SubSeq(w, x + 1, y) = e BY <1>17, <2>2 DEF le
  <2> QED BY <1>18, <1>20, <2>4, <2>5
<1>26. y <= Len(w) BY <1>17
<1> HIDE DEF M, g, y, e, b
<1>27. g.off = Len(Domain) + 9 + Len(Body(M)) /\ g.off <= Len(w)
       /\ SubSeq(w, Len(Domain) + 9 + 1, g.off) = Body(M)
  BY <1>22, <1>24, <1>25, <1>26
<1>28. g.last \in {-1} \cup TagsOf(M) BY <1>7, <1>14
<1>29. Stands(w, g, M)
  BY <1>9, <1>10, <1>11, <1>12, <1>13, <1>15, <1>27, <1>28 DEF Stands
<1> QED BY <1>29 DEF g, M

---------------------------------------------------------------------------
(* What is written is read. *)

(* The body begins with the records of the first tags.                     *)
LEMMA BodyOfPart ==
  ASSUME NEW S, OneEach(S), NEW i \in 0 .. N
  PROVE  \E r \in Seq(Byte) : Body(S) = Body(Part(S, i)) \o r
<1> DEFINE b(j) == Body(Part(S, j))
           T == {j \in i .. N : \E r \in Seq(Byte) : b(j) = b(i) \o r}
<1>1. N \in Nat /\ i \in Nat /\ i <= N BY CountOfTags
<1>2. \A j : OneEach(Part(S, j))
  BY PartFacts, PartOf
<1>3. \A j : b(j) \in Seq(Byte) BY <1>2, BodyType
<1>4. i \in T
  <2>1. b(i) = b(i) \o << >> BY <1>3, ConcatEmptySeq
  <2>2. << >> \in Seq(Byte) OBVIOUS
  <2>3. i \in i .. N BY <1>1
  <2> QED BY <2>1, <2>2, <2>3, Zenon
<1>5. ASSUME NEW j \in (i + 1) .. N, j - 1 \in T PROVE j \in T
  <2>1. j \in 1 .. N /\ j \in i .. N BY <1>1
  <2>2. PICK r \in Seq(Byte) : b(j - 1) = b(i) \o r BY <1>5
  <2>3. CASE CanonicalTags[j] \notin TagsOf(S)
    <3>1. Part(S, j) = Part(S, j - 1) BY <2>1, <2>3, PartFacts
    <3> QED BY <2>1, <2>2, <3>1
  <2>4. CASE CanonicalTags[j] \in TagsOf(S)
    <3> DEFINE s == Of(S, CanonicalTags[j])
               P == Part(S, j - 1)
               e == EncodedRecord(s)
    <3>1. s \in SourceRecord /\ s.tag = CanonicalTags[j] BY <2>1, <2>4, CodedFacts
    <3>2. Part(S, j) = P \cup {s} /\ \A u \in P : u.tag < CanonicalTags[j]
      BY <2>1, <2>4, PartFacts
    <3>3. OneEach(P) BY <1>2
    <3> HIDE DEF s, P
    <3>4. Body(P \cup {s}) = Body(P) \o e BY <3>1, <3>2, <3>3, BodyOfOneMore
    <3>5. e \in Seq(Byte) BY <3>1, EncodedFacts
    <3>6. b(j) = (b(i) \o r) \o e BY <2>2, <3>2, <3>4 DEF P
    <3> HIDE DEF b, e
    <3>7. b(j) = b(i) \o (r \o e) BY <1>3, <3>5, <3>6, Rebracketed, ZenonT(60)
    <3>8. r \o e \in Seq(Byte) BY <3>5, ConcatProperties
    <3> QED BY <2>1, <3>7, <3>8
  <2> QED BY <2>3, <2>4
<1> HIDE DEF T
<1>6. i .. N \subseteq T BY <1>1, <1>4, <1>5, CountUp
<1>7. N \in T BY <1>1, <1>6
<1>8. Part(S, N) = S BY PartFacts
<1> QED BY <1>7, <1>8 DEF T

Writes(w, S) == \E h \in Seq(Byte) : Len(h) = 9 /\ w = (Domain \o h) \o Body(S)

(* Over what is written, the decoder stands before the record of the next  *)
(* tag, and may take it.                                                   *)
LEMMA NextRecord ==
  ASSUME NEW S, Consistent(S), NEW w, Writes(w, S),
         NEW i \in 1 .. N, CanonicalTags[i] \in TagsOf(S),
         NEW d, Stands(w, d, Part(S, i - 1)), NEW s, s = Of(S, CanonicalTags[i])
  PROVE  /\ MayFollow(d, s) /\ RecordAt(w, d.off, s)
         /\ Part(S, i) = Part(S, i - 1) \cup {s}
         /\ Cardinality(TagsOf(Part(S, i))) = Cardinality(TagsOf(Part(S, i - 1))) + 1
<1> DEFINE P == Part(S, i - 1)
           M == Part(S, i)
           e == EncodedRecord(s)
           tag == CanonicalTags[i]
<1>0. PICK h \in Seq(Byte) : Len(h) = 9 /\ w = (Domain \o h) \o Body(S)
  BY DEF Writes
<1>1. OneEach(S) BY DEF Consistent
<1>2. s \in S /\ s \in SourceRecord /\ s.tag = tag
  BY <1>1, CodedFacts
<1>3. /\ M = P \cup {s} /\ (\A u \in P : u.tag < tag) /\ tag \in Tags /\ tag \notin TagsOf(P)
      /\ P \in SUBSET S /\ M \in SUBSET S
  BY <1>1, PartFacts
<1>4. Consistent(P) /\ Consistent(M) BY <1>1, <1>3, PartOf
<1>5. /\ d \in DecodeState /\ d.physical = History(P) /\ d.last \in {-1} \cup TagsOf(P)
      /\ d.off = Len(Domain) + 9 + Len(Body(P))
  BY DEF Stands
<1>6. s.tag \in Int /\ s.tag >= 0 /\ Len(s.bytes) \in Nat /\ Len(s.algo) \in Nat
  BY <1>2, SourceFacts
<1>7. MayFollow(d, s)
  <2>1. s.tag > d.last
    <3>1. CASE d.last = -1 BY <1>6, <3>1
    <3>2. CASE d.last \in TagsOf(P)
      <4>1. PICK u \in P : u.tag = d.last BY <3>2 DEF TagsOf
      <4>2. u.tag \in Int BY <1>1, <1>3, SourceFacts DEF OneEach
      <4>3. \A p, q \in Int : p < q => q > p OBVIOUS
      <4> QED BY <1>2, <1>3, <1>6, <4>1, <4>2, <4>3
    <3> QED BY <1>5, <3>1, <3>2
  <2> HIDE DEF P, M, tag
  <2>2. Valid(s) /\ (s.tag \in Physical => Len(s.bytes) + History(P) <= MaxPhysicalEvents)
    BY <1>2, <1>3, <1>4, OneMoreConsistent
  <2>3. d.physical \in Nat BY <1>5 DEF DecodeState
  <2>4. \A p, q \in Nat : p + q = q + p OBVIOUS
  <2>5. s.tag \in Physical => d.physical + Len(s.bytes) <= MaxPhysicalEvents
    BY <1>5, <1>6, <2>2, <2>3, <2>4
  <2> QED BY <1>2, <2>1, <2>2, <2>5 DEF MayFollow
<1>8. i \in 0 .. N /\ OneEach(P) BY <1>4, CountOfTags DEF Consistent
<1>9. Body(M) = Body(P) \o e
  <2> HIDE DEF P, M
  <2> QED BY <1>2, <1>3, <1>8, BodyOfOneMore
<1>10. PICK r \in Seq(Byte) : Body(S) = Body(M) \o r BY <1>1, <1>8, BodyOfPart
<1>11. e \in Seq(Byte) BY <1>2, EncodedFacts
<1>next. Body(P) \in Seq(Byte) BY <1>8, BodyType
<1>13. Domain \in Seq(Byte) BY ConstantFacts
<1> DEFINE b == Body(P)
           p == (Domain \o h) \o b
           off == d.off
<1> HIDE DEF P, M, e, b
<1>14. w = p \o (e \o r)
  <2>1. Domain \o h \in Seq(Byte) /\ b \o e \in Seq(Byte) /\ b \in Seq(Byte) /\ e \o r \in Seq(Byte)
    BY <1>11, <1>next, <1>13, ConcatProperties DEF b
  <2>2. w = (Domain \o h) \o ((b \o e) \o r) BY <1>0, <1>9, <1>10 DEF b
  <2>3. (b \o e) \o r = b \o (e \o r) BY ONLY <1>11, <2>1, r \in Seq(Byte), Rebracketed, SMTT(60)
  <2>4. (Domain \o h) \o (b \o (e \o r)) = ((Domain \o h) \o b) \o (e \o r)
    <3> DEFINE q == Domain \o h
               c == e \o r
    <3>1. q \in Seq(Byte) /\ c \in Seq(Byte) /\ b \in Seq(Byte) BY <2>1
    <3> HIDE DEF q, c
    <3>2. q \o (b \o c) = (q \o b) \o c BY ONLY <3>1, Rebracketed, ZenonT(60)
    <3> QED BY <3>2 DEF q, c
  <2> QED BY <2>2, <2>3, <2>4
<1>15. p \in Seq(Byte) /\ Len(p) = off
  <2>1. b \in Seq(Byte) /\ p = (Domain \o h) \o b BY <1>next DEF b
  <2>2. p \in Seq(Byte) /\ Len(p) = Len(Domain) + 9 + Len(b) BY <1>0, <2>1, Framed, ZenonT(60)
  <2> QED BY <1>5, <2>2 DEF b
<1> HIDE DEF p
<1>16. off \in Nat BY <1>5 DEF DecodeState
<1>17. SubSeq(w, off + 1, off + Len(e)) = e BY ONLY <1>11, <1>14, <1>15, r \in Seq(Byte), CutMiddle
<1>18. w \in Seq(Byte) /\ off + Len(e) <= Len(w)
  <2>1. e \o r \in Seq(Byte) /\ Len(e \o r) = Len(e) + Len(r) /\ Len(e) \in Nat /\ Len(r) \in Nat
    BY <1>11, Joined
  <2>2. w \in Seq(Byte) /\ Len(w) = Len(p) + Len(e \o r) BY <1>14, <1>15, <2>1, Joined
  <2> DEFINE a == Len(e)
             c == Len(r)
             l == Len(w)
  <2>3. a \in Nat /\ c \in Nat /\ l = off + (a + c) BY <1>15, <2>1, <2>2
  <2> HIDE DEF a, c, l, off
  <2>4. off + a <= l BY <1>16, <2>3
  <2> QED BY <2>2, <2>4 DEF a, l
<1>19. RecordAt(w, off, s)
  <2>1. MaxLenFor(s.tag) \in U16 /\ MaxAlgoId \in Byte BY <1>2, <1>3, ConstantFacts
  <2>2. Len(s.algo) <= MaxAlgoId /\ Len(s.bytes) <= MaxLenFor(s.tag)
    BY <1>7 DEF Valid, MayFollow
  <2>3. Len(s.algo) \in Byte /\ Len(s.bytes) \in U16 BY <1>6, <2>1, <2>2, Narrower
  <2>4. e = EncodedRecord(s) BY DEF e
  <2> HIDE DEF off
  <2> QED BY <1>2, <1>16, <1>17, <1>18, <2>3, <2>4, RecordEncoded
<1>20. Cardinality(TagsOf(M)) = Cardinality(TagsOf(P)) + 1
  <2> HIDE DEF tag
  <2>1. TagsOf(P \cup {s}) = TagsOf(P) \cup {s.tag}
    <3>1. s.tag \notin TagsOf(P) BY <1>2, <1>3
    <3> QED BY ONLY <1>2, <1>8, <3>1, OneMore
  <2>2. TagsOf(P) \in SUBSET Tags BY <1>8, OfFacts
  <2> QED BY <1>2, <1>3, <2>1, <2>2, RoomFacts, ZenonT(60)
<1> QED BY <1>3, <1>7, <1>19, <1>20 DEF P, M

(* The rounds over what was written read the sources, and stop without an  *)
(* error.                                                                  *)
LEMMA ReadsBack ==
  ASSUME NEW S, Consistent(S), NEW w, Writes(w, S), NEW count, count = Cardinality(TagsOf(S))
  PROVE  Stands(w, Rounds(w, count)[count], S)
<1>next. ASSUME NEW i \in 1 .. N, CanonicalTags[i] \in TagsOf(S),
              NEW d, Stands(w, d, Part(S, i - 1)), NEW s, s = Of(S, CanonicalTags[i])
       PROVE  /\ MayFollow(d, s) /\ RecordAt(w, d.off, s)
              /\ Part(S, i) = Part(S, i - 1) \cup {s}
              /\ Cardinality(TagsOf(Part(S, i))) = Cardinality(TagsOf(Part(S, i - 1))) + 1
  BY <1>next, NextRecord
<1> DEFINE k(i) == Cardinality(TagsOf(Part(S, i)))
           round(i) == Rounds(w, count)[i]
           T == {i \in 0 .. N : Stands(w, round(k(i)), Part(S, i))}
<1>0. PICK h \in Seq(Byte) : Len(h) = 9 /\ w = (Domain \o h) \o Body(S)
  BY DEF Writes
<1>1. OneEach(S) BY DEF Consistent
<1>2. N \in Nat /\ count \in Nat BY <1>1, CountOfTags, CountByte
<1>3. w \in Seq(Byte) /\ Len(Domain) + 9 <= Len(w)
  <2>1. Body(S) \in Seq(Byte) BY <1>1, BodyType
  <2>2. w \in Seq(Byte) /\ Len(w) = Len(Domain) + 9 + Len(Body(S)) BY <1>0, <2>1, Framed, ZenonT(60)
  <2>3. Len(Domain) \in Nat /\ Len(Body(S)) \in Nat BY <2>1, ConstantFacts, LenProperties
  <2> QED BY <2>2, <2>3
<1>4. \A i : k(i) \in Nat /\ k(i) <= count
  <2> SUFFICES ASSUME NEW i PROVE k(i) \in Nat /\ k(i) <= count
    OBVIOUS
  <2>1. Part(S, i) \in SUBSET S BY <1>1, PartFacts
  <2>2. OneEach(Part(S, i)) /\ TagsOf(Part(S, i)) \subseteq TagsOf(S) BY <1>1, <2>1, PartOf
  <2>3. TagsOf(S) \in SUBSET Tags BY <1>1, OfFacts
  <2>4. IsFiniteSet(TagsOf(S)) BY <2>3, RoomFacts
  <2> QED BY <2>2, <2>4, FS_Subset, CountByte
<1>5. round(0) = NothingDecoded
      /\ \A i \in 1 .. count :
           round(i - 1).error = "none" => round(i) = DecodeRecord(w, round(i - 1))
  <2>1. \A i \in 1 .. count : round(i) = IF round(i - 1).error # "none" THEN round(i - 1)
                                      ELSE DecodeRecord(w, round(i - 1))
    BY <1>2, RoundsTaken
  <2> QED BY <1>2, <2>1, RoundsTaken
<1> HIDE DEF round
<1>6. 0 \in T
  <2>1. Part(S, 0) = {} BY <1>1, PartFacts
  <2>2. k(0) = 0 BY <2>1, NoSource, FS_EmptySet
  <2>3. Stands(w, round(k(0)), Part(S, 0)) BY <1>3, <1>5, <2>1, <2>2, NothingStands
  <2> QED BY <1>2, <2>3
<1>7. ASSUME NEW i \in (0 + 1) .. N, i - 1 \in T PROVE i \in T
  <2>1. i \in 1 .. N /\ i \in 0 .. N BY <1>2
  <2>2. Stands(w, round(k(i - 1)), Part(S, i - 1)) BY <1>7
  <2>3. CASE CanonicalTags[i] \notin TagsOf(S)
    <3>1. Part(S, i) = Part(S, i - 1) BY <1>1, <2>1, <2>3, PartFacts
    <3> QED BY <2>1, <2>2, <3>1
  <2>4. CASE CanonicalTags[i] \in TagsOf(S)
    <3> DEFINE s == Of(S, CanonicalTags[i])
               d == round(k(i - 1))
               P == Part(S, i - 1)
    <3>0. Stands(w, d, Part(S, i - 1)) /\ s = Of(S, CanonicalTags[i]) BY <2>2
    <3>2. d \in DecodeState /\ d.error = "none" BY <2>2 DEF Stands, DecodeState
    <3> HIDE DEF s, d
    <3>1. /\ MayFollow(d, s) /\ RecordAt(w, d.off, s)
          /\ Part(S, i) = P \cup {s} /\ k(i) = k(i - 1) + 1
      <4>1. /\ MayFollow(d, s) /\ RecordAt(w, d.off, s)
            /\ Part(S, i) = Part(S, i - 1) \cup {s}
            /\ Cardinality(TagsOf(Part(S, i))) = Cardinality(TagsOf(Part(S, i - 1))) + 1
        BY <1>next, <2>1, <2>4, <3>0, Zenon
      <4> QED BY <4>1
    <3> HIDE DEF P
    <3>3. Stands(w, Taken(d, s), Part(S, i))
      <4>1. Stands(w, Taken(d, s), P \cup {s}) BY ONLY <1>3, <3>0, <3>1, StandsOn DEF P
      <4> QED BY <3>1, <4>1
    <3>4. DecodeRecord(w, d) = Taken(d, s) BY <1>3, <3>1, <3>2, Finds
    <3>5. k(i - 1) \in Nat /\ k(i) \in Nat /\ k(i) <= count BY <1>4
    <3> HIDE DEF k
    <3>6. k(i) \in 1 .. count /\ k(i) - 1 = k(i - 1) BY <1>2, <3>1, <3>5
    <3>7. round(k(i)) = DecodeRecord(w, d) BY <1>5, <3>2, <3>6 DEF d
    <3> QED BY <2>1, <3>3, <3>4, <3>7
  <2> QED BY <2>3, <2>4
<1> HIDE DEF T
<1>8. 0 .. N \subseteq T BY <1>2, <1>6, <1>7, CountUp
<1>9. N \in T BY <1>2, <1>8
<1>10. Stands(w, round(k(N)), Part(S, N)) BY <1>9 DEF T
<1>11. Part(S, N) = S BY <1>1, PartFacts
<1> QED BY <1>10, <1>11 DEF round

(* The tags of the records read. *)
LEMMA TagsRead ==
  ASSUME NEW list, NEW S, InOrder(list, S)
  PROVE  {list[i].tag : i \in DOMAIN list} = TagsOf(S)
<1>1. S = {list[i] : i \in DOMAIN list} BY DEF InOrder, Range
<1> QED BY <1>1 DEF TagsOf

(* What decode asks of w, when the rounds over count records end in d.     *)
Passes(w, count, d) ==
  /\ ~(Len(w) > TranscriptCapacity) /\ ~(Len(w) < Len(Domain))
  /\ Cut(w, 0, Len(Domain)) = Domain /\ ~(Len(Domain) + 9 > Len(w))
  /\ ~(count > N) /\ d.error = "none" /\ d.off = Len(w)
  /\ Bitmap({d.records[i].tag : i \in DOMAIN d.records}) = FromBe16(w, Len(Domain) + 7)

HeaderIn(w) == [arch   |-> FromBe16(w, Len(Domain) + 1),
                bits   |-> FromBe16(w, Len(Domain) + 3),
                policy |-> FromBe16(w, Len(Domain) + 5)]

(* The answer of decode, check by check.                                   *)
LEMMA DecodeChecks ==
  ASSUME NEW w, NEW count, count = w[Len(Domain) + 9],
         NEW d, d = Rounds(w, count)[count]
  PROVE  /\ Passes(w, count, d) =>
              Decode(w) = [error |-> "none", header |-> HeaderIn(w), records |-> d.records]
         /\ ~Passes(w, count, d) => Decode(w).error # "none"
<1> DEFINE over == Len(w) > TranscriptCapacity
           under == Len(w) < Len(Domain)
           domain == Cut(w, 0, Len(Domain)) = Domain
           short == Len(Domain) + 9 > Len(w)
           many == count > N
           same == Bitmap({d.records[i].tag : i \in DOMAIN d.records})
                     = FromBe16(w, Len(Domain) + 7)
           whole == d.off = Len(w)
           bad == BodyError(w, d)
           R(error) == [error |-> error, header |-> <<>>, records |-> <<>>]
           read == [error |-> "none", header |-> HeaderIn(w), records |-> d.records]
<1>1. Decode(w) = IF over THEN R("Oversized")
                  ELSE IF under THEN R("Truncated")
                  ELSE IF ~domain THEN R("BadDomain")
                  ELSE IF short THEN R("Truncated")
                  ELSE IF many THEN R("TooManyRecords")
                  ELSE IF bad # "none" THEN R(bad)
                  ELSE read
  BY Zenon DEF Decode, HeaderLen, N, HeaderIn
<1>2. bad = IF d.error # "none" THEN d.error
            ELSE IF ~whole THEN "TrailingBytes"
            ELSE IF ~same THEN "PresenceMismatch"
            ELSE "none"
  BY Zenon DEF BodyError
<1>3. \A x : R(x).error = x OBVIOUS
<1>4. bad = "none" <=> d.error = "none" /\ whole /\ same
  <2> HIDE DEF bad, whole, same
  <2> QED BY <1>2
<1>8. Passes(w, count, d) <=> /\ ~over /\ ~under /\ domain /\ ~short /\ ~many
                              /\ d.error = "none" /\ whole /\ same
  BY Zenon DEF Passes
<1> HIDE DEF over, under, domain, short, many, same, whole, bad, R, read
<1>6. ~over /\ ~under /\ domain /\ ~short /\ ~many /\ bad = "none" => Decode(w) = read
  BY <1>1
<1>7. ~(~over /\ ~under /\ domain /\ ~short /\ ~many /\ bad = "none") => Decode(w).error # "none"
  BY <1>1, <1>3
<1> QED BY <1>4, <1>6, <1>7, <1>8 DEF read

(* Decoding what was serialized. *)
LEMMA DecodesWire ==
  ASSUME NEW S, Consistent(S), NEW header,
         header.arch \in Int, header.bits \in Int, header.policy \in Int,
         NEW w, w = Wire(S, header)
  PROVE  Decode(w).error = "none" /\ InOrder(Decode(w).records, S)
<1> DEFINE h == EncodedHeader(header, Bitmap(TagsOf(S)), Cardinality(TagsOf(S)))
           count == w[Len(Domain) + 9]
           d == Rounds(w, count)[count]
           map == Bitmap(TagsOf(S))
<1>1. OneEach(S) BY DEF Consistent
<1>2. Cardinality(TagsOf(S)) \in Byte /\ Cardinality(TagsOf(S)) \in Nat
      /\ Cardinality(TagsOf(S)) <= N
  BY <1>1, CountByte
<1>3. map \in U16 /\ map \in Int
  <2>1. map \in U16 BY BitmapType, SMTT(60)
  <2>2. \A v \in U16 : v \in Int BY DEF U16
  <2> QED BY <2>1, <2>2
<1>4. /\ h \in Seq(Byte) /\ Len(h) = 9 /\ << h[7], h[8] >> = Be16(map)
      /\ h[9] = Cardinality(TagsOf(S))
  <2> HIDE DEF map
  <2>1. h = EncodedHeader(header, map, Cardinality(TagsOf(S))) BY DEF map
  <2> HIDE DEF h
  <2> QED BY <1>2, <1>3, <2>1, HeaderBytes
<1>5. Body(S) \in Seq(Byte) /\ Len(Body(S)) \in Nat BY <1>1, BodyType, LenProperties
<1>6. w = (Domain \o h) \o Body(S) BY DEF Wire
<1> HIDE DEF h
<1>7. /\ w \in Seq(Byte) /\ Len(w) = Len(Domain) + 9 + Len(Body(S))
      /\ \A i \in 1 .. 9 : w[Len(Domain) + i] = h[i]
      /\ Cut(w, 0, Len(Domain)) = Domain
  BY <1>4, <1>5, <1>6, Framed
<1>8. count = Cardinality(TagsOf(S)) BY <1>4, <1>7, SMTT(60)
<1>9. FromBe16(w, Len(Domain) + 7) = map
  <2>1. w[Len(Domain) + 7] = h[7] /\ w[Len(Domain) + 8] = h[8] BY <1>7
  <2>2. (Len(Domain) + 7) + 1 = Len(Domain) + 8 BY ConstantFacts
  <2>3. h[7] = Be16(map)[1] /\ h[8] = Be16(map)[2] BY <1>4
  <2>4. Be16(map)[1] * 256 + Be16(map)[2] = map BY <1>3, Be16Facts
  <2> HIDE DEF map
  <2> QED BY <2>1, <2>2, <2>3, <2>4 DEF FromBe16
<1>10. Writes(w, S) BY <1>4, <1>6 DEF Writes
<1> HIDE DEF count
<1>11. Stands(w, d, S) BY <1>8, <1>10, ReadsBack
<1>12. /\ d.error = "none" /\ InOrder(d.records, S)
       /\ d.off = Len(Domain) + 9 + Len(Body(S))
  BY <1>11 DEF Stands, DecodeState
<1>13. Bitmap({d.records[i].tag : i \in DOMAIN d.records}) = FromBe16(w, Len(Domain) + 7)
  BY <1>9, <1>12, TagsRead
<1>14. ~(Len(w) > TranscriptCapacity) /\ ~(Len(w) < Len(Domain)) /\ ~(Len(Domain) + 9 > Len(w))
       /\ ~(count > N)
  <2> DEFINE l == Len(w)
             m == Len(Domain)
             b == Len(Body(S))
  <2>1. l <= TranscriptCapacity BY WireFits
  <2>2. TranscriptCapacity \in Nat /\ m \in Nat /\ N \in Nat BY ConstantFacts, CountOfTags
  <2>3. l = m + 9 + b /\ b \in Nat /\ count \in Nat /\ count <= N BY <1>2, <1>5, <1>7, <1>8
  <2> HIDE DEF l, m, b
  <2>4. ~(l > TranscriptCapacity) /\ ~(l < m) /\ ~(m + 9 > l) /\ ~(count > N)
    BY ONLY <2>1, <2>2, <2>3
  <2> QED BY <2>4 DEF l, m
<1>15. count = w[Len(Domain) + 9] BY DEF count
<1> HIDE DEF d
<1>16. Passes(w, count, d)
  <2>1. d.off = Len(w) BY <1>7, <1>12
  <2> QED BY <1>7, <1>12, <1>13, <1>14, <2>1 DEF Passes
<1>17. d = Rounds(w, count)[count] BY DEF d
<1>18. Decode(w) = [error |-> "none", header |-> HeaderIn(w), records |-> d.records]
  BY ONLY <1>15, <1>16, <1>17, DecodeChecks
<1> QED BY <1>12, <1>18

---------------------------------------------------------------------------
(* What is read was written. *)

(* As long as there is no error, the decoder stands behind the records of  *)
(* sources that some builder would have taken.                             *)
LEMMA ReadsSources ==
  ASSUME NEW w \in Seq(Byte), Len(Domain) + 9 <= Len(w), NEW count \in Nat,
         NEW d, d = Rounds(w, count)[count], d.error = "none"
  PROVE  \E S : Stands(w, d, S) /\ Cardinality(TagsOf(S)) = count
<1>step. ASSUME NEW u, NEW S, Stands(w, u, S), DecodeRecord(w, u).error = "none"
         PROVE  \E M : /\ Stands(w, DecodeRecord(w, u), M)
                       /\ Cardinality(TagsOf(M)) = Cardinality(TagsOf(S)) + 1
  <2>1. u \in DecodeState BY <1>step DEF Stands
  <2>2. PICK s : MayFollow(u, s) /\ RecordAt(w, u.off, s) /\ DecodeRecord(w, u) = Taken(u, s)
    BY <1>step, <2>1, Found
  <2>3. Stands(w, Taken(u, s), S \cup {s}) BY <1>step, <2>2, StandsOn
  <2>4. Taken(u, s).records = Append(u.records, s) BY DEF Taken
  <2>5. Len(Append(u.records, s)) = Len(u.records) + 1
    <3>1. s \in SourceRecord BY <2>2 DEF MayFollow
    <3>2. u.records \in Seq(SourceRecord) BY <2>1 DEF DecodeState
    <3> QED BY <3>1, <3>2, AppendProperties
  <2>6. /\ Len(u.records) = Cardinality(TagsOf(S))
        /\ Len(Taken(u, s).records) = Cardinality(TagsOf(S \cup {s}))
    BY <1>step, <2>3 DEF Stands
  <2> QED BY <2>2, <2>3, <2>4, <2>5, <2>6
<1> DEFINE round(k) == Rounds(w, count)[k]
           Good(k) == \E S : Stands(w, round(k), S) /\ Cardinality(TagsOf(S)) = k
           T == {k \in 0 .. count : round(k).error = "none" => Good(k)}
<1>1. round(0) = NothingDecoded
      /\ \A k \in 1 .. count : round(k) = IF round(k - 1).error # "none" THEN round(k - 1)
                                       ELSE DecodeRecord(w, round(k - 1))
  BY RoundsTaken
<1> HIDE DEF round
<1>2. 0 \in T
  <2>1. Stands(w, round(0), {}) BY <1>1, NothingStands
  <2>2. Cardinality(TagsOf({})) = 0 BY NoSource, FS_EmptySet
  <2> QED BY <2>1, <2>2
<1>3. ASSUME NEW k \in (0 + 1) .. count, k - 1 \in T PROVE k \in T
  <2>1. k \in 1 .. count /\ k \in 0 .. count /\ k \in Nat OBVIOUS
  <2> HIDE DEF Good
  <2> SUFFICES ASSUME round(k).error = "none" PROVE Good(k)
    BY <2>1
  <2>2. round(k - 1).error = "none" /\ round(k) = DecodeRecord(w, round(k - 1)) BY <1>1, <2>1
  <2>3. Good(k - 1) BY <1>3, <2>2
  <2>4. PICK S : Stands(w, round(k - 1), S) /\ Cardinality(TagsOf(S)) = k - 1 BY <2>3 DEF Good
  <2>5. PICK M : /\ Stands(w, DecodeRecord(w, round(k - 1)), M)
                 /\ Cardinality(TagsOf(M)) = Cardinality(TagsOf(S)) + 1
    BY <1>step, <2>2, <2>4
  <2>6. Cardinality(TagsOf(M)) = k BY <2>1, <2>4, <2>5
  <2> QED BY <2>2, <2>5, <2>6 DEF Good
<1> HIDE DEF T
<1>4. 0 .. count \subseteq T BY <1>2, <1>3, CountUp
<1>5. count \in T BY <1>4
<1>6. round(count) = d BY DEF round
<1> QED BY <1>5, <1>6 DEF T

(* A u16 is a number.                                                      *)
LEMMA U16Int == \A v \in U16 : v \in Int
  BY DEF U16

(* The header that is read is, written again, the nine bytes it was read   *)
(* from.                                                                   *)
LEMMA HeaderBack ==
  ASSUME NEW w \in Seq(Byte), Len(Domain) + 9 <= Len(w), NEW map \in U16,
         map = FromBe16(w, Len(Domain) + 7),
         NEW h, h = EncodedHeader(HeaderIn(w), map, w[Len(Domain) + 9])
  PROVE  /\ HeaderIn(w).arch \in Int /\ HeaderIn(w).bits \in Int /\ HeaderIn(w).policy \in Int
         /\ h \in Seq(Byte) /\ Len(h) = 9 /\ \A i \in 1 .. 9 : w[Len(Domain) + i] = h[i]
<1> DEFINE l == Len(Domain)
           x(i) == w[l + i]
           arch == FromBe16(w, l + 1)
           bits == FromBe16(w, l + 3)
           policy == FromBe16(w, l + 5)
<1>1. l \in Nat BY ConstantFacts
<1>2. \A i \in 1 .. 9 : x(i) \in Byte
  <2> SUFFICES ASSUME NEW i \in 1 .. 9 PROVE w[l + i] \in Byte
    OBVIOUS
  <2>1. l + i \in Nat /\ 1 <= l + i /\ l + i <= Len(w) BY <1>1
  <2> HIDE DEF l
  <2> QED BY <2>1, ByteAt
<1>3. l + 1 + 1 = l + 2 /\ l + 3 + 1 = l + 4 /\ l + 5 + 1 = l + 6 /\ l + 7 + 1 = l + 8
  BY <1>1
<1>4. /\ arch = x(1) * 256 + x(2) /\ bits = x(3) * 256 + x(4)
      /\ policy = x(5) * 256 + x(6) /\ map = x(7) * 256 + x(8)
  BY <1>3 DEF FromBe16
<1> HIDE DEF x, arch, bits, policy
<1>5. /\ Be16(arch) = << x(1), x(2) >> /\ Be16(bits) = << x(3), x(4) >>
      /\ Be16(policy) = << x(5), x(6) >> /\ Be16(map) = << x(7), x(8) >>
      /\ arch \in U16 /\ bits \in U16 /\ policy \in U16
  <2>1. \A i \in {1, 2, 3, 4, 5, 6, 7, 8} : x(i) \in Byte BY <1>2
  <2> QED BY <1>4, <2>1, Be16Facts
<1>6. \A v \in U16 : v \in Int BY U16Int
<1>7. HeaderIn(w) = [arch |-> arch, bits |-> bits, policy |-> policy]
  BY DEF HeaderIn, arch, bits, policy
<1>8. HeaderIn(w).arch = arch /\ HeaderIn(w).bits = bits /\ HeaderIn(w).policy = policy
  BY <1>7
<1>9. arch \in Int /\ bits \in Int /\ policy \in Int /\ map \in Int BY <1>5, <1>6
<1>10. x(9) \in Byte BY <1>2
<1>11. h = EncodedHeader(HeaderIn(w), map, x(9)) BY DEF x
<1>12. /\ h \in Seq(Byte) /\ Len(h) = 9
       /\ << h[1], h[2] >> = Be16(arch) /\ << h[3], h[4] >> = Be16(bits)
       /\ << h[5], h[6] >> = Be16(policy) /\ << h[7], h[8] >> = Be16(map)
       /\ h[9] = x(9)
  <2> DEFINE header == HeaderIn(w)
  <2>1. header.arch \in Int /\ header.bits \in Int /\ header.policy \in Int BY <1>8, <1>9
  <2>2. h = EncodedHeader(header, map, x(9)) BY <1>11
  <2>3. header.arch = arch /\ header.bits = bits /\ header.policy = policy BY <1>8
  <2> HIDE DEF header
  <2> DEFINE c == x(9)
  <2>4. c \in Byte /\ h = EncodedHeader(header, map, c) BY <1>10, <2>2
  <2> HIDE DEF c
  <2>5. /\ h \in Seq(Byte) /\ Len(h) = 9
        /\ << h[1], h[2] >> = Be16(header.arch) /\ << h[3], h[4] >> = Be16(header.bits)
        /\ << h[5], h[6] >> = Be16(header.policy) /\ << h[7], h[8] >> = Be16(map)
        /\ h[9] = c
    BY ONLY <1>9, <2>1, <2>4, HeaderBytes
  <2> QED BY <2>3, <2>5 DEF c
<1>13. \A a, b, c, e : << a, b >> = << c, e >> => a = c /\ b = e OBVIOUS
<1>14. /\ h[1] = x(1) /\ h[2] = x(2) /\ h[3] = x(3) /\ h[4] = x(4) /\ h[5] = x(5)
       /\ h[6] = x(6) /\ h[7] = x(7) /\ h[8] = x(8) /\ h[9] = x(9)
  <2>1. << h[1], h[2] >> = << x(1), x(2) >> BY <1>5, <1>12, Zenon
  <2>2. << h[3], h[4] >> = << x(3), x(4) >> BY <1>5, <1>12, Zenon
  <2>3. << h[5], h[6] >> = << x(5), x(6) >> BY <1>5, <1>12, Zenon
  <2>4. << h[7], h[8] >> = << x(7), x(8) >> BY <1>5, <1>12, Zenon
  <2>5. h[1] = x(1) /\ h[2] = x(2) BY ONLY <2>1, <1>13, Zenon
  <2>6. h[3] = x(3) /\ h[4] = x(4) BY ONLY <2>2, <1>13, Zenon
  <2>7. h[5] = x(5) /\ h[6] = x(6) BY ONLY <2>3, <1>13, Zenon
  <2>8. h[7] = x(7) /\ h[8] = x(8) BY ONLY <2>4, <1>13, Zenon
  <2> QED BY <1>12, <2>5, <2>6, <2>7, <2>8, Zenon
<1>15. \A i \in 1 .. 9 : i \in {1, 2, 3, 4, 5, 6, 7, 8, 9} OBVIOUS
<1>16. \A i \in 1 .. 9 : x(i) = h[i] BY <1>14, <1>15
<1> QED BY <1>8, <1>9, <1>12, <1>16 DEF x

(* Whatever decode accepts is the wire form of the sources it returns.     *)
LEMMA DecodedIsWire ==
  ASSUME NEW w \in Seq(Byte), Decode(w).error = "none"
  PROVE  /\ Decode(w).records \in Seq(SourceRecord)
         /\ \E S : /\ Consistent(S) /\ InOrder(Decode(w).records, S)
                   /\ w = Wire(S, Decode(w).header)
<1> DEFINE count == w[Len(Domain) + 9]
           d == Rounds(w, count)[count]
           map == FromBe16(w, Len(Domain) + 7)
<1>0. count = w[Len(Domain) + 9] /\ d = Rounds(w, count)[count] OBVIOUS
<1> HIDE DEF count, d
<1>1. /\ Passes(w, count, d)
      /\ Decode(w) = [error |-> "none", header |-> HeaderIn(w), records |-> d.records]
  BY ONLY <1>0, Decode(w).error = "none", DecodeChecks
<1>2. Len(Domain) + 9 <= Len(w)
  <2>1. ~(Len(Domain) + 9 > Len(w)) BY <1>1 DEF Passes
  <2>2. Len(Domain) \in Nat /\ Len(w) \in Nat BY ConstantFacts, LenProperties
  <2> QED BY <2>1, <2>2
<1>3. count \in Nat
  <2>1. Len(Domain) + 9 \in Nat /\ 1 <= Len(Domain) + 9 BY ConstantFacts
  <2> DEFINE i == Len(Domain) + 9
  <2>2. i \in Nat /\ 1 <= i /\ i <= Len(w) /\ count = w[i] BY <1>0, <1>2, <2>1
  <2> HIDE DEF i
  <2> QED BY <2>2, ByteAt
<1>4. d.error = "none" /\ d.off = Len(w)
      /\ Bitmap({d.records[i].tag : i \in DOMAIN d.records}) = map
      /\ Cut(w, 0, Len(Domain)) = Domain
  BY <1>1 DEF Passes
<1>5. PICK S : Stands(w, d, S) /\ Cardinality(TagsOf(S)) = count
  BY <1>0, <1>2, <1>3, <1>4, ReadsSources
<1>6. /\ Consistent(S) /\ InOrder(d.records, S) /\ d.records \in Seq(SourceRecord)
      /\ SubSeq(w, Len(Domain) + 9 + 1, Len(w)) = Body(S)
  BY <1>4, <1>5 DEF Stands, DecodeState
<1>7. map = Bitmap(TagsOf(S)) /\ map \in U16
  <2>1. Bitmap(TagsOf(S)) \in U16 BY BitmapType
  <2> HIDE DEF map
  <2> QED BY <1>4, <1>6, <2>1, TagsRead
<1> DEFINE h == EncodedHeader(HeaderIn(w), map, count)
<1>8. h \in Seq(Byte) /\ Len(h) = 9 /\ \A i \in 1 .. 9 : w[Len(Domain) + i] = h[i]
  <2>1. map = FromBe16(w, Len(Domain) + 7) OBVIOUS
  <2> HIDE DEF map
  <2>2. h = EncodedHeader(HeaderIn(w), map, w[Len(Domain) + 9]) BY <1>0
  <2> HIDE DEF h
  <2> QED BY ONLY <1>2, <1>7, <2>1, <2>2, w \in Seq(Byte), HeaderBack, SMTT(60)
<1>9. w = (Domain \o h) \o SubSeq(w, Len(Domain) + 9 + 1, Len(w))
  <2> HIDE DEF h
  <2> QED BY <1>2, <1>4, <1>8, Unframed
<1>10. w = Wire(S, HeaderIn(w))
  <2>1. h = EncodedHeader(HeaderIn(w), Bitmap(TagsOf(S)), Cardinality(TagsOf(S)))
    BY <1>5, <1>7
  <2> HIDE DEF h
  <2> QED BY <1>6, <1>9, <2>1 DEF Wire
<1>11. Decode(w).records = d.records /\ Decode(w).header = HeaderIn(w) BY <1>1
<1>12. w = Wire(S, Decode(w).header) BY <1>10, <1>11, Zenon
<1> QED BY <1>6, <1>11, <1>12

---------------------------------------------------------------------------
(* A builder that is given the sources of a list takes each of them, and   *)
(* writes what any builder with these sources writes.                      *)
LEMMA Rebuilds ==
  ASSUME NEW S, Consistent(S), NEW list \in Seq(SourceRecord), InOrder(list, S), NEW header
  PROVE  /\ \A k \in 1 .. Len(list) : AddError(Rebuilt(list)[k - 1], list[k]) = "none"
         /\ Serialize(Rebuilt(list)[Len(list)], header) = Wire(S, header)
<1> DEFINE n == Len(list)
           b(k) == Rebuilt(list)[k]
           P(k) == {list[i] : i \in 1 .. k}
           T == {k \in 0 .. n : Holds(b(k), P(k))}
<1>1. n \in Nat /\ DOMAIN list = 1 .. n /\ \A i \in 1 .. n : list[i] \in SourceRecord
  BY LenProperties, ElementOfSeq
<1>2. P(n) = S BY <1>1 DEF InOrder, Range
<1>3. \A k \in 0 .. n : P(k) \in SUBSET S
  <2> SUFFICES ASSUME NEW k \in 0 .. n, NEW i \in 1 .. k PROVE list[i] \in S
    OBVIOUS
  <2>1. i \in 1 .. n BY <1>1
  <2> QED BY <1>2, <2>1
<1>4. \A k \in 0 .. n : Consistent(P(k))
  <2> HIDE DEF P
  <2> QED BY <1>3, PartOf DEF Consistent
<1>5. b(0) = Empty /\ \A k \in 1 .. n : b(k) = Added(b(k - 1), list[k])
  BY <1>1, RebuiltGrows
<1> HIDE DEF b
<1>6. ASSUME NEW k \in 1 .. n
      PROVE  /\ k - 1 \in 0 .. n /\ k \in 0 .. n /\ P(k) = P(k - 1) \cup {list[k]}
             /\ list[k] \in SourceRecord /\ list[k].tag \notin TagsOf(P(k - 1))
  <2>1. k - 1 \in 0 .. n /\ k \in 0 .. n BY <1>1
  <2>2. \A i \in 1 .. k : i \in 1 .. k - 1 \/ i = k BY <1>1
  <2>3. \A i \in 1 .. k - 1 : i \in 1 .. k /\ i \in 1 .. n /\ i < k BY <1>1
  <2>4. k \in 1 .. k BY <1>1
  <2>5. P(k) = P(k - 1) \cup {list[k]} BY <2>2, <2>3, <2>4, Zenon
  <2>6. \A i \in 1 .. k - 1 : list[i].tag < list[k].tag BY <1>1, <2>3 DEF InOrder
  <2>7. ~(list[k].tag < list[k].tag) BY <1>1, SourceFacts
  <2>8. list[k].tag \notin TagsOf(P(k - 1)) BY <2>6, <2>7 DEF TagsOf
  <2> QED BY <1>1, <2>1, <2>5, <2>8
<1>7. ASSUME NEW k \in 1 .. n, Holds(b(k - 1), P(k - 1))
      PROVE  AddError(b(k - 1), list[k]) = "none" /\ Holds(b(k), P(k))
  <2> DEFINE c == b(k - 1)
             Q == P(k - 1)
             s == list[k]
  <2>1. Consistent(Q) /\ Consistent(Q \cup {s})
    <3>1. k - 1 \in 0 .. n /\ k \in 0 .. n /\ P(k) = P(k - 1) \cup {list[k]} BY <1>6
    <3> HIDE DEF P
    <3> QED BY <1>4, <3>1
  <2>2. s \in SourceRecord /\ s.tag \notin TagsOf(Q) /\ P(k) = Q \cup {s} BY <1>6
  <2>3. Holds(c, Q) BY <1>7
  <2>4. b(k) = Added(c, s) BY <1>5
  <2> HIDE DEF c, Q, s, P
  <2>5. AddError(c, s) = "none" BY <2>1, <2>2, <2>3, AddAnswers
  <2>6. Holds(Added(c, s), Q \cup {s}) BY <2>1, <2>2, <2>3, AddHolds
  <2> QED BY <2>2, <2>4, <2>5, <2>6 DEF c, s
<1>8. 0 \in T
  <2>1. P(0) = {} OBVIOUS
  <2>2. Holds(b(0), P(0)) BY <1>5, <2>1, EmptyHolds
  <2> QED BY <1>1, <2>2
<1>9. ASSUME NEW k \in (0 + 1) .. n, k - 1 \in T PROVE k \in T
  <2>1. k \in 1 .. n /\ k \in 0 .. n BY <1>1
  <2>2. Holds(b(k - 1), P(k - 1)) BY <1>9
  <2> HIDE DEF P
  <2> QED BY <1>7, <2>1, <2>2
<1> HIDE DEF T
<1>10. 0 .. n \subseteq T BY <1>1, <1>8, <1>9, CountUp
<1>11. \A k \in 0 .. n : Holds(b(k), P(k))
  <2> HIDE DEF P
  <2> QED BY <1>10 DEF T
<1>12. \A k \in 1 .. n : AddError(b(k - 1), list[k]) = "none"
  <2> HIDE DEF P
  <2> QED BY <1>6, <1>7, <1>11
<1>13. Holds(b(n), S)
  <2> HIDE DEF P
  <2> QED BY <1>1, <1>2, <1>11
<1>14. Serialize(b(n), header) = Wire(S, header)
  <2>1. OneEach(S) BY DEF Consistent
  <2> QED BY <1>13, <2>1, SerializeIsWire
<1> QED BY <1>12, <1>14 DEF b

---------------------------------------------------------------------------
(* The transcript at work. *)

TranscriptIInv ==
  /\ refusal # "BufferOverflow"
  /\ wire \in Seq(Byte) /\ Consistent(accepted)
  /\ origin = "none" => Holds(builder, accepted) /\ answer = NoAnswer
  /\ origin = "built" => \E header \in Headers : wire = Wire(accepted, header)
  /\ answer \in {NoAnswer, Decode(wire)}

(* The fields of a header are numbers.                                     *)
LEMMA HeaderType ==
  \A header \in Headers : header.arch \in Int /\ header.bits \in Int /\ header.policy \in Int
BY DEF Headers

(* A fresh builder is empty.                                               *)
LEMMA InitHolds == TranscriptInit => TranscriptIInv
<1> SUFFICES ASSUME TranscriptInit PROVE TranscriptIInv
  OBVIOUS
<1>1. << >> \in Seq(Byte) OBVIOUS
<1> QED BY <1>1, NoSource, EmptyHolds DEF TranscriptInit, TranscriptIInv

(* add_source takes what keeps the sources consistent, and never finds a   *)
(* buffer full.                                                            *)
LEMMA AddStep ==
  ASSUME TranscriptIInv, NEW s \in Offered, Add(s)
  PROVE  TranscriptIInv'
<1>1. s \in SourceRecord BY OfferedAssumption
<1>2. /\ Consistent(accepted) /\ Holds(builder, accepted) /\ answer = NoAnswer
      /\ origin = "none" /\ wire \in Seq(Byte)
  BY DEF TranscriptIInv, Add
<1>3. AddError(builder, s) # "BufferOverflow" BY <1>1, <1>2, AddAnswers
<1>4. UNCHANGED <<wire, origin, answer>> /\ refusal' = AddError(builder, s) BY DEF Add
<1>5. Consistent(accepted') /\ Holds(builder', accepted')
  <2>1. CASE AddError(builder, s) = "none"
    <3>1. builder' = Added(builder, s) /\ accepted' = accepted \cup {s} BY <2>1 DEF Add
    <3>2. s.tag \notin TagsOf(accepted) /\ Consistent(accepted \cup {s})
      BY <1>1, <1>2, <2>1, AddAnswers
    <3>3. Holds(Added(builder, s), accepted \cup {s}) BY <1>1, <1>2, <3>2, AddHolds
    <3> QED BY <3>1, <3>2, <3>3
  <2>2. CASE AddError(builder, s) # "none"
    <3>1. builder' = builder /\ accepted' = accepted BY <1>4, <2>2 DEF Add
    <3> QED BY <1>2, <3>1
  <2> QED BY <2>1, <2>2
<1> QED BY <1>2, <1>3, <1>4, <1>5 DEF TranscriptIInv

(* finalize writes the wire form of the sources taken.                     *)
LEMMA FinalizeStep ==
  ASSUME TranscriptIInv, NEW header \in Headers, Finalize(header)
  PROVE  TranscriptIInv'
<1>1. /\ Consistent(accepted) /\ Holds(builder, accepted) /\ answer = NoAnswer
  BY DEF TranscriptIInv, Finalize
<1>2. /\ wire' = Serialize(builder, header) /\ origin' = "built" /\ refusal' = "none"
      /\ accepted' = accepted /\ answer' = answer
  BY DEF Finalize
<1>3. wire' = Wire(accepted, header)
  <2>1. OneEach(accepted) BY <1>1 DEF Consistent
  <2> QED BY <1>1, <1>2, <2>1, SerializeIsWire
<1>4. header.arch \in Int /\ header.bits \in Int /\ header.policy \in Int BY HeaderType
<1>5. wire' \in Seq(Byte) BY <1>1, <1>3, <1>4, WireFits
<1> QED BY <1>1, <1>2, <1>3, <1>5 DEF TranscriptIInv

(* Another string of bytes, of which nothing is known.                     *)
LEMMA AnyBytes ==
  ASSUME TranscriptIInv, answer = NoAnswer, wire' \in Seq(Byte),
         origin' \in {"altered", "foreign"}, UNCHANGED <<refusal, accepted, answer>>
  PROVE  TranscriptIInv'
BY DEF TranscriptIInv

(* A string altered in one byte is a string of bytes.                      *)
LEMMA AlterStep ==
  ASSUME TranscriptIInv, AlterSomewhere
  PROVE  TranscriptIInv'
<1> DEFINE n == Len(wire)
<1>1. wire \in Seq(Byte) /\ n \in Nat /\ DOMAIN wire = 1 .. n
  BY LenProperties DEF TranscriptIInv
<1>2. ASSUME NEW altered, altered \in Seq(Byte), Alter(altered) PROVE TranscriptIInv'
  BY <1>2, AnyBytes DEF Alter
<1>3. PICK i \in DOMAIN wire :
        \/ Alter(RemoveAt(wire, i))
        \/ \E v \in OtherBytes : Alter([wire EXCEPT ![i] = v]) \/ Alter(InsertAt(wire, i, v))
  BY DEF AlterSomewhere
<1>4. i \in 1 .. n BY <1>1, <1>3
<1>5. SubSeq(wire, 1, i - 1) \in Seq(Byte) /\ SubSeq(wire, i, n) \in Seq(Byte)
      /\ SubSeq(wire, i + 1, n) \in Seq(Byte)
  <2>1. i - 1 \in Nat /\ i - 1 <= n /\ n <= n /\ i \in Nat /\ i <= n /\ 0 \in Nat /\ 0 <= i - 1
    BY <1>1, <1>4
  <2> DEFINE j == i - 1
  <2>2. j \in Nat /\ j <= n /\ 0 <= j BY <2>1
  <2> HIDE DEF j
  <2>3. SubSeq(wire, 0 + 1, j) \in Seq(Byte) BY <1>1, <2>1, <2>2, CutFacts
  <2>4. SubSeq(wire, j + 1, n) \in Seq(Byte) BY <1>1, <2>1, <2>2, CutFacts
  <2>5. SubSeq(wire, i + 1, n) \in Seq(Byte) BY <1>1, <2>1, CutFacts
  <2>6. 0 + 1 = 1 /\ j + 1 = i BY <1>1, <1>4 DEF j
  <2> QED BY <2>3, <2>4, <2>5, <2>6 DEF j
<1>6. CASE Alter(RemoveAt(wire, i))
  <2>1. RemoveAt(wire, i) = SubSeq(wire, 1, i - 1) \o SubSeq(wire, i + 1, n)
    BY Zenon DEF RemoveAt
  <2>2. RemoveAt(wire, i) \in Seq(Byte) BY <1>5, <2>1, ConcatProperties
  <2> QED BY <1>2, <1>6, <2>2
<1>7. ASSUME NEW v \in OtherBytes, Alter([wire EXCEPT ![i] = v]) PROVE TranscriptIInv'
  <2>1. v \in Byte BY OfferedAssumption
  <2>2. [wire EXCEPT ![i] = v] \in Seq(Byte) BY <1>1, <1>4, <2>1, ExceptSeq
  <2> QED BY <1>2, <1>7, <2>2
<1>8. ASSUME NEW v \in OtherBytes, Alter(InsertAt(wire, i, v)) PROVE TranscriptIInv'
  <2>1. v \in Byte /\ << v >> \in Seq(Byte) BY OfferedAssumption
  <2>2. InsertAt(wire, i, v) = (SubSeq(wire, 1, i - 1) \o << v >>) \o SubSeq(wire, i, n)
    BY Zenon DEF InsertAt
  <2>3. SubSeq(wire, 1, i - 1) \o << v >> \in Seq(Byte) BY <1>5, <2>1, ConcatProperties
  <2>4. InsertAt(wire, i, v) \in Seq(Byte) BY <1>5, <2>2, <2>3, ConcatProperties
  <2> QED BY <1>2, <1>8, <2>4
<1> QED BY <1>3, <1>6, <1>7, <1>8

(* And so are the records of somebody else.                                *)
LEMMA ReceiveStep ==
  ASSUME TranscriptIInv, NEW n \in 0 .. MaxForeignRecords, NEW sources \in [1 .. n -> Offered],
         NEW count \in {n, n + 1} \cup (1 .. n),
         NEW bitmap \in {0, Bitmap({sources[i].tag : i \in 1 .. n})},
         Receive(sources, count, bitmap)
  PROVE  TranscriptIInv'
<1> DEFINE header == [arch |-> 1, bits |-> 128, policy |-> 258]
           h == EncodedHeader(header, bitmap, count)
           ss == [i \in DOMAIN sources |-> EncodedRecord(sources[i])]
<1>1. count \in Byte
  <2>1. MaxForeignRecords \in 0 .. 254 BY OfferedAssumption
  <2> QED BY <2>1 DEF Byte
<1>2. bitmap \in Int
  <2>1. Bitmap({sources[i].tag : i \in 1 .. n}) \in U16 BY BitmapType
  <2>2. Bitmap({sources[i].tag : i \in 1 .. n}) \in Int BY <2>1, U16Int
  <2> QED BY <2>2
<1>3. h \in Seq(Byte)
  <2>1. header.arch \in Int /\ header.bits \in Int /\ header.policy \in Int OBVIOUS
  <2>2. h = EncodedHeader(header, bitmap, count) OBVIOUS
  <2> HIDE DEF header, h
  <2> QED BY ONLY <1>1, <1>2, <2>1, <2>2, HeaderBytes
<1>4. FlattenSeq(ss) \in Seq(Byte)
  <2>1. DOMAIN sources = 1 .. n /\ n \in Nat OBVIOUS
  <2>2. \A i \in 1 .. n : EncodedRecord(sources[i]) \in Seq(Byte)
    <3> SUFFICES ASSUME NEW i \in 1 .. n PROVE EncodedRecord(sources[i]) \in Seq(Byte)
      OBVIOUS
    <3>1. sources[i] \in SourceRecord BY OfferedAssumption
    <3> QED BY <3>1, EncodedFacts
  <2>3. ss = [i \in 1 .. n |-> EncodedRecord(sources[i])] BY <2>1
  <2>4. ss \in Seq(Seq(Byte)) /\ Len(ss) \in Nat BY <2>1, <2>2, <2>3
  <2> HIDE DEF ss
  <2>5. PICK f \in [0 .. Len(ss) -> Seq(Byte)] : f[Len(ss)] = FlattenSeq(ss)
    BY <2>4, Flattened
  <2> DEFINE m == Len(ss)
  <2>6. m \in 0 .. m /\ f \in [0 .. m -> Seq(Byte)] /\ f[m] = FlattenSeq(ss) BY <2>4, <2>5
  <2> HIDE DEF m
  <2> QED BY ONLY <2>6, SMT
<1>5. wire' = (Domain \o h) \o FlattenSeq(ss) BY Zenon DEF Receive
<1>6. wire' \in Seq(Byte)
  <2> HIDE DEF h, ss
  <2>1. Domain \o h \in Seq(Byte) BY <1>3, ConstantFacts, ConcatProperties
  <2> QED BY <1>4, <1>5, <2>1, ConcatProperties
<1>7. answer = NoAnswer /\ origin' = "foreign" /\ UNCHANGED <<refusal, accepted, answer>>
  BY DEF TranscriptIInv, Receive
<1> QED BY <1>6, <1>7, AnyBytes

(* The answer is that of decode.                                           *)
LEMMA AskStep ==
  ASSUME TranscriptIInv, Ask
  PROVE  TranscriptIInv'
BY DEF TranscriptIInv, Ask

(* Nothing happens.                                                        *)
LEMMA StutterStep ==
  ASSUME TranscriptIInv, UNCHANGED transcriptVars
  PROVE  TranscriptIInv'
BY DEF TranscriptIInv, transcriptVars

(* The invariant of the transcript: while sources are added, the builder   *)
(* (mod.rs:316) holds exactly those taken; what it wrote is their wire     *)
(* form; and an answer is that of decode (mod.rs:566) to the string at     *)
(* hand.                                                                   *)
THEOREM TranscriptInvariant == TranscriptSpec => []TranscriptIInv
<1>1. TranscriptIInv /\ [TranscriptNext]_transcriptVars => TranscriptIInv'
  <2> SUFFICES ASSUME TranscriptIInv, [TranscriptNext]_transcriptVars PROVE TranscriptIInv'
    OBVIOUS
  <2>1. CASE UNCHANGED transcriptVars BY <2>1, StutterStep
  <2>2. ASSUME NEW s \in Offered, Add(s) PROVE TranscriptIInv' BY <2>2, AddStep
  <2>3. ASSUME NEW header \in Headers, Finalize(header) PROVE TranscriptIInv'
    BY <2>3, FinalizeStep
  <2>4. CASE AlterSomewhere BY <2>4, AlterStep
  <2>5. ASSUME NEW n \in 0 .. MaxForeignRecords, NEW sources \in [1 .. n -> Offered],
               NEW count \in {n, n + 1} \cup (1 .. n),
               NEW bitmap \in {0, Bitmap({sources[i].tag : i \in 1 .. n})},
               Receive(sources, count, bitmap)
        PROVE  TranscriptIInv'
    BY <2>5, ReceiveStep
  <2>6. CASE Ask BY <2>6, AskStep
  <2> QED BY <2>1, <2>2, <2>3, <2>4, <2>5, <2>6, Zenon DEF TranscriptNext
<1> QED BY <1>1, InitHolds, PTL DEF TranscriptSpec

(* mod.rs:75-87, SCRATCH_BUDGET: whatever sources are offered, in          *)
(* whichever order and number, add_source never runs out of room for one   *)
(* that keeps the limits, and what finalize writes fits the transcript.    *)
THEOREM NeverTooLong == TranscriptSpec => []AlwaysFits
<1>1. TranscriptIInv => AlwaysFits
  <2> SUFFICES ASSUME TranscriptIInv, origin = "built"
               PROVE  Len(wire) <= TranscriptCapacity
    BY DEF TranscriptIInv, AlwaysFits
  <2>1. PICK header \in Headers : wire = Wire(accepted, header) BY DEF TranscriptIInv
  <2>2. header.arch \in Int /\ header.bits \in Int /\ header.policy \in Int BY HeaderType
  <2>3. Consistent(accepted) BY DEF TranscriptIInv
  <2> QED BY <2>1, <2>2, <2>3, WireFits
<1> QED BY <1>1, TranscriptInvariant, PTL

(* mod.rs:566, decode: it reads back from what serialize wrote exactly the *)
(* sources that were added, in the order of their tags; and of any string  *)
(* of bytes it accepts only what a builder would write if it were given    *)
(* the sources read, all of which the builder takes, under the header      *)
(* read.                                                                   *)
THEOREM ReadsExactlyWhatIsWritten == TranscriptSpec => []DecodesWhatSerializes
<1>1. TranscriptIInv => DecodesWhatSerializes
  <2> SUFFICES ASSUME TranscriptIInv PROVE DecodesWhatSerializes
    OBVIOUS
  <2>1. ASSUME origin = "built", answer # NoAnswer
        PROVE  answer.error = "none" /\ InOrder(answer.records, accepted)
    <3>1. PICK header \in Headers : wire = Wire(accepted, header) BY <2>1 DEF TranscriptIInv
    <3>2. header.arch \in Int /\ header.bits \in Int /\ header.policy \in Int BY HeaderType
    <3>3. Consistent(accepted) /\ answer = Decode(wire) BY <2>1 DEF TranscriptIInv
    <3> QED BY <3>1, <3>2, <3>3, DecodesWire
  <2>2. ASSUME answer.error = "none"
        PROVE  LET builders == Rebuilt(answer.records)
                   n        == Len(answer.records)
               IN  /\ \A i \in 1 .. n : AddError(builders[i - 1], answer.records[i]) = "none"
                   /\ wire = Serialize(builders[n], answer.header)
    <3>0. NoAnswer.error # "none" BY DEF NoAnswer
    <3>1. answer = Decode(wire)
      <4>1. answer \in {NoAnswer, Decode(wire)} BY DEF TranscriptIInv
      <4> QED BY <2>2, <3>0, <4>1, Zenon
    <3>2. wire \in Seq(Byte) BY DEF TranscriptIInv
    <3>3. answer.records \in Seq(SourceRecord) BY <2>2, <3>1, <3>2, DecodedIsWire
    <3>4. PICK S : /\ Consistent(S) /\ InOrder(answer.records, S)
                   /\ wire = Wire(S, answer.header)
      BY <2>2, <3>1, <3>2, DecodedIsWire
    <3> QED BY <3>3, <3>4, Rebuilds
  <2> QED BY <2>1, <2>2 DEF DecodesWhatSerializes
<1> QED BY <1>1, TranscriptInvariant, PTL
===========================================================================
