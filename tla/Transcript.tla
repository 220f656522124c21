---------------------------- MODULE Transcript ----------------------------
(***************************************************************************)
(* The entropy transcript of seed-protocol (transcript/mod.rs): sources    *)
(* are staged in any order, serialized in the order of their tags, and a   *)
(* byte string that claims to be a transcript is decoded.  What is hashed  *)
(* into the phrase is the serialized form, so it must say which sources    *)
(* there were, and nothing else.                                           *)
(*                                                                         *)
(* A byte is a number.  The domain string stands in front of the header.   *)
(***************************************************************************)
EXTENDS Integers, Sequences, FiniteSets, SequencesExt

CONSTANTS
  Domain,              \* DOMAIN, scaled down
  CanonicalTags,       \* CANONICAL_TAG_BYTES
  MaxAlgoId,           \* MAX_ALGO_ID
  MaxMachineBytes,     \* MAX_MACHINE_SOURCE_BYTES
  MaxTpmBytes,         \* MAX_TPM2_SOURCE_BYTES
  MaxPhysicalEvents,   \* MAX_PHYSICAL_EVENTS
  TranscriptCapacity   \* TRANSCRIPT_CAPACITY

Byte == 0 .. 255
U16 == 0 .. 65535

(* "as u8" and "as u16". *)
AsU8(v)  == v % 256
AsU16(v) == v % 65536

(* SourceTag, by the bytes on the wire. *)
Tags == Range(CanonicalTags)
Dice == 16
Coins == 17
Physical == {Dice, Coins}
Tpm == {19, 20}

(* What add_source is given. *)
SourceRecord == [tag : Tags, algo : Seq(Byte), bytes : Seq(Byte)]

MaxSourceRecords == Len(CanonicalTags)
HeaderLen == 9
RecordOverhead == 4

(* The canonical order ascends, and a u16 has a bit for each of its tags.  *)
ASSUME TagsAssumption ==
  /\ CanonicalTags \in Seq(Byte) /\ MaxSourceRecords <= 16
  /\ \A i, j \in DOMAIN CanonicalTags : i < j => CanonicalTags[i] < CanonicalTags[j]

(* The lengths allowed fit the fields of a record: algo_len is a u8, and   *)
(* data_len is a u16.                                                      *)
ASSUME WidthAssumption ==
  /\ Domain \in Seq(Byte) /\ TranscriptCapacity \in Nat
  /\ MaxAlgoId \in Byte
  /\ {MaxMachineBytes, MaxTpmBytes, MaxPhysicalEvents} \subseteq U16

(* What the comment of SCRATCH_BUDGET adds up: the largest payloads of all *)
(* tags, with dice and coins in one history, fit next to the fixed parts.  *)
ASSUME CapacityAssumption ==
  Len(Domain) + HeaderLen + MaxSourceRecords * (RecordOverhead + MaxAlgoId)
    + Cardinality(Tags \ (Physical \cup Tpm)) * MaxMachineBytes
    + Cardinality(Tags \cap Tpm) * MaxTpmBytes + MaxPhysicalEvents
    <= TranscriptCapacity

(* SCRATCH_BUDGET *)
ScratchBudget ==
  TranscriptCapacity - (Len(Domain) + HeaderLen + MaxSourceRecords * RecordOverhead)

---------------------------------------------------------------------------
(* What both directions check. *)

MaxLenFor(tag) ==
  IF tag \in Physical THEN MaxPhysicalEvents
  ELSE IF tag \in Tpm THEN MaxTpmBytes
  ELSE MaxMachineBytes

(* validate_content *)
ContentError(tag, bytes) ==
  IF tag = Dice /\ ~ Range(bytes) \subseteq 1 .. 6 THEN "InvalidRollValue"
  ELSE IF tag = Coins /\ ~ Range(bytes) \subseteq {0, 1} THEN "InvalidFlipValue"
  ELSE "none"

---------------------------------------------------------------------------
(* The builder: payloads one after another in scratch, and where each      *)
(* record's lie.                                                           *)

Empty == [scratch |-> <<>>, records |-> <<>>]

Staged(b) == {b.records[i].tag : i \in DOMAIN b.records}
Find(b, tag) == b.records[CHOOSE i \in DOMAIN b.records : b.records[i].tag = tag]

\* Mutant: dice and coins may each fill the history.
SiblingLenIgnored(b, tag) == 0

(* What the other physical source has taken of the shared history. *)
SiblingLen(b, tag) ==
  IF tag \in Physical /\ Staged(b) \cap (Physical \ {tag}) # {}
    THEN Find(b, CHOOSE other \in Physical : other # tag).data_len
    ELSE 0

AddError(b, s) ==
  IF s.tag \in Staged(b) THEN "DuplicateTag"
  ELSE IF Len(b.records) >= MaxSourceRecords THEN "TooManyRecords"
  ELSE IF Len(s.algo) > MaxAlgoId THEN "AlgoIdTooLong"
  ELSE IF Len(s.bytes) > MaxLenFor(s.tag) THEN "SourceTooLong"
  ELSE IF s.tag \in Physical /\ Len(s.bytes) + SiblingLen(b, s.tag) > MaxPhysicalEvents
    THEN "SourceTooLong"
  ELSE IF ContentError(s.tag, s.bytes) # "none" THEN ContentError(s.tag, s.bytes)
  ELSE IF Len(b.scratch) + Len(s.algo) + Len(s.bytes) > ScratchBudget THEN "BufferOverflow"
  ELSE "none"

(* add_source, when it refuses nothing. *)
Added(b, s) ==
  LET algoOff == Len(b.scratch)
      dataOff == algoOff + Len(s.algo)
  IN  [scratch |-> b.scratch \o s.algo \o s.bytes,
       records |-> Append(b.records,
         [tag |-> s.tag, algo_off |-> algoOff, algo_len |-> AsU8(Len(s.algo)),
          data_off |-> dataOff, data_len |-> AsU16(Len(s.bytes))])]

---------------------------------------------------------------------------
(* serialize *)

Be16(v) == << AsU8(v \div 256), AsU8(v) >>
FromBe16(w, off) == w[off] * 256 + w[off + 1]

(* A u16 with bit i - 1 set for the tag at place i of the canonical order. *)
Bitmap(tags) ==
  LET upTo[i \in 0 .. MaxSourceRecords] ==
        IF i = 0 THEN 0
        ELSE AsU16(upTo[i - 1] + IF CanonicalTags[i] \in tags THEN 2 ^ (i - 1) ELSE 0)
  IN  upTo[MaxSourceRecords]

EncodedHeader(header, bitmap, count) ==
  Be16(header.arch) \o Be16(header.bits) \o Be16(header.policy) \o Be16(bitmap)
    \o << count >>

EncodedRecord(s) ==
  << s.tag, AsU8(Len(s.algo)) >> \o s.algo \o Be16(Len(s.bytes)) \o s.bytes

(* The payloads of a record, cut out of scratch. *)
StagedSource(b, tag) ==
  LET r == Find(b, tag)
  IN  [tag   |-> tag,
       algo  |-> SubSeq(b.scratch, r.algo_off + 1, r.algo_off + r.algo_len),
       bytes |-> SubSeq(b.scratch, r.data_off + 1, r.data_off + r.data_len)]

\* Mutant: records in the order in which they were added.
WrittenAsAdded(b, i) ==
  IF i <= Len(b.records) THEN EncodedRecord(StagedSource(b, b.records[i].tag)) ELSE <<>>

(* What serialize writes for the tag at place i of the canonical order.    *)
Written(b, i) ==
  IF CanonicalTags[i] \in Staged(b)
    THEN EncodedRecord(StagedSource(b, CanonicalTags[i])) ELSE <<>>

Serialize(b, header) ==
  Domain \o EncodedHeader(header, Bitmap(Staged(b)), Len(b.records))
         \o FlattenSeq([i \in 1 .. MaxSourceRecords |-> Written(b, i)])

---------------------------------------------------------------------------
(* decode.  off is the number of bytes consumed. *)

Cut(w, off, n) == SubSeq(w, off + 1, off + n)

Failed(d, error) == [d EXCEPT !.error = error]

(* One record. *)
DecodeRecord(w, d) ==
  LET has(n)  == d.off + n <= Len(w)
      tag     == w[d.off + 1]
      algoLen == w[d.off + 2]
      dataAt  == d.off + 2 + algoLen
      dataLen == FromBe16(w, dataAt + 1)
      total   == IF tag \in Physical THEN d.physical + dataLen ELSE d.physical
      data    == Cut(w, dataAt + 2, dataLen)
  IN  IF ~has(1) THEN Failed(d, "Truncated")
      ELSE IF tag \notin Tags THEN Failed(d, "UnknownTag")
      ELSE IF tag = d.last THEN Failed(d, "DuplicateTag")
      ELSE IF tag < d.last THEN Failed(d, "OutOfCanonicalOrder")
      ELSE IF ~has(2) THEN Failed(d, "Truncated")
      ELSE IF algoLen > MaxAlgoId THEN Failed(d, "AlgoIdTooLong")
      ELSE IF ~has(2 + algoLen) \/ ~has(4 + algoLen) THEN Failed(d, "Truncated")
      ELSE IF dataLen > MaxLenFor(tag) THEN Failed(d, "SourceTooLong")
      ELSE IF tag \in Physical /\ total > MaxPhysicalEvents THEN Failed(d, "SourceTooLong")
      ELSE IF ~has(4 + algoLen + dataLen) THEN Failed(d, "Truncated")
      ELSE IF ContentError(tag, data) # "none" THEN Failed(d, ContentError(tag, data))
      ELSE [off |-> dataAt + 2 + dataLen, last |-> tag, physical |-> total,
            records |-> Append(d.records, [tag   |-> tag,
                                           algo  |-> Cut(w, d.off + 2, algoLen),
                                           bytes |-> data]),
            error |-> "none"]

NothingDecoded == [off |-> Len(Domain) + HeaderLen, last |-> -1, physical |-> 0,
                   records |-> <<>>, error |-> "none"]

(* The loop over the records: where it stands after each of count rounds.  *)
Rounds(w, count) ==
  LET after[k \in 0 .. count] ==
        IF k = 0 THEN NothingDecoded
        ELSE IF after[k - 1].error # "none" THEN after[k - 1]
        ELSE DecodeRecord(w, after[k - 1])
  IN  after

BodyError(w, d) ==
  IF d.error # "none" THEN d.error
  ELSE IF d.off # Len(w) THEN "TrailingBytes"
  ELSE IF Bitmap({d.records[i].tag : i \in DOMAIN d.records}) # FromBe16(w, Len(Domain) + 7)
    THEN "PresenceMismatch"
  ELSE "none"

Decode(w) ==
  LET count  == w[Len(Domain) + HeaderLen]
      at(i)  == FromBe16(w, Len(Domain) + i)
      body   == Rounds(w, count)[count]
      Result(error) == [error |-> error, header |-> <<>>, records |-> <<>>]
  IN  IF Len(w) > TranscriptCapacity THEN Result("Oversized")
      ELSE IF Len(w) < Len(Domain) THEN Result("Truncated")
      ELSE IF Cut(w, 0, Len(Domain)) # Domain THEN Result("BadDomain")
      ELSE IF Len(Domain) + HeaderLen > Len(w) THEN Result("Truncated")
      ELSE IF count > MaxSourceRecords THEN Result("TooManyRecords")
      ELSE IF BodyError(w, body) # "none" THEN Result(BodyError(w, body))
      ELSE [error   |-> "none",
            header  |-> [arch |-> at(1), bits |-> at(3), policy |-> at(5)],
            records |-> body.records]
===========================================================================
