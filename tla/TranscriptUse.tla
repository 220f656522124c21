--------------------------- MODULE TranscriptUse ---------------------------
(***************************************************************************)
(* Transcript at work: sources offered in any order, accepted or refused;  *)
(* the result serialized, perhaps altered in one byte, and decoded; or     *)
(* records put together by somebody else, and decoded.                     *)
(***************************************************************************)
EXTENDS Transcript

CONSTANTS
  Offered,            \* sources [tag, algo, bytes] that may be offered
  OtherBytes,         \* values a byte may be altered to
  MaxForeignRecords   \* bound on the records somebody else puts together

ASSUME OfferedAssumption ==
  /\ Offered \subseteq SourceRecord /\ OtherBytes \subseteq Byte
  /\ MaxForeignRecords \in 0 .. 254

VARIABLES
  builder,    \* the TranscriptBuilder
  refusal,    \* the latest answer of add_source
  accepted,   \* history: the sources accepted
  wire,       \* the serialized form
  origin,     \* history: "none", "built", "altered" or "foreign"
  answer      \* what decode returned, or NoAnswer

transcriptVars == <<builder, refusal, accepted, wire, origin, answer>>

NoAnswer == [error |-> "not asked", header |-> <<>>, records |-> <<>>]

(* The only architecture, the two entropy targets, and a policy version. *)
Headers == {[arch |-> 1, bits |-> bits, policy |-> 258] : bits \in {128, 256}}

TranscriptInit ==
  /\ builder = Empty /\ refusal = "none" /\ accepted = {}
  /\ wire = <<>> /\ origin = "none" /\ answer = NoAnswer

Add(s) ==
  /\ origin = "none"
  /\ refusal' = AddError(builder, s)
  /\ IF refusal' = "none"
       THEN builder' = Added(builder, s) /\ accepted' = accepted \cup {s}
       ELSE UNCHANGED <<builder, accepted>>
  /\ UNCHANGED <<wire, origin, answer>>

(* finalize, whose scrub leaves nothing of the builder. *)
Finalize(header) ==
  /\ origin = "none"
  /\ wire' = Serialize(builder, header)
  /\ origin' = "built"
  /\ builder' = Empty /\ refusal' = "none"
  /\ UNCHANGED <<accepted, answer>>

(* One byte changed, left out or put in. *)
Alter(altered) ==
  /\ origin = "built" /\ answer = NoAnswer
  /\ wire' = altered /\ altered # wire
  /\ origin' = "altered"
  /\ UNCHANGED <<builder, refusal, accepted, answer>>

AlterSomewhere ==
  \E i \in DOMAIN wire :
    \/ Alter(RemoveAt(wire, i))
    \/ \E v \in OtherBytes : Alter([wire EXCEPT ![i] = v]) \/ Alter(InsertAt(wire, i, v))

(* Records in any order and number, under any count and bitmap. *)
Receive(sources, count, bitmap) ==
  /\ origin = "none" /\ builder = Empty /\ refusal = "none"
  /\ wire' = Domain \o EncodedHeader([arch |-> 1, bits |-> 128, policy |-> 258], bitmap, count)
             \o FlattenSeq([i \in DOMAIN sources |-> EncodedRecord(sources[i])])
  /\ origin' = "foreign"
  /\ UNCHANGED <<builder, refusal, accepted, answer>>

Ask ==
  /\ origin # "none" /\ answer = NoAnswer
  /\ answer' = Decode(wire)
  /\ UNCHANGED <<builder, refusal, accepted, wire, origin>>

TranscriptNext ==
  \/ \E s \in Offered : Add(s)
  \/ \E header \in Headers : Finalize(header)
  \/ AlterSomewhere
  \/ \E n \in 0 .. MaxForeignRecords : \E sources \in [1 .. n -> Offered] :
       \E count \in {n, n + 1} \cup (1 .. n) :
         \E bitmap \in {0, Bitmap({sources[i].tag : i \in 1 .. n})} :
           Receive(sources, count, bitmap)
  \/ Ask

TranscriptSpec == TranscriptInit /\ [][TranscriptNext]_transcriptVars

---------------------------------------------------------------------------
(* Properties. *)

(* mod.rs:75-87: whatever was staged fits the fixed buffers, so finalize,  *)
(* which cannot report an error, never has one.                            *)
AlwaysFits ==
  /\ refusal # "BufferOverflow"
  /\ origin = "built" => Len(wire) <= TranscriptCapacity

(* Exactly these sources, in the order of their tags. *)
InOrder(list, sources) ==
  /\ Range(list) = sources
  /\ \A i, j \in DOMAIN list : i < j => list[i].tag < list[j].tag

(* The builders that are given the sources of a list one after another.    *)
Rebuilt(list) ==
  LET upTo[i \in 0 .. Len(list)] ==
        IF i = 0 THEN Empty ELSE Added(upTo[i - 1], list[i])
  IN  upTo

(* mod.rs:566 "decode accepts exactly the set of inputs serialize can      *)
(* produce": what was serialized says, in whichever order it was staged,   *)
(* which sources there were; and what is accepted of anybody's bytes is    *)
(* what a builder would have made of these very sources, under the header  *)
(* it carries, of which decode asks neither architecture nor bits.         *)
DecodesWhatSerializes ==
  /\ origin = "built" /\ answer # NoAnswer =>
       answer.error = "none" /\ InOrder(answer.records, accepted)
  /\ answer.error = "none" =>
       LET builders == Rebuilt(answer.records)
           n        == Len(answer.records)
       IN  /\ \A i \in 1 .. n : AddError(builders[i - 1], answer.records[i]) = "none"
           /\ wire = Serialize(builders[n], answer.header)
===========================================================================
