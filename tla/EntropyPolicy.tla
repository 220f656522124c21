--------------------------- MODULE EntropyPolicy ---------------------------
(***************************************************************************)
(* The parser of the entropy policy (seed-protocol, policy/parser.rs): a   *)
(* fixed subset of TOML, read line by line, with a fixed set of sections   *)
(* and keys, in which everything not known is refused.                     *)
(*                                                                         *)
(* A line stands for what the lexical rules make of it: a header, a key    *)
(* with a value, or one of the ways in which a line can be no line.  A     *)
(* value is a pair <<form, content>>: a numeral is its number, or "huge"   *)
(* when it fits no integer type; a text is its name, and "long" is one     *)
(* that fits no field.                                                     *)
(***************************************************************************)
EXTENDS Integers, Sequences, FiniteSets

CONSTANTS
  MaxRecords   \* MAX_CPU_RULES, MAX_DENYLIST_ENTRIES, MAX_USB_TRNG_DEVICES, scaled down

ASSUME MaxRecordsAssumption == MaxRecords \in Nat \ {0}

VARIABLES
  section,   \* the section a key belongs to
  opened,    \* the tables met so far (seen_efi_rng ...)
  given,     \* of the top and of each table: the keys met, with their values
  pending,   \* the record being read (cpu_rule, denylist_entry, usb_trng_device)
  records,   \* of each array: the records finished
  verdict    \* "reading", "Ok", or the error

parser == <<section, opened, given, pending, records, verdict>>

---------------------------------------------------------------------------
(* Keys with their values, or with their types. *)

NoKeys == [k \in {} |-> k]

Joined(r, s) == [k \in DOMAIN r \cup DOMAIN s |-> IF k \in DOMAIN r THEN r[k] ELSE s[k]]

With(r, key, value) == Joined(r, [k \in {key} |-> value])

---------------------------------------------------------------------------
(* The schema. *)

Tables ==
  [top      |-> [policy_version |-> "u16"],
   efi_rng  |-> [approved |-> "bool", sole_source_allowed |-> "bool",
                 max_algorithms |-> "u8", allowed_algorithms |-> "algorithms"],
   rdseed   |-> [approved |-> "bool", sole_source_allowed |-> "bool",
                 instruction_width_bits |-> "u16", retry_limit |-> "u16",
                 min_successful_values |-> "u8", diagnostic_blocks |-> "u8"],
   rdrand   |-> [approved |-> "bool", sole_source_allowed |-> "bool",
                 supplementary_only |-> "bool"],
   usb_trng |-> [approved |-> "bool", sole_source_allowed |-> "bool",
                 min_read_bytes |-> "u16", read_timeout_ms |-> "u16",
                 max_read_retries |-> "u8"],
   tpm2     |-> [approved |-> "bool", sole_source_allowed |-> "bool",
                 max_bytes_per_call |-> "u8", retry_limit |-> "u8",
                 max_manufacturers |-> "u8", allowed_manufacturers |-> "manufacturers"],
   tpm12    |-> [approved |-> "bool", sole_source_allowed |-> "bool",
                 max_bytes_per_call |-> "u8", retry_limit |-> "u8", max_read_rounds |-> "u8",
                 max_manufacturers |-> "u8", allowed_manufacturers |-> "manufacturers"]]

CpuRange == [vendor |-> "vendor", family_min |-> "u16", family_max |-> "u16",
             model_min |-> "u8", model_max |-> "u8",
             stepping_min |-> "u8", stepping_max |-> "u8"]

Arrays ==
  [rdseed_cpu_rules |-> Joined(CpuRange, [allow |-> "bool", min_microcode_revision |-> "u32"]),
   denylist         |-> Joined(CpuRange, [reason |-> "reason"]),
   usb_trng_devices |-> [profile |-> "profile", vendor_id |-> "u16", product_id |-> "u16",
                         usb_class |-> "usb_class", init_command |-> "init_command",
                         min_firmware |-> "min_firmware", reason_pinned |-> "reason"]]

TableNames == DOMAIN Tables \ {"top"}
ArrayNames == DOMAIN Arrays

(* The keys of a section, with the type of each. *)
Schema(s) == IF s \in ArrayNames THEN Arrays[s] ELSE Tables[s]

(* What may be left out: the reviewed lists and the microcode condition. *)
Optional == {"allowed_algorithms", "allowed_manufacturers", "min_microcode_revision"}
Required(s) == DOMAIN Schema(s) \ Optional

---------------------------------------------------------------------------
(* Values. *)

(* parse_u8, parse_u16 and parse_u32; what is not "huge" fits 32 bits. *)
Fits(t, n) == CASE t = "u8" -> n <= 255 [] t = "u16" -> n <= 65535 [] t = "u32" -> TRUE

(* FixedStr::from_str and the two closed vocabularies. *)
TextError(t, text) ==
  CASE t = "profile" /\ text # "OneRNG"    -> "UnknownUsbTrngProfile"
    [] t = "usb_class" /\ text # "cdc-acm" -> "UnsupportedUsbClass"
    [] text = "long"                       -> "StringTooLong"
    [] OTHER                               -> "none"

(* MAX_ALGORITHMS, MAX_TPM_MANUFACTURERS *)
ListCapacity(t) == IF t = "algorithms" THEN 16 ELSE 8

(* for_each_array_string: the texts one after another, each kept before    *)
(* the next is looked at.                                                  *)
ListError(t, texts) ==
  LET Bad(i) == texts[i] = "long" \/ i > ListCapacity(t)
  IN  IF \E i \in DOMAIN texts : Bad(i)
        THEN LET first == CHOOSE i \in DOMAIN texts : Bad(i) /\ \A j \in 1 .. i - 1 : ~Bad(j)
             IN  IF texts[first] = "long" THEN "StringTooLong" ELSE "TooManyAlgorithms"
        ELSE "none"

(* What is wrong with a value given for a key of type t. *)
ValueError(t, value) ==
  LET form == value[1] content == value[2] IN
  CASE t = "bool" -> IF form = "bool" THEN "none" ELSE "InvalidBoolean"
    [] t \in {"u8", "u16", "u32"} ->
         IF form = "huge" THEN "IntegerOverflow"
         ELSE IF form # "int" THEN "InvalidInteger"
         ELSE IF Fits(t, content) THEN "none" ELSE "IntegerOverflow"
    [] t \in {"algorithms", "manufacturers"} ->
         IF form = "list" THEN ListError(t, content) ELSE "InvalidArray"
    [] OTHER -> IF form = "text" THEN TextError(t, content) ELSE "InvalidString"

---------------------------------------------------------------------------
Init ==
  /\ section = "top"
  /\ opened = {}
  /\ given = [s \in DOMAIN Tables |-> NoKeys]
  /\ pending = NoKeys
  /\ records = [a \in ArrayNames |-> <<>>]
  /\ verdict = "reading"

Reading == verdict = "reading"

Refuse(error) ==
  /\ verdict' = error
  /\ UNCHANGED <<section, opened, given, pending, records>>

(* build_range and the rest of finalize_pending: what is wrong with the    *)
(* record read so far, in the order in which the code looks.               *)
RangeInverted(r) ==
  \/ r.family_min[2] > r.family_max[2]
  \/ r.model_min[2] > r.model_max[2]
  \/ r.stepping_min[2] > r.stepping_max[2]

RecordError ==
  LET has == DOMAIN pending
      ranged == section \in {"rdseed_cpu_rules", "denylist"}
  IN  IF section \notin ArrayNames THEN "none"
      ELSE IF ranged /\ ~ DOMAIN CpuRange \subseteq has THEN "MissingField"
      ELSE IF ranged /\ RangeInverted(pending) THEN "InvalidRange"
      ELSE IF ~ Required(section) \subseteq has THEN "MissingField"
      ELSE IF Len(records[section]) >= MaxRecords THEN "TooManyRecords"
      ELSE "none"

\* Mutant: a record is kept only if another section follows it.
FinishedUnlessRepeated(next) ==
  IF section \in ArrayNames /\ section # next
    THEN [records EXCEPT ![section] = Append(@, pending)]
    ELSE records

(* The record is pushed when the next header, or the end, is met. *)
Finished(next) ==
  IF section \in ArrayNames
    THEN [records EXCEPT ![section] = Append(@, pending)]
    ELSE records

(* [name] and [[name]].  The record before is finished first, so its       *)
(* errors come before those of the header.                                 *)
Header(kind, name) ==
  IF RecordError # "none" THEN Refuse(RecordError)
  ELSE IF name \notin (IF kind = "table" THEN TableNames ELSE ArrayNames)
    THEN Refuse("UnknownSection")
  ELSE IF kind = "table" /\ name \in opened THEN Refuse("DuplicateSection")
  ELSE /\ section' = name
       /\ opened' = IF kind = "table" THEN opened \cup {name} ELSE opened
       /\ records' = Finished(name)
       /\ pending' = NoKeys
       /\ UNCHANGED <<given, verdict>>

(* key = value *)
Assignment(key, value) ==
  LET before == IF section \in ArrayNames THEN pending ELSE given[section]
      error  == IF key \notin DOMAIN Schema(section) THEN "UnknownKey"
                ELSE IF key \in DOMAIN before THEN "DuplicateKey"
                ELSE ValueError(Schema(section)[key], value)
  IN  IF error # "none" THEN Refuse(error)
      ELSE /\ IF section \in ArrayNames
                THEN pending' = With(pending, key, value) /\ UNCHANGED given
                ELSE given' = [given EXCEPT ![section] = With(@, key, value)]
                     /\ UNCHANGED pending
           /\ UNCHANGED <<section, opened, records, verdict>>

(* One line.  A malformed line has its error for a kind; blank lines and   *)
(* comments are not lines of the model.                                    *)
Malformed == {"LineTooLong", "UnterminatedHeader", "ExpectedEquals", "InvalidKey"}

ReadLine(l) ==
  /\ Reading
  /\ CASE l.kind \in Malformed          -> Refuse(l.kind)
       [] l.kind \in {"table", "array"} -> Header(l.kind, l.name)
       [] l.kind = "key"                -> Assignment(l.name, l.value)

---------------------------------------------------------------------------
(* The end of the file: the last record, what is missing, and the rules    *)
(* that relate fields.                                                     *)

Bool(s, k) == given[s][k][2]
Num(s, k)  == given[s][k][2]

MissingKey == \E s \in DOMAIN Tables : ~ Required(s) \subseteq DOMAIN given[s]

CrossError ==
  IF Bool("rdrand", "sole_source_allowed") THEN "RdrandSoleSourceNotAllowed"
  ELSE IF ~Bool("rdrand", "supplementary_only") THEN "RdrandMustBeSupplementaryOnly"
  ELSE IF Bool("rdseed", "approved") /\ Num("rdseed", "instruction_width_bits") # 64
    THEN "RdseedMustBe64Bit"
  ELSE IF Num("usb_trng", "min_read_bytes") \notin 16 .. 32 THEN "UsbTrngMinReadBytesOutOfRange"
  ELSE IF Bool("tpm2", "sole_source_allowed") THEN "Tpm2SoleSourceNotAllowed"
  ELSE IF Num("tpm2", "max_bytes_per_call") # 32 THEN "Tpm2MaxBytesMustBe32"
  ELSE IF Bool("tpm12", "sole_source_allowed") THEN "Tpm12SoleSourceNotAllowed"
  ELSE IF Num("tpm12", "max_bytes_per_call") # 32 THEN "Tpm12MaxBytesMustBe32"
  ELSE IF Num("tpm12", "max_read_rounds") \notin 1 .. 32 THEN "Tpm12ReadRoundsOutOfRange"
  ELSE "Ok"

\* Mutant: the last record is taken as it is.
EndOfFileUnfinished ==
  /\ Reading
  /\ verdict' = IF MissingKey THEN "MissingField" ELSE CrossError
  /\ records' = Finished("end")
  /\ pending' = NoKeys
  /\ UNCHANGED <<section, opened, given>>

EndOfFile ==
  /\ Reading
  /\ IF RecordError # "none"
       THEN verdict' = RecordError /\ UNCHANGED <<pending, records>>
       ELSE /\ verdict' = IF MissingKey THEN "MissingField" ELSE CrossError
            /\ records' = Finished("end")
            /\ pending' = NoKeys
  /\ UNCHANGED <<section, opened, given>>
===========================================================================
