---------------------------- MODULE PolicyFiles ----------------------------
(***************************************************************************)
(* The parser EntropyPolicy on policy files: a file read to its end, or to *)
(* the first line refused, and edited once before some line of it is read: *)
(* a line or a section left out or moved down, lines put in, or another    *)
(* value for a key.                                                        *)
(*                                                                         *)
(* What a well-formed file is, and what a policy parsed from it must hold, *)
(* is defined here over the whole file; the parser sees one line at a      *)
(* time.                                                                   *)
(***************************************************************************)
EXTENDS PolicyUse

CONSTANTS
  Lines,       \* the lines a file may have
  BaseFiles,   \* the files that are edited
  Insertions,  \* what an edit may put in
  Cpus,        \* the processors asked about
  Devices      \* the devices asked about, as pairs of vendor and product

(* A Boolean has a truth value, a numeral a number. *)
IsValue(v) ==
  /\ v = <<v[1], v[2]>>
  /\ v[1] = "bool" => v[2] \in BOOLEAN
  /\ v[1] = "int" => v[2] \in Nat

ASSUME LinesAssumption ==
  /\ \A l \in Lines :
       /\ l.kind \in {"table", "array", "key"} \cup Malformed
       /\ l.kind = "key" => IsValue(l.value)
  /\ BaseFiles \cup Insertions \subseteq Seq(Lines)

VARIABLES
  file,     \* history: the lines read so far
  rest,     \* the lines to come
  held,     \* the lines taken out
  edited    \* whether the file has been edited

vars == <<parser, file, rest, held, edited>>

---------------------------------------------------------------------------
FileInit ==
  /\ Init
  /\ rest \in BaseFiles
  /\ file = <<>> /\ held = <<>> /\ edited = FALSE

Edit ==
  /\ Reading /\ ~edited
  /\ edited' = TRUE
  /\ UNCHANGED <<parser, file>>

IsHeader(l) == l.kind \in {"table", "array"}

(* The next n lines are a section, or are cut off by the end. *)
IsSection(n) ==
  /\ \A i \in 2 .. n : ~IsHeader(rest[i])
  /\ n < Len(rest) => IsHeader(rest[n + 1])

(* The next line or section is left out, or comes later. *)
TakeOut(n) ==
  /\ Edit
  /\ n = 1 \/ IsSection(n)
  /\ held' = SubSeq(rest, 1, n) /\ rest' = SubSeq(rest, n + 1, Len(rest))

PutBack ==
  /\ Reading /\ held # <<>>
  /\ rest' = held \o rest /\ held' = <<>>
  /\ UNCHANGED <<parser, file, edited>>

PutIn(new) == Edit /\ rest' = new \o rest /\ UNCHANGED held

(* Another value for the key that comes next. *)
Change(l) ==
  /\ Edit
  /\ rest # <<>>
  /\ rest[1].kind = "key" /\ l.kind = "key"
  /\ l.name = rest[1].name /\ l.value # rest[1].value
  /\ rest' = << l >> \o Tail(rest)
  /\ UNCHANGED held

Read ==
  /\ rest # <<>>
  /\ ReadLine(rest[1])
  /\ file' = Append(file, rest[1]) /\ rest' = Tail(rest)
  /\ UNCHANGED <<held, edited>>

End ==
  /\ rest = <<>>
  /\ EndOfFile
  /\ UNCHANGED <<file, rest, held, edited>>

Next ==
  \/ \E n \in DOMAIN rest : TakeOut(n)
  \/ PutBack
  \/ \E new \in Insertions : PutIn(new)
  \/ \E l \in Lines : Change(l)
  \/ Read \/ End

Spec == FileInit /\ [][Next]_vars

---------------------------------------------------------------------------
(* Files as a whole. *)

Headers(f) == {i \in DOMAIN f : IsHeader(f[i])}

SectionAt(f, h) == IF h = 0 THEN "top" ELSE f[h].name

(* The keys under a header; the top has header 0. *)
Body(f, h) ==
  {i \in h + 1 .. Len(f) : f[i].kind = "key" /\ \A j \in h + 1 .. i - 1 : ~IsHeader(f[j])}

(* What they say, as a function from keys to values. *)
Said(f, h) ==
  LET body == Body(f, h)
  IN  [k \in {f[i].name : i \in body} |->
         LET i == CHOOSE i \in body : f[i].name = k IN f[i].value]

(* Every key is known, has a value of its type, and is given once. *)
KeysFit(f, h) ==
  LET types == Schema(SectionAt(f, h)) IN
  \A i \in Body(f, h) :
    /\ f[i].name \in DOMAIN types
    /\ ValueError(types[f[i].name], f[i].value) = "none"
    /\ \A j \in Body(f, h) : f[i].name = f[j].name => i = j

(* Nothing is missing, and no range is inverted. *)
Complete(s, said) ==
  /\ Required(s) \subseteq DOMAIN said
  /\ s \in {"rdseed_cpu_rules", "denylist"} =>
       \A p \in {<<"family_min", "family_max">>, <<"model_min", "model_max">>,
                 <<"stepping_min", "stepping_max">>} : said[p[1]][2] <= said[p[2]][2]

SectionWellFormed(f, h) == KeysFit(f, h) /\ Complete(SectionAt(f, h), Said(f, h))

(* The header of a table; the top has none. *)
HeaderOf(f, s) == IF s = "top" THEN 0 ELSE CHOOSE h \in Headers(f) : f[h].name = s

(* The headers of a name, and the place of one among them. *)
HeadersOf(f, s) == {h \in Headers(f) : f[h].name = s}
Place(f, h) == Cardinality({g \in HeadersOf(f, f[h].name) : g <= h})

(* SPEC 15: the rules about the values of the tables. *)
ValuesAllowed(f) ==
  LET said    == [s \in DOMAIN Tables |-> Said(f, HeaderOf(f, s))]
      V(s, k) == said[s][k][2] IN
  /\ ~V("rdrand", "sole_source_allowed") /\ V("rdrand", "supplementary_only")
  /\ V("rdseed", "approved") => V("rdseed", "instruction_width_bits") = 64
  /\ V("usb_trng", "min_read_bytes") \in 16 .. 32
  /\ \A t \in {"tpm2", "tpm12"} :
       ~V(t, "sole_source_allowed") /\ V(t, "max_bytes_per_call") = 32
  /\ V("tpm12", "max_read_rounds") \in 1 .. 32

WellFormed(f) ==
  /\ \A i \in DOMAIN f : f[i].kind \in {"table", "array", "key"}
  /\ \A h \in Headers(f) :
       f[h].name \in (IF f[h].kind = "table" THEN TableNames ELSE ArrayNames)
  /\ \A s \in TableNames : Cardinality(HeadersOf(f, s)) = 1
  /\ \A a \in ArrayNames : Cardinality(HeadersOf(f, a)) <= MaxRecords
  /\ \A h \in Headers(f) \cup {0} : SectionWellFormed(f, h)
  /\ ValuesAllowed(f)

---------------------------------------------------------------------------
(* What a file permits, read off its lines. *)

Yes  == <<"bool", TRUE>>
N(n) == <<"int", n>>

(* The sections of an array that cover a processor: the nearest to the end *)
(* of the file decides.                                                    *)
Covering(f, a, cpu) == {h \in HeadersOf(f, a) : InRange(Said(f, h), cpu)}

PermitsCpu(f, cpu) ==
  LET rules == Covering(f, "rdseed_cpu_rules", cpu)
      table == Said(f, HeaderOf(f, "rdseed"))
  IN  /\ table.approved = Yes /\ table.min_successful_values = N(4)
      /\ Covering(f, "denylist", cpu) = {}
      /\ \E h \in rules : Said(f, h).allow = Yes /\ \A other \in rules : other <= h

PermitsDevice(f, device) ==
  /\ Said(f, HeaderOf(f, "usb_trng")).approved = Yes
  /\ \E h \in HeadersOf(f, "usb_trng_devices") :
       Said(f, h).vendor_id = N(device[1]) /\ Said(f, h).product_id = N(device[2])

---------------------------------------------------------------------------
(* Properties. *)

(* parser.rs:244 "Any malformed or out-of-policy input is rejected ...     *)
(* there is no partial/best-effort success", and nothing else is: the      *)
(* parser, which sees a line at a time, accepts exactly the files that are *)
(* well-formed as a whole, the shipped one among them.                     *)
AcceptsExactlyWellFormed ==
  /\ verdict = "Ok" => WellFormed(file)
  /\ ~Reading /\ verdict # "Ok" => ~WellFormed(file \o rest)

(* A policy accepted holds what the file says, each value under the        *)
(* section it was written in, each record once and in its place, also of   *)
(* the last record, which no header follows.                               *)
StoresWhatIsWritten ==
  verdict = "Ok" =>
    /\ \A s \in DOMAIN Tables : given[s] = Said(file, HeaderOf(file, s))
    /\ \A a \in ArrayNames :
         /\ Len(records[a]) = Cardinality(HeadersOf(file, a))
         /\ \A h \in HeadersOf(file, a) : records[a][Place(file, h)] = Said(file, h)

(* types.rs:466 "last-match-wins lets a later, narrower rule override an   *)
(* earlier broad one": RDSEED is sampled on exactly the processors that    *)
(* the file permits (the rule nearest its end decides, no denylist entry   *)
(* covers them, wherever the sections stand), never on one it is not       *)
(* offered on, and a device is taken exactly when it is listed and the     *)
(* whole source approved.                                                  *)
AnswersAsWritten ==
  verdict = "Ok" =>
    /\ \A cpu \in Cpus :
         /\ SamplesRdseed(cpu) <=> PermitsCpu(file, cpu)
         /\ SamplesRdseed(cpu) => OffersRdseed(cpu)
    /\ \A d \in Devices : DeviceAllowed(d[1], d[2]) <=> PermitsDevice(file, d)

(* types.rs:180 "When Some(min_rev), a platform whose current microcode    *)
(* revision is unknown (not safely readable) or below min_rev does NOT     *)
(* satisfy this rule".  The program reads no revision, so RDSEED is        *)
(* sampled only where the rule that decides has no such condition.         *)
MicrocodeRequired ==
  verdict = "Ok" =>
    \A cpu \in Cpus : SamplesRdseed(cpu) => CpuAllowedWithMicrocode(cpu, Unknown)
===========================================================================
