------------------------- MODULE PolicyFiles_proofs -------------------------
(***************************************************************************)
(* Theorems about PolicyFiles, for files of any lines and any length, read *)
(* and edited in any order: which files the parser accepts, what it stores *)
(* of them and what the lookups answer.                                    *)
(*                                                                         *)
(* The parser sees one line at a time and forgets the lines it has seen;   *)
(* well-formedness is about whole files.  So the invariant says what the   *)
(* state of the parser is in terms of the lines read (Parsed), and what    *)
(* these lines have in common with every well-formed file that begins with *)
(* them (Accepted); a line is refused when no such file goes on with it.   *)
(***************************************************************************)
EXTENDS PolicyFiles, FiniteSetTheorems, TLAPS

---------------------------------------------------------------------------
(* The schema, looked at once. *)

(* The sections: the tables, the top among them, and the arrays.           *)
LEMMA SchemaNames ==
  /\ DOMAIN Tables = {"top"} \cup TableNames
  /\ "top" \notin TableNames \cup ArrayNames
  /\ TableNames \cap ArrayNames = {}
  /\ {"rdseed", "rdrand", "usb_trng", "tpm2", "tpm12"} \subseteq TableNames
  /\ ArrayNames = {"rdseed_cpu_rules", "denylist", "usb_trng_devices"}
BY DEF TableNames, ArrayNames, Tables, Arrays

(* A table that was never opened lacks something. *)
LEMMA TablesRequire == \A s \in TableNames : Required(s) # {}
<1>1. \A s \in TableNames : "approved" \in DOMAIN Tables[s]
  BY DEF TableNames, Tables
<1> QED BY <1>1, SchemaNames DEF Required, Optional, Schema

(* The keys by which a processor range is bounded. *)
Bounds == {"family_min", "family_max", "model_min", "model_max", "stepping_min", "stepping_max"}

(* An array with a processor range requires all its keys, the bounds       *)
(* are numerals.                                                           *)
LEMMA RangeKeys ==
  \A a \in {"rdseed_cpu_rules", "denylist"} :
    /\ DOMAIN CpuRange \subseteq Required(a)
    /\ Bounds \subseteq DOMAIN CpuRange
    /\ \A k \in Bounds : Schema(a)[k] \in {"u8", "u16"}
<1>1. Schema("rdseed_cpu_rules") = Joined(CpuRange, [allow |-> "bool", min_microcode_revision |-> "u32"])
  BY SchemaNames DEF Schema, Arrays
<1>2. Schema("denylist") = Joined(CpuRange, [reason |-> "reason"])
  BY SchemaNames DEF Schema, Arrays
<1>3. DOMAIN CpuRange \cap Optional = {} /\ Bounds \subseteq DOMAIN CpuRange
  BY DEF CpuRange, Optional, Bounds
<1>4. \A k \in Bounds : CpuRange[k] \in {"u8", "u16"}
  BY DEF CpuRange, Bounds
<1> QED BY <1>1, <1>2, <1>3, <1>4 DEF Joined, Required

(* The keys that the rules between fields and the lookups read. *)
LEMMA FieldTypes ==
  /\ \A s \in {"rdseed", "rdrand", "usb_trng", "tpm2", "tpm12"} :
       Schema(s)["approved"] = "bool" /\ Schema(s)["sole_source_allowed"] = "bool"
  /\ Schema("rdseed")["min_successful_values"] = "u8"
  /\ Schema("rdseed_cpu_rules")["allow"] = "bool"
  /\ Schema("usb_trng_devices")["vendor_id"] = "u16"
  /\ Schema("usb_trng_devices")["product_id"] = "u16"
  /\ "approved" \in Required("rdseed") /\ "min_successful_values" \in Required("rdseed")
  /\ "approved" \in Required("usb_trng")
  /\ "allow" \in Required("rdseed_cpu_rules")
  /\ {"vendor_id", "product_id"} \subseteq Required("usb_trng_devices")
<1>1. \A s \in TableNames : Schema(s) = Tables[s]
  BY SchemaNames DEF Schema
<1>2. \A a \in ArrayNames : Schema(a) = Arrays[a]
  BY DEF Schema
<1>3. DOMAIN CpuRange \cap {"allow"} = {}
  BY DEF CpuRange
<1> QED BY <1>1, <1>2, <1>3, SchemaNames DEF Tables, Arrays, Joined, Required, Optional

---------------------------------------------------------------------------
(* Values. *)

(* A value without an error has the form of its type.                      *)
LEMMA ValueErrorFacts ==
  ASSUME NEW t, NEW v
  PROVE  /\ ValueError(t, v) \notin {"Ok", "reading"}
         /\ t \in {"u8", "u16", "u32"} /\ ValueError(t, v) = "none" => v[1] = "int"
         /\ t = "bool" /\ ValueError(t, v) = "none" => v[1] = "bool"
BY DEF ValueError, ListError, TextError

---------------------------------------------------------------------------
(* Files, and what stays true of a file when it goes on. *)

File == Seq(Lines)

(* The file g begins with f. *)
Begins(f, g) ==
  /\ Len(f) <= Len(g)
  /\ \A i \in 1 .. Len(f) : g[i] = f[i]

(* A file with one line more begins with the file.                         *)
LEMMA AppendBegins ==
  ASSUME NEW f \in File, NEW l \in Lines
  PROVE  /\ Append(f, l) \in File /\ Begins(f, Append(f, l))
         /\ Len(Append(f, l)) = Len(f) + 1 /\ Append(f, l)[Len(f) + 1] = l
BY DEF File, Begins

(* A file begins with its first part.                                      *)
LEMMA ConcatBegins ==
  ASSUME NEW f \in File, NEW r \in File
  PROVE  f \o r \in File /\ Begins(f, f \o r)
BY DEF File, Begins

(* Headers stand among the lines of the file, and there are finitely many. *)
LEMMA HeaderFacts ==
  ASSUME NEW f \in File
  PROVE  /\ Headers(f) \subseteq 1 .. Len(f) /\ IsFiniteSet(Headers(f))
         /\ \A h \in Headers(f) : SectionAt(f, h) = f[h].name
         /\ SectionAt(f, 0) = "top"
         /\ \A s : HeadersOf(f, s) \subseteq Headers(f) /\ IsFiniteSet(HeadersOf(f, s))
<1>1. Headers(f) \subseteq 1 .. Len(f)
  BY DEF Headers, File
<1>2. IsFiniteSet(1 .. Len(f))
  BY FS_Interval DEF File
<1>3. IsFiniteSet(Headers(f))
  BY <1>1, <1>2, FS_Subset
<1>4. \A s : HeadersOf(f, s) \subseteq Headers(f)
  BY DEF HeadersOf
<1>5. \A s : IsFiniteSet(HeadersOf(f, s))
  BY <1>3, <1>4, FS_Subset
<1>6. 0 \notin 1 .. Len(f)
  BY DEF File
<1> QED BY <1>1, <1>3, <1>4, <1>5, <1>6 DEF SectionAt

(* The headers and bodies of the beginning are those of the whole, as far  *)
(* as it goes; a body that a header has ended is final.                    *)
LEMMA BeginsFacts ==
  ASSUME NEW f \in File, NEW g \in File, Begins(f, g)
  PROVE  /\ Headers(f) = {i \in Headers(g) : i <= Len(f)}
         /\ \A h \in 0 .. Len(f) : SectionAt(g, h) = SectionAt(f, h)
         /\ \A h \in 0 .. Len(f) : Body(f, h) = {i \in Body(g, h) : i <= Len(f)}
         /\ \A h \in 0 .. Len(f), k \in Headers(f) : h < k => Body(g, h) = Body(f, h)
<1>1. Len(f) \in Nat /\ Len(g) \in Nat /\ DOMAIN f = 1 .. Len(f) /\ DOMAIN g = 1 .. Len(g)
  BY DEF File
<1>2. Headers(f) = {i \in Headers(g) : i <= Len(f)}
  BY <1>1 DEF Begins, Headers
<1>3. \A h \in 0 .. Len(f) : SectionAt(g, h) = SectionAt(f, h)
  BY <1>1 DEF Begins, SectionAt
<1>4. ASSUME NEW h \in 0 .. Len(f)
      PROVE  Body(f, h) = {i \in Body(g, h) : i <= Len(f)}
  BY <1>1 DEF Begins, Body
<1>5. ASSUME NEW h \in 0 .. Len(f), NEW k \in Headers(f), h < k
      PROVE  Body(g, h) = Body(f, h)
  <2>1. k \in 1 .. Len(f) /\ IsHeader(g[k])
    BY <1>1 DEF Headers, Begins
  <2>2. \A i \in Body(g, h) : ~(i > k)
    BY <1>1, <1>5, <2>1 DEF Body
  <2>3. \A i \in Body(g, h) : i <= Len(f)
    BY <1>1, <2>1, <2>2 DEF Body
  <2> QED BY <1>4, <2>3
<1> QED BY <1>2, <1>3, <1>4, <1>5

(* The lines under a header are keys, and come after it.                   *)
LEMMA BodyFacts ==
  ASSUME NEW f \in File, NEW h \in Nat
  PROVE  /\ Body(f, h) \subseteq 1 .. Len(f)
         /\ \A i \in Body(f, h) : i > h /\ f[i] \in Lines /\ f[i].kind = "key"
BY DEF Body, File

(* The current section: the one after the last header. *)
Current(f, h) == h \in Headers(f) \cup {0} /\ \A k \in Headers(f) : k <= h

(* One line more. *)
LEMMA OneLineMore ==
  ASSUME NEW f \in File, NEW l \in Lines, NEW cur, Current(f, cur)
  PROVE  LET g == Append(f, l) IN
         /\ cur \in 0 .. Len(f)
         /\ IsHeader(l) =>
              /\ Headers(g) = Headers(f) \cup {Len(g)} /\ Current(g, Len(g))
              /\ Body(g, Len(g)) = {}
              /\ \A h \in Headers(f) \cup {0} : Body(g, h) = Body(f, h)
         /\ l.kind = "key" =>
              /\ Headers(g) = Headers(f) /\ Current(g, cur)
              /\ Body(g, cur) = Body(f, cur) \cup {Len(g)}
              /\ \A h \in Headers(f) \cup {0} : h # cur => Body(g, h) = Body(f, h)
<1> DEFINE g == Append(f, l)
<1>1. Len(f) \in Nat /\ g \in File /\ Len(g) = Len(f) + 1 /\ DOMAIN g = 1 .. Len(g)
      /\ g[Len(g)] = l /\ \A i \in 1 .. Len(f) : g[i] = f[i]
  BY DEF File
<1>2. Begins(f, g)
  BY AppendBegins
<1>3. Headers(f) \subseteq 1 .. Len(f) /\ cur \in 0 .. Len(f)
  BY <1>1, HeaderFacts DEF Current
<1> HIDE DEF g
<1>4. Headers(g) = Headers(f) \cup (IF IsHeader(l) THEN {Len(g)} ELSE {})
  BY <1>1, <1>2, BeginsFacts DEF Headers
<1>5. CASE IsHeader(l)
  <2>1. Headers(g) = Headers(f) \cup {Len(g)}
    BY <1>4, <1>5
  <2>2. Current(g, Len(g))
    BY <2>1, <1>1, <1>3 DEF Current
  <2>3. Body(g, Len(g)) = {}
    BY <1>1 DEF Body
  <2>4. \A h \in Headers(f) \cup {0} : Body(g, h) = Body(f, h)
    <3>1. Len(g) \notin Body(g, 0) /\ \A h \in Headers(f) : Len(g) \notin Body(g, h)
      BY <1>1, <1>5 DEF Body, IsHeader
    <3>2. \A h \in Headers(f) \cup {0} : Body(f, h) = {i \in Body(g, h) : i <= Len(f)}
      BY <1>1, <1>2, <1>3, BeginsFacts
    <3>3. \A h \in Headers(f) \cup {0} : Body(g, h) \subseteq 1 .. Len(g)
      BY <1>1, <1>3, BodyFacts
    <3> SUFFICES ASSUME NEW h \in Headers(f) \cup {0} PROVE Body(g, h) = Body(f, h)
      OBVIOUS
    <3>4. Len(g) \notin Body(g, h) /\ Body(g, h) \subseteq 1 .. Len(g)
      BY <3>1, <3>3
    <3>5. Body(f, h) = {i \in Body(g, h) : i <= Len(f)}
      BY <3>2
    <3>6. \A i \in Body(g, h) : i <= Len(f)
      BY <1>1, <3>4
    <3> QED BY <3>5, <3>6
  <2> QED BY <1>3, <1>5, <2>1, <2>2, <2>3, <2>4 DEF g, IsHeader
<1>6. CASE l.kind = "key"
  <2>1. ~IsHeader(l)
    BY <1>6 DEF IsHeader
  <2>2. Headers(g) = Headers(f) /\ Current(g, cur)
    BY <1>4, <2>1 DEF Current
  <2>3. \A h \in Headers(f) \cup {0} : Body(f, h) = {i \in Body(g, h) : i <= Len(f)}
    BY <1>1, <1>2, <1>3, BeginsFacts
  <2>4. \A h \in Headers(f) \cup {0} : Body(g, h) \subseteq 1 .. Len(g)
    BY <1>1, <1>3, BodyFacts
  <2>5. Len(g) \in Body(g, cur)
    <3>1. \A j \in cur + 1 .. Len(g) - 1 : ~IsHeader(g[j])
      <4> SUFFICES ASSUME NEW j \in cur + 1 .. Len(g) - 1, IsHeader(g[j]) PROVE FALSE
        OBVIOUS
      <4>1. j \in Headers(g)
        BY <1>1, <1>3 DEF Headers
      <4> QED BY <4>1, <2>2, <1>1, <1>3 DEF Current
    <3> QED BY <3>1, <1>1, <1>3, <1>6 DEF Body
  <2>6. ASSUME NEW h \in Headers(f) \cup {0}, h # cur
        PROVE  Body(g, h) = Body(f, h)
    <3>1. cur \in Headers(f) /\ h < cur /\ h \in 0 .. Len(f)
      BY <2>6, <1>1, <1>3 DEF Current
    <3> QED BY <3>1, <1>1, <1>2, BeginsFacts
  <2>7. Body(g, cur) = Body(f, cur) \cup {Len(g)}
    BY <1>1, <2>3, <2>4, <2>5 DEF Current
  <2> QED BY <1>3, <2>1, <2>2, <2>6, <2>7 DEF g
<1> QED BY <1>3, <1>5, <1>6 DEF g

---------------------------------------------------------------------------
(* What a section says. *)

Keys == {l.name : l \in Lines}
Values == {l.value : l \in Lines}
Record == UNION {[K -> Values] : K \in SUBSET Keys}

(* Records are functions from keys to values; a key that is new makes a    *)
(* larger one.                                                             *)
LEMMA RecordFacts ==
  /\ NoKeys \in Record /\ DOMAIN NoKeys = {}
  /\ \A r \in Record : DOMAIN r \subseteq Keys /\ r = [k \in DOMAIN r |-> r[k]]
  /\ \A r \in Record, l \in Lines :
       l.name \notin DOMAIN r =>
         /\ With(r, l.name, l.value) \in Record
         /\ DOMAIN With(r, l.name, l.value) = DOMAIN r \cup {l.name}
         /\ With(r, l.name, l.value)[l.name] = l.value
         /\ \A k \in DOMAIN r : With(r, l.name, l.value)[k] = r[k]
<1>1. NoKeys \in Record /\ DOMAIN NoKeys = {}
  <2>1. NoKeys \in [{} -> Values]
    BY DEF NoKeys
  <2> QED BY <2>1 DEF Record, NoKeys
<1>2. \A r \in Record : DOMAIN r \subseteq Keys /\ r \in [DOMAIN r -> Values]
  BY DEF Record
<1>3. ASSUME NEW r \in Record, NEW l \in Lines, l.name \notin DOMAIN r
      PROVE  LET w == With(r, l.name, l.value) IN
             /\ w \in Record /\ DOMAIN w = DOMAIN r \cup {l.name} /\ w[l.name] = l.value
             /\ \A k \in DOMAIN r : w[k] = r[k]
  <2> DEFINE w == With(r, l.name, l.value)
  <2>1. w = [k \in DOMAIN r \cup {l.name} |-> IF k \in DOMAIN r THEN r[k] ELSE l.value]
    BY DEF With, Joined
  <2>2. DOMAIN r \cup {l.name} \in SUBSET Keys /\ l.value \in Values
    BY <1>2 DEF Keys, Values
  <2>3. w \in [DOMAIN r \cup {l.name} -> Values]
    BY <1>2, <2>1, <2>2
  <2>4. w \in Record
    BY <2>2, <2>3 DEF Record
  <2> QED BY <1>3, <2>1, <2>4
<1> QED BY <1>1, <1>2, <1>3

(* A section whose keys fit says of each key what its only line says.      *)
LEMMA SaidFacts ==
  ASSUME NEW f \in File, NEW h \in Nat, KeysFit(f, h)
  PROVE  /\ DOMAIN Said(f, h) = {f[i].name : i \in Body(f, h)}
         /\ \A i \in Body(f, h) : Said(f, h)[f[i].name] = f[i].value
         /\ Said(f, h) \in Record
<1>1. DOMAIN Said(f, h) = {f[i].name : i \in Body(f, h)}
  BY DEF Said
<1>2. ASSUME NEW i \in Body(f, h)
      PROVE  Said(f, h)[f[i].name] = f[i].value
  <2> DEFINE j == CHOOSE j \in Body(f, h) : f[j].name = f[i].name
  <2>1. j \in Body(f, h) /\ f[j].name = f[i].name
    OBVIOUS
  <2>2. j = i
    BY <2>1 DEF KeysFit
  <2>3. Said(f, h)[f[i].name] = f[j].value
    BY DEF Said
  <2> QED BY <2>2, <2>3
<1>3. Said(f, h) \in Record
  <2>1. \A i \in Body(f, h) : f[i].name \in Keys /\ f[i].value \in Values
    BY BodyFacts DEF Keys, Values
  <2>2. Said(f, h) = [k \in DOMAIN Said(f, h) |-> Said(f, h)[k]]
    BY DEF Said
  <2>3. DOMAIN Said(f, h) \in SUBSET Keys
    BY <1>1, <2>1
  <2>4. \A k \in DOMAIN Said(f, h) : Said(f, h)[k] \in Values
    BY <1>1, <1>2, <2>1
  <2>5. Said(f, h) \in [DOMAIN Said(f, h) -> Values]
    BY <2>2, <2>4
  <2> QED BY <2>3, <2>5 DEF Record
<1> QED BY <1>1, <1>2, <1>3

(* The record with the keys and the values of a section is what it says.   *)
LEMMA SaidIs ==
  ASSUME NEW f \in File, NEW h \in Nat, KeysFit(f, h), NEW r \in Record,
         DOMAIN r = {f[i].name : i \in Body(f, h)},
         \A i \in Body(f, h) : r[f[i].name] = f[i].value
  PROVE  r = Said(f, h)
<1>1. DOMAIN r = DOMAIN Said(f, h) /\ \A k \in DOMAIN r : r[k] = Said(f, h)[k]
  <2>1. DOMAIN r = DOMAIN Said(f, h)
    BY SaidFacts
  <2>2. \A i \in Body(f, h) : Said(f, h)[f[i].name] = f[i].value
    BY SaidFacts
  <2>3. \A k \in DOMAIN r : \E i \in Body(f, h) : k = f[i].name
    OBVIOUS
  <2> QED BY <2>1, <2>2, <2>3
<1>2. r = [k \in DOMAIN r |-> r[k]] /\ Said(f, h) = [k \in DOMAIN Said(f, h) |-> Said(f, h)[k]]
  BY RecordFacts, SaidFacts
<1> QED BY <1>1, <1>2

(* A section that is not touched goes on saying the same. *)
LEMMA SaidSame ==
  ASSUME NEW f \in File, NEW g \in File, Begins(f, g), NEW h \in 0 .. Len(f),
         Body(g, h) = Body(f, h), KeysFit(f, h)
  PROVE  KeysFit(g, h) /\ Said(g, h) = Said(f, h)
<1> h \in Nat
  BY DEF File
<1>1. \A i \in Body(f, h) : g[i] = f[i]
  <2>1. Body(f, h) \subseteq 1 .. Len(f)
    BY BodyFacts
  <2> QED BY <2>1 DEF Begins
<1>2. SectionAt(g, h) = SectionAt(f, h)
  BY BeginsFacts
<1>3. KeysFit(g, h)
  BY <1>1, <1>2 DEF KeysFit
<1>4. {f[i].name : i \in Body(f, h)} = {g[i].name : i \in Body(g, h)}
  BY <1>1
<1>5. \A i \in Body(g, h) : Said(f, h)[g[i].name] = g[i].value
  <2>1. \A i \in Body(f, h) : Said(f, h)[f[i].name] = f[i].value
    BY SaidFacts
  <2> QED BY <2>1, <1>1
<1> QED BY <1>3, <1>4, <1>5, SaidFacts, SaidIs

(* A key that fits adds what it says to the current section. *)
LEMMA SaidMore ==
  ASSUME NEW f \in File, NEW l \in Lines, l.kind = "key", NEW cur, Current(f, cur),
         KeysFit(f, cur),
         l.name \in DOMAIN Schema(SectionAt(f, cur)),
         ValueError(Schema(SectionAt(f, cur))[l.name], l.value) = "none",
         l.name \notin DOMAIN Said(f, cur)
  PROVE  /\ KeysFit(Append(f, l), cur)
         /\ Said(Append(f, l), cur) = With(Said(f, cur), l.name, l.value)
<1> DEFINE g == Append(f, l)
<1>1. g \in File /\ Begins(f, g) /\ g[Len(g)] = l /\ Len(g) = Len(f) + 1
  BY AppendBegins
<1>2. cur \in 0 .. Len(f) /\ Body(g, cur) = Body(f, cur) \cup {Len(g)}
  BY OneLineMore
<1> cur \in Nat
  BY <1>2 DEF File
<1> HIDE DEF g
<1>3. SectionAt(g, cur) = SectionAt(f, cur)
  BY <1>1, <1>2, BeginsFacts
<1> DEFINE said == Said(f, cur)
<1>3a. /\ said \in Record
       /\ DOMAIN said = {f[i].name : i \in Body(f, cur)}
       /\ \A i \in Body(f, cur) : said[f[i].name] = f[i].value
  BY SaidFacts
<1>3b. /\ With(said, l.name, l.value) \in Record
       /\ DOMAIN With(said, l.name, l.value) = DOMAIN said \cup {l.name}
       /\ With(said, l.name, l.value)[l.name] = l.value
       /\ \A k \in DOMAIN said : With(said, l.name, l.value)[k] = said[k]
  BY <1>3a, RecordFacts
<1> HIDE DEF said
<1>4. \A i \in Body(f, cur) : g[i] = f[i] /\ g[i].name \in DOMAIN said /\ g[i].name # l.name
  <2>1. Body(f, cur) \subseteq 1 .. Len(f)
    BY BodyFacts
  <2>2. \A i \in Body(f, cur) : g[i] = f[i]
    BY <1>1, <2>1 DEF Begins
  <2> QED BY <1>3a, <2>2 DEF said
<1>5. KeysFit(g, cur)
  BY <1>1, <1>2, <1>3, <1>4 DEF KeysFit
<1>6. DOMAIN With(said, l.name, l.value) = {g[i].name : i \in Body(g, cur)}
  <2>1. {g[i].name : i \in Body(g, cur)} = {f[i].name : i \in Body(f, cur)} \cup {l.name}
    BY <1>1, <1>2, <1>4
  <2> QED BY <2>1, <1>3a, <1>3b
<1>7. \A i \in Body(g, cur) : With(said, l.name, l.value)[g[i].name] = g[i].value
  <2>1. \A i \in Body(f, cur) : With(said, l.name, l.value)[g[i].name] = g[i].value
    BY <1>4, <1>3a, <1>3b
  <2> QED BY <1>1, <1>2, <1>3b, <2>1
<1>8. With(said, l.name, l.value) = Said(g, cur)
  BY <1>1, <1>5, <1>6, <1>7, <1>3b, SaidIs
<1> QED BY <1>5, <1>8 DEF g, said

(* A numeral that fits a number, a truth value that fits a Boolean.        *)
LEMMA SaidTyped ==
  ASSUME NEW f \in File, NEW h \in Nat, KeysFit(f, h), NEW k \in DOMAIN Said(f, h)
  PROVE  LET t == Schema(SectionAt(f, h))[k]
             v == Said(f, h)[k] IN
         /\ k \in DOMAIN Schema(SectionAt(f, h))
         /\ v = <<v[1], v[2]>>
         /\ t \in {"u8", "u16"} => v[1] = "int" /\ v[2] \in Nat
         /\ t = "bool" => v[1] = "bool" /\ v[2] \in BOOLEAN
<1>1. PICK i \in Body(f, h) : f[i].name = k /\ Said(f, h)[k] = f[i].value
  <2>1. k \in {f[i].name : i \in Body(f, h)}
    BY SaidFacts
  <2>2. \A i \in Body(f, h) : Said(f, h)[f[i].name] = f[i].value
    BY SaidFacts
  <2> QED BY <2>1, <2>2
<1>2. f[i] \in Lines /\ f[i].kind = "key"
  BY BodyFacts
<1>3. IsValue(f[i].value)
  BY <1>2, LinesAssumption
<1> QED BY <1>1, <1>3, ValueErrorFacts DEF KeysFit, IsValue

---------------------------------------------------------------------------
(* The headers of a name, counted. *)

(* The places of the headers of a name are numbered from 1, in their order. *)
LEMMA PlaceFacts ==
  ASSUME NEW f \in File, NEW s
  PROVE  /\ Cardinality(HeadersOf(f, s)) \in Nat
         /\ \A h \in HeadersOf(f, s) :
              /\ Place(f, h) \in 1 .. Cardinality(HeadersOf(f, s))
              /\ \A k \in HeadersOf(f, s) : h < k => Place(f, h) < Place(f, k)
<1> DEFINE hs == HeadersOf(f, s)
           upto(h) == {g \in hs : g <= h}
<1>1. IsFiniteSet(hs) /\ hs \subseteq 1 .. Len(f) /\ Len(f) \in Nat
  BY HeaderFacts DEF File
<1>2. \A h \in hs : Place(f, h) = Cardinality(upto(h))
  BY DEF HeadersOf, Place
<1> HIDE DEF hs
<1>3. \A h : IsFiniteSet(upto(h)) /\ Cardinality(upto(h)) \in Nat
  <2>1. \A h : IsFiniteSet(upto(h))
    BY <1>1, FS_Subset
  <2> QED BY <2>1, FS_CardinalityType
<1>4. Cardinality(hs) \in Nat
  BY <1>1, FS_CardinalityType
<1>5. ASSUME NEW h \in hs
      PROVE  Cardinality(upto(h)) \in 1 .. Cardinality(hs)
  <2>1. Cardinality(upto(h)) <= Cardinality(hs)
    BY <1>1, FS_Subset
  <2>2. h \in upto(h)
    BY <1>1
  <2>3. Cardinality(upto(h)) # 0
    BY <1>3, <2>2, FS_EmptySet
  <2> QED BY <1>3, <1>4, <2>1, <2>3
<1>6. ASSUME NEW h \in hs, NEW k \in hs, h < k
      PROVE  Cardinality(upto(h)) < Cardinality(upto(k))
  <2>0. h \in Nat /\ k \in Nat /\ \A g \in hs : g \in Nat
    BY <1>1
  <2>1. \A g \in hs : g <= h => g <= k
    BY <1>6, <2>0
  <2>2. ~(k <= h) /\ k <= k
    BY <1>6, <2>0
  <2>3. /\ Cardinality(upto(h)) <= Cardinality(upto(k))
        /\ Cardinality(upto(h)) # Cardinality(upto(k))
    <3>1. upto(h) \subseteq upto(k) /\ upto(h) # upto(k)
      BY <2>1, <2>2
    <3> HIDE DEF upto
    <3> QED BY <1>3, <3>1, FS_Subset
  <2> QED BY <1>3, <2>3
<1> QED BY <1>2, <1>4, <1>5, <1>6 DEF hs

(* What is counted does not change when lines follow. *)
LEMMA PlaceSame ==
  ASSUME NEW f \in File, NEW g \in File, Begins(f, g)
  PROVE  /\ \A s : HeadersOf(f, s) \subseteq HeadersOf(g, s)
         /\ \A s : Cardinality(HeadersOf(f, s)) <= Cardinality(HeadersOf(g, s))
         /\ \A h \in Headers(f) : Place(g, h) = Place(f, h)
<1>1. Headers(f) \subseteq 1 .. Len(f) /\ Len(f) \in Nat /\ Headers(g) \subseteq Nat
  BY HeaderFacts DEF File
<1>2. \A s : HeadersOf(f, s) = {h \in HeadersOf(g, s) : h <= Len(f)}
  BY <1>1, BeginsFacts DEF HeadersOf, Begins
<1>3. \A s : HeadersOf(f, s) \subseteq HeadersOf(g, s)
  BY <1>2
<1>4. \A s : Cardinality(HeadersOf(f, s)) <= Cardinality(HeadersOf(g, s))
  BY <1>3, HeaderFacts, FS_Subset
<1>5. ASSUME NEW h \in Headers(f)
      PROVE  Place(g, h) = Place(f, h)
  <2>1. g[h].name = f[h].name
    BY <1>1 DEF Begins
  <2>2. \A s : {k \in HeadersOf(g, s) : k <= h} = {k \in HeadersOf(f, s) : k <= h}
    <3> SUFFICES ASSUME NEW s
                 PROVE  {k \in HeadersOf(g, s) : k <= h} = {k \in HeadersOf(f, s) : k <= h}
      OBVIOUS
    <3>1. HeadersOf(g, s) \subseteq Nat
      BY <1>1 DEF HeadersOf
    <3>2. h \in Nat /\ h <= Len(f)
      BY <1>1
    <3> QED BY <1>1, <1>2, <3>1, <3>2
  <2> QED BY <2>1, <2>2 DEF Place
<1> QED BY <1>3, <1>4, <1>5

(* The last header of its name has the last place. *)
LEMMA LastPlace ==
  ASSUME NEW f \in File, NEW cur, Current(f, cur), cur # 0
  PROVE  LET hs == HeadersOf(f, f[cur].name) IN
         /\ Place(f, cur) = Cardinality(hs)
         /\ Cardinality(hs \ {cur}) = Cardinality(hs) - 1
<1> DEFINE hs == HeadersOf(f, f[cur].name)
<1>1. cur \in hs /\ IsFiniteSet(hs) /\ \A g \in hs : g <= cur
  BY HeaderFacts DEF Current, HeadersOf
<1>2. {g \in hs : g <= cur} = hs
  BY <1>1
<1> QED BY <1>1, <1>2, FS_RemoveElement DEF Place

---------------------------------------------------------------------------
(* The record being read. *)

(* What RecordError looks for is what a complete section has not.          *)
LEMMA RecordErrorFacts ==
  ASSUME NEW f \in File, NEW cur \in Nat, KeysFit(f, cur), section = SectionAt(f, cur),
         section \in ArrayNames => pending = Said(f, cur)
  PROVE  /\ RecordError \notin {"Ok", "reading"}
         /\ RecordError = "none" <=>
              (section \in ArrayNames =>
                 Complete(section, pending) /\ ~(Len(records[section]) >= MaxRecords))
<1>1. RecordError \notin {"Ok", "reading"}
  BY DEF RecordError
<1>2. CASE section \notin ArrayNames
  BY <1>1, <1>2 DEF RecordError
<1>3. CASE section \in ArrayNames
  <2>1. CASE section \in {"rdseed_cpu_rules", "denylist"} /\ DOMAIN CpuRange \subseteq DOMAIN pending
    <3>1. \A k \in Bounds : pending[k][2] \in Nat
      BY <1>3, <2>1, RangeKeys, SaidTyped
    <3>2. RangeInverted(pending) <=>
            ~ \A p \in {<<"family_min", "family_max">>, <<"model_min", "model_max">>,
                        <<"stepping_min", "stepping_max">>} : pending[p[1]][2] <= pending[p[2]][2]
      BY <3>1 DEF RangeInverted, Bounds
    <3> QED BY <1>1, <1>3, <2>1, <3>2 DEF RecordError, Complete
  <2>2. CASE section \in {"rdseed_cpu_rules", "denylist"} /\ ~ DOMAIN CpuRange \subseteq DOMAIN pending
    BY <1>1, <1>3, <2>2, RangeKeys DEF RecordError, Complete
  <2>3. CASE section \notin {"rdseed_cpu_rules", "denylist"}
    BY <1>1, <1>3, <2>3 DEF RecordError, Complete
  <2> QED BY <2>1, <2>2, <2>3
<1> QED BY <1>2, <1>3

---------------------------------------------------------------------------
(* The inductive invariant. *)

(* What the lines read so far have in common with every well-formed file   *)
(* that begins with them.  Nothing is required yet of a section that is    *)
(* still open, cur, nor of the keys a table has.                           *)
Accepted(f, cur) ==
  /\ \A i \in DOMAIN f : f[i].kind \in {"table", "array", "key"}
  /\ \A h \in Headers(f) :
       f[h].name \in (IF f[h].kind = "table" THEN TableNames ELSE ArrayNames)
  /\ \A s \in TableNames : \A g, h \in HeadersOf(f, s) : g = h
  /\ \A a \in ArrayNames : Cardinality(HeadersOf(f, a) \ {cur}) <= MaxRecords
  /\ \A h \in Headers(f) \cup {0} : KeysFit(f, h)
  /\ \A h \in Headers(f) \ {cur} : f[h].name \in ArrayNames => Complete(f[h].name, Said(f, h))

(* The records rs are those of the sections of f, open ones left out.      *)
RecordsOf(rs, f, open) ==
  \A a \in ArrayNames :
    /\ Len(rs[a]) = Cardinality(HeadersOf(f, a) \ open)
    /\ \A h \in HeadersOf(f, a) \ open : rs[a][Place(f, h)] = Said(f, h)
    /\ \A n \in DOMAIN rs[a] : \E h \in HeadersOf(f, a) \ open : n = Place(f, h)

(* The tables opened are those of f, with what it says in them.            *)
TablesOf(open, tables, f) ==
  /\ open = {s \in TableNames : HeadersOf(f, s) # {}}
  /\ \A h \in Headers(f) \cup {0} :
       SectionAt(f, h) \notin ArrayNames => tables[SectionAt(f, h)] = Said(f, h)
  /\ \A s \in TableNames \ open : tables[s] = NoKeys

(* The state of the parser is what it has read. *)
Parsed(cur) ==
  /\ Current(file, cur) /\ Accepted(file, cur)
  /\ section = SectionAt(file, cur)
  /\ section \in ArrayNames => pending = Said(file, cur)
  /\ TablesOf(opened, given, file)
  /\ RecordsOf(records, file, {cur})

TypeInv ==
  /\ file \in File /\ rest \in File /\ held \in File
  /\ pending \in Record
  /\ given \in [DOMAIN Tables -> Record]
  /\ records \in [ArrayNames -> Seq(Record)]

IInv ==
  /\ TypeInv
  /\ Reading => \E cur \in Nat : Parsed(cur)
  /\ verdict = "Ok" => WellFormed(file) /\ TablesOf(opened, given, file) /\ RecordsOf(records, file, {})
  /\ ~Reading /\ verdict # "Ok" => ~WellFormed(file \o rest)

---------------------------------------------------------------------------
(* Lines that are accepted. *)

(* The records of an array are a sequence.                                 *)
LEMMA RecordIsSeq == \A rs \in [ArrayNames -> Seq(Record)], a \in ArrayNames :
  /\ Len(rs[a]) \in Nat /\ DOMAIN rs[a] = 1 .. Len(rs[a])
OBVIOUS

(* The record finished is that of the current section. *)
LEMMA FinishedRecords ==
  ASSUME TypeInv, NEW cur \in Nat, Parsed(cur), NEW next
  PROVE  /\ RecordsOf(Finished(next), file, {})
         /\ Finished(next) \in [ArrayNames -> Seq(Record)]
<1>1. CASE section \notin ArrayNames
  <2>1. Finished(next) = records
    BY <1>1 DEF Finished
  <2>2. \A a \in ArrayNames : HeadersOf(file, a) \ {cur} = HeadersOf(file, a)
    <3> SUFFICES ASSUME NEW a \in ArrayNames, cur \in HeadersOf(file, a) PROVE FALSE
      OBVIOUS
    <3>1. section = a
      BY HeaderFacts DEF Parsed, TypeInv, HeadersOf
    <3> QED BY <3>1, <1>1
  <2>3. \A a \in ArrayNames : HeadersOf(file, a) \ {} = HeadersOf(file, a)
    OBVIOUS
  <2> QED BY <2>1, <2>2, <2>3, ZenonT(60) DEF RecordsOf, Parsed, TypeInv
<1>2. CASE section \in ArrayNames
  <2> DEFINE rs == Finished(next)
             n  == Len(records[section])
             hs == HeadersOf(file, section)
  <2>1. rs = [records EXCEPT ![section] = Append(@, pending)]
    BY <1>2 DEF Finished
  <2>2. /\ rs \in [ArrayNames -> Seq(Record)]
        /\ \A a \in ArrayNames : a # section => rs[a] = records[a]
        /\ n \in Nat /\ Len(rs[section]) = n + 1 /\ DOMAIN rs[section] = 1 .. n + 1
        /\ DOMAIN records[section] = 1 .. n
        /\ rs[section][n + 1] = pending
        /\ \A i \in 1 .. n : rs[section][i] = records[section][i]
    BY <1>2, <2>1 DEF TypeInv
  <2>3. /\ cur # 0 /\ cur \in Headers(file) /\ section = file[cur].name
        /\ pending = Said(file, cur) /\ RecordsOf(records, file, {cur})
    BY <1>2, HeaderFacts, SchemaNames DEF Parsed, TypeInv, Current
  <2>4. cur \in hs
    BY <2>3 DEF HeadersOf
  <2>5. Place(file, cur) = Cardinality(hs) /\ Cardinality(hs \ {cur}) = Cardinality(hs) - 1
    <3>1. Current(file, cur) /\ file \in File
      BY DEF Parsed, TypeInv
    <3>2. hs = HeadersOf(file, file[cur].name)
      BY <2>3
    <3> HIDE DEF hs
    <3> QED BY <2>3, <3>1, <3>2, LastPlace
  <2>6. Cardinality(hs) \in Nat
    BY PlaceFacts DEF TypeInv
  <2>7. n = Cardinality(hs) - 1
    BY <1>2, <2>3, <2>5 DEF RecordsOf
  <2>8. \A h \in hs \ {cur} : Place(file, h) \in 1 .. n
    <3>1. \A h \in hs : Place(file, h) \in 1 .. Cardinality(hs)
      BY PlaceFacts DEF TypeInv
    <3>2. \A h \in hs : h < cur => Place(file, h) < Place(file, cur)
      BY <2>4, PlaceFacts DEF TypeInv
    <3>3. \A h \in hs : h \in Nat /\ h <= cur
      BY HeaderFacts DEF Parsed, Current, TypeInv, HeadersOf
    <3> SUFFICES ASSUME NEW h \in hs, h # cur PROVE Place(file, h) \in 1 .. n
      OBVIOUS
    <3>4. h < cur
      BY <3>3
    <3> QED BY <3>1, <3>2, <3>4, <2>5, <2>6, <2>7
  <2> HIDE DEF rs, n
  <2>9. ASSUME NEW a \in ArrayNames
        PROVE  /\ Len(rs[a]) = Cardinality(HeadersOf(file, a) \ {})
               /\ \A h \in HeadersOf(file, a) \ {} : rs[a][Place(file, h)] = Said(file, h)
               /\ \A i \in DOMAIN rs[a] : \E h \in HeadersOf(file, a) \ {} : i = Place(file, h)
    <3>0. HeadersOf(file, a) \ {} = HeadersOf(file, a)
      OBVIOUS
    <3>1. CASE a # section
      <4>1. HeadersOf(file, a) \ {cur} = HeadersOf(file, a)
        BY <3>1, <2>3 DEF HeadersOf
      <4>2. /\ Len(records[a]) = Cardinality(HeadersOf(file, a) \ {cur})
            /\ \A h \in HeadersOf(file, a) \ {cur} : records[a][Place(file, h)] = Said(file, h)
            /\ \A i \in DOMAIN records[a] : \E h \in HeadersOf(file, a) \ {cur} : i = Place(file, h)
        BY <2>3 DEF RecordsOf
      <4>3. rs[a] = records[a]
        BY <3>1, <2>2
      <4> QED BY <3>0, <4>1, <4>2, <4>3
    <3>2. CASE a = section
      <4> HIDE DEF hs
      <4>1. Len(rs[section]) = Cardinality(hs)
        BY <2>2, <2>6, <2>7
      <4>2. \A h \in hs \ {cur} : records[section][Place(file, h)] = Said(file, h)
        BY <2>3, <1>2 DEF RecordsOf, hs
      <4>3. \A i \in 1 .. n : \E h \in hs \ {cur} : i = Place(file, h)
        BY <2>2, <2>3, <1>2 DEF RecordsOf, hs
      <4>4. \A h \in hs : rs[section][Place(file, h)] = Said(file, h)
        <5>1. \A h \in hs \ {cur} : rs[section][Place(file, h)] = Said(file, h)
          BY <2>2, <2>8, <4>2
        <5>2. rs[section][Place(file, cur)] = Said(file, cur)
          BY <2>2, <2>3, <2>5, <2>6, <2>7
        <5> QED BY <5>1, <5>2
      <4>5. \A i \in DOMAIN rs[section] : \E h \in hs : i = Place(file, h)
        <5> SUFFICES ASSUME NEW i \in 1 .. n + 1 PROVE \E h \in hs : i = Place(file, h)
          BY <2>2
        <5>1. i \in 1 .. n \/ i = Place(file, cur)
          BY <2>2, <2>5, <2>6, <2>7
        <5> QED BY <5>1, <4>3, <2>4
      <4> QED BY <3>0, <3>2, <4>1, <4>4, <4>5 DEF hs
    <3> QED BY <3>1, <3>2
  <2> QED BY <2>2, <2>9 DEF RecordsOf, rs
<1> QED BY <1>1, <1>2

(* A header met when the section before it is complete. *)
LEMMA AfterHeader ==
  ASSUME NEW f \in File, NEW l \in Lines, IsHeader(l), NEW cur \in Nat,
         Current(f, cur), Accepted(f, cur),
         l.name \in (IF l.kind = "table" THEN TableNames ELSE ArrayNames),
         l.kind = "table" => HeadersOf(f, l.name) = {},
         SectionAt(f, cur) \in ArrayNames => Complete(SectionAt(f, cur), Said(f, cur)),
         \A a \in ArrayNames : Cardinality(HeadersOf(f, a)) <= MaxRecords
  PROVE  LET g == Append(f, l) IN
         /\ Current(g, Len(g)) /\ Accepted(g, Len(g))
         /\ \A h \in Headers(f) \cup {0} :
              SectionAt(g, h) = SectionAt(f, h) /\ Said(g, h) = Said(f, h)
         /\ SectionAt(g, Len(g)) = l.name /\ Said(g, Len(g)) = NoKeys
         /\ Headers(g) = Headers(f) \cup {Len(g)}
         /\ \A s : HeadersOf(g, s) \ {Len(g)} = HeadersOf(f, s)
         /\ Len(g) \in HeadersOf(g, l.name)
         /\ \A s : s # l.name => HeadersOf(g, s) = HeadersOf(f, s)
<1> DEFINE g == Append(f, l)
<1>1. /\ g \in File /\ Begins(f, g) /\ Len(g) = Len(f) + 1 /\ g[Len(g)] = l
      /\ Len(f) \in Nat /\ DOMAIN g = DOMAIN f \cup {Len(g)} /\ DOMAIN f = 1 .. Len(f)
  BY AppendBegins DEF File
<1>2. /\ Headers(g) = Headers(f) \cup {Len(g)} /\ Current(g, Len(g)) /\ Body(g, Len(g)) = {}
      /\ \A h \in Headers(f) \cup {0} : Body(g, h) = Body(f, h)
  BY OneLineMore
<1>3. Headers(f) \subseteq 1 .. Len(f) /\ Headers(f) \cup {0} \subseteq 0 .. Len(f)
  BY <1>1, HeaderFacts
<1> HIDE DEF g
<1>4. \A h \in Headers(f) : g[h] = f[h]
  BY <1>1, <1>3 DEF Begins
<1>5. \A h \in Headers(f) \cup {0} : KeysFit(f, h)
  BY DEF Accepted
<1>6. \A h \in Headers(f) \cup {0} :
        /\ SectionAt(g, h) = SectionAt(f, h) /\ Said(g, h) = Said(f, h) /\ KeysFit(g, h)
  BY <1>1, <1>2, <1>3, <1>5, BeginsFacts, SaidSame
<1>7. SectionAt(g, Len(g)) = l.name
  BY <1>1 DEF SectionAt
<1>8. KeysFit(g, Len(g)) /\ Said(g, Len(g)) = NoKeys
  <2>1. KeysFit(g, Len(g))
    BY <1>2 DEF KeysFit
  <2>2. DOMAIN NoKeys = {g[i].name : i \in Body(g, Len(g))} /\ NoKeys \in Record
    BY <1>2, RecordFacts
  <2> QED BY <1>1, <1>2, <2>1, <2>2, SaidIs
<1>9. Len(g) \notin Headers(f)
  BY <1>1, <1>3
<1>10. /\ \A s : HeadersOf(g, s) \ {Len(g)} = HeadersOf(f, s)
       /\ Len(g) \in HeadersOf(g, l.name)
       /\ \A s : s # l.name => HeadersOf(g, s) = HeadersOf(f, s)
  BY <1>1, <1>2, <1>4, <1>9 DEF HeadersOf
<1>11. Accepted(g, Len(g))
  <2>1. \A i \in DOMAIN g : g[i].kind \in {"table", "array", "key"}
    <3>1. \A i \in DOMAIN f : g[i] = f[i]
      BY <1>1 DEF Begins
    <3> QED BY <3>1, <1>1 DEF Accepted, IsHeader
  <2>2. \A h \in Headers(g) :
          g[h].name \in (IF g[h].kind = "table" THEN TableNames ELSE ArrayNames)
    BY <1>1, <1>2, <1>4 DEF Accepted
  <2>3. ASSUME NEW s \in TableNames, NEW i \in HeadersOf(g, s), NEW j \in HeadersOf(g, s)
        PROVE  i = j
    <3>1. CASE s = l.name
      <4>1. l.kind = "table"
        BY <3>1, SchemaNames
      <4>2. HeadersOf(g, s) \ {Len(g)} = {}
        BY <3>1, <4>1, <1>10
      <4> QED BY <4>2
    <3>2. CASE s # l.name
      BY <3>2, <1>10 DEF Accepted
    <3> QED BY <3>1, <3>2
  <2>4. \A a \in ArrayNames : Cardinality(HeadersOf(g, a) \ {Len(g)}) <= MaxRecords
    BY <1>10
  <2>5. \A h \in Headers(g) \cup {0} : KeysFit(g, h)
    BY <1>2, <1>6, <1>8
  <2>6. ASSUME NEW h \in Headers(g) \ {Len(g)}, g[h].name \in ArrayNames
        PROVE  Complete(g[h].name, Said(g, h))
    <3>1. h \in Headers(f) /\ g[h].name = f[h].name /\ Said(g, h) = Said(f, h)
      BY <1>2, <1>4, <1>6
    <3>2. CASE h = cur
      <4>1. SectionAt(f, cur) = f[h].name
        BY <3>1, <3>2, HeaderFacts
      <4> QED BY <2>6, <3>1, <3>2, <4>1
    <3>3. CASE h # cur
      BY <2>6, <3>1, <3>3 DEF Accepted
    <3> QED BY <3>2, <3>3
  <2> HIDE DEF g
  <2> QED BY <2>1, <2>2, <2>3, <2>4, <2>5, <2>6 DEF Accepted
<1> QED BY <1>2, <1>6, <1>7, <1>8, <1>10, <1>11 DEF g

(* A key that fits the current section. *)
LEMMA AfterKey ==
  ASSUME NEW f \in File, NEW l \in Lines, l.kind = "key", NEW cur \in Nat,
         Current(f, cur), Accepted(f, cur),
         l.name \in DOMAIN Schema(SectionAt(f, cur)),
         ValueError(Schema(SectionAt(f, cur))[l.name], l.value) = "none",
         l.name \notin DOMAIN Said(f, cur)
  PROVE  LET g == Append(f, l) IN
         /\ Current(g, cur) /\ Accepted(g, cur)
         /\ \A h \in Headers(f) \cup {0} : SectionAt(g, h) = SectionAt(f, h)
         /\ \A h \in Headers(f) \cup {0} : h # cur => Said(g, h) = Said(f, h)
         /\ Said(g, cur) = With(Said(f, cur), l.name, l.value)
         /\ Headers(g) = Headers(f)
         /\ \A s : HeadersOf(g, s) = HeadersOf(f, s)
<1> DEFINE g == Append(f, l)
<1>1. /\ g \in File /\ Begins(f, g) /\ Len(g) = Len(f) + 1 /\ g[Len(g)] = l
      /\ Len(f) \in Nat /\ DOMAIN g = DOMAIN f \cup {Len(g)} /\ DOMAIN f = 1 .. Len(f)
  BY AppendBegins DEF File
<1>2. /\ Headers(g) = Headers(f) /\ Current(g, cur)
      /\ \A h \in Headers(f) \cup {0} : h # cur => Body(g, h) = Body(f, h)
  BY OneLineMore
<1>3. Headers(f) \subseteq 1 .. Len(f) /\ Headers(f) \cup {0} \subseteq 0 .. Len(f)
      /\ cur \in Headers(f) \cup {0}
  BY <1>1, HeaderFacts DEF Current
<1>4. \A h \in Headers(f) \cup {0} : KeysFit(f, h)
  BY DEF Accepted
<1>5. KeysFit(g, cur) /\ Said(g, cur) = With(Said(f, cur), l.name, l.value)
  BY <1>3, <1>4, SaidMore
<1> HIDE DEF g
<1>6. \A h \in Headers(f) : g[h] = f[h]
  BY <1>1, <1>3 DEF Begins
<1>7. \A h \in Headers(f) \cup {0} : SectionAt(g, h) = SectionAt(f, h)
  BY <1>1, <1>3, BeginsFacts
<1>8. \A h \in Headers(f) \cup {0} : h # cur => KeysFit(g, h) /\ Said(g, h) = Said(f, h)
  BY <1>1, <1>2, <1>3, <1>4, SaidSame
<1>9. \A s : HeadersOf(g, s) = HeadersOf(f, s)
  BY <1>2, <1>6 DEF HeadersOf
<1>10. Accepted(g, cur)
  <2>1. \A i \in DOMAIN g : g[i].kind \in {"table", "array", "key"}
    <3>1. \A i \in DOMAIN f : g[i] = f[i]
      BY <1>1 DEF Begins
    <3> QED BY <3>1, <1>1 DEF Accepted
  <2>2. \A h \in Headers(g) \cup {0} : KeysFit(g, h)
    BY <1>2, <1>5, <1>8
  <2>3. \A h \in Headers(g) \ {cur} : g[h].name \in ArrayNames => Complete(g[h].name, Said(g, h))
    BY <1>2, <1>6, <1>8 DEF Accepted
  <2>4. \A h \in Headers(g) :
          g[h].name \in (IF g[h].kind = "table" THEN TableNames ELSE ArrayNames)
    BY <1>2, <1>6 DEF Accepted
  <2> QED BY <1>9, <2>1, <2>2, <2>3, <2>4 DEF Accepted
<1> QED BY <1>2, <1>5, <1>7, <1>8, <1>9, <1>10 DEF g

---------------------------------------------------------------------------
(* Lines that are refused: no file that goes on after them is well-formed. *)

(* A malformed line, an unknown section, a table met again.                *)
LEMMA RefusedLine ==
  ASSUME NEW f \in File, NEW l \in Lines, NEW g \in File, Begins(Append(f, l), g),
         \/ l.kind \notin {"table", "array", "key"}
         \/ IsHeader(l) /\ l.name \notin (IF l.kind = "table" THEN TableNames ELSE ArrayNames)
         \/ l.kind = "table" /\ l.name \in TableNames /\ HeadersOf(f, l.name) # {}
  PROVE  ~WellFormed(g)
<1> DEFINE n == Len(f) + 1
<1>1. Len(f) \in Nat /\ n \in DOMAIN g /\ g[n] = l /\ Begins(f, g)
  BY AppendBegins DEF File, Begins
<1>2. CASE l.kind \notin {"table", "array", "key"}
  BY <1>1, <1>2 DEF WellFormed
<1>3. CASE IsHeader(l) /\ l.name \notin (IF l.kind = "table" THEN TableNames ELSE ArrayNames)
  BY <1>1, <1>3 DEF WellFormed, Headers
<1>4. CASE l.kind = "table" /\ l.name \in TableNames /\ HeadersOf(f, l.name) # {}
  <2> DEFINE hs == HeadersOf(g, l.name)
  <2>1. n \in hs
    BY <1>1, <1>4 DEF HeadersOf, Headers, IsHeader
  <2>2. PICK h \in HeadersOf(f, l.name) : TRUE
    BY <1>4
  <2>3. h \in hs /\ h # n
    BY <1>1, <2>2, PlaceSame, HeaderFacts
  <2>4. IsFiniteSet(hs)
    BY HeaderFacts
  <2>5. Cardinality(hs) # 1
    <3> HIDE DEF hs, n
    <3> QED BY <2>1, <2>3, <2>4, FS_Singleton
  <2> QED BY <1>4, <2>5 DEF WellFormed
<1> QED BY <1>2, <1>3, <1>4

(* A key that is unknown, given before, or has a value of another type.    *)
LEMMA RefusedKey ==
  ASSUME NEW f \in File, NEW l \in Lines, l.kind = "key", NEW g \in File,
         Begins(Append(f, l), g), NEW cur \in Nat, Current(f, cur),
         LET types == Schema(SectionAt(f, cur)) IN
         \/ l.name \notin DOMAIN types
         \/ \E i \in Body(f, cur) : f[i].name = l.name
         \/ ValueError(types[l.name], l.value) # "none"
  PROVE  ~WellFormed(g)
<1> DEFINE n == Len(f) + 1
           e == Append(f, l)
<1>1. /\ Len(f) \in Nat /\ g[n] = l /\ e \in File /\ Len(e) = n
      /\ Begins(f, e) /\ Begins(f, g) /\ Begins(e, g)
  BY AppendBegins DEF File, Begins
<1>2. cur \in 0 .. Len(f) /\ Body(e, cur) = Body(f, cur) \cup {n}
  BY <1>1, OneLineMore
<1> HIDE DEF e, n
<1>3. cur \in Headers(g) \cup {0}
  BY <1>1, BeginsFacts DEF Current
<1>4. Body(e, cur) = {i \in Body(g, cur) : i <= Len(e)}
  <2>1. cur \in 0 .. Len(e)
    BY <1>1, <1>2 DEF n
  <2> QED BY <1>1, <2>1, BeginsFacts
<1>5. n \in Body(g, cur) /\ \A i \in Body(f, cur) : i \in Body(g, cur) /\ g[i] = f[i] /\ i # n
  <2>1. Body(f, cur) \subseteq 1 .. Len(f)
    BY BodyFacts
  <2> QED BY <1>1, <1>2, <1>4, <2>1 DEF Begins, n
<1>6. SectionAt(g, cur) = SectionAt(f, cur)
  BY <1>1, <1>2, BeginsFacts
<1>7. ~KeysFit(g, cur)
  BY <1>1, <1>5, <1>6 DEF KeysFit
<1> QED BY <1>3, <1>7 DEF WellFormed, SectionWellFormed

(* A section that ends, at a header or at the end, and lacks something.    *)
LEMMA RefusedSection ==
  ASSUME NEW f \in File, NEW g \in File, NEW cur \in Nat, Current(f, cur), KeysFit(f, cur),
         \/ g = f
         \/ \E l \in Lines : IsHeader(l) /\ Begins(Append(f, l), g),
         ~Complete(SectionAt(f, cur), Said(f, cur))
  PROVE  ~WellFormed(g)
<1>1. CASE g = f
  BY <1>1 DEF WellFormed, SectionWellFormed, Current
<1>2. CASE \E l \in Lines : IsHeader(l) /\ Begins(Append(f, l), g)
  <2> PICK l \in Lines : IsHeader(l) /\ Begins(Append(f, l), g)
    BY <1>2
  <2> DEFINE e == Append(f, l)
  <2>1. /\ Len(f) \in Nat /\ e \in File /\ Len(e) = Len(f) + 1
        /\ Begins(f, e) /\ Begins(f, g) /\ Begins(e, g)
    BY AppendBegins DEF File, Begins
  <2>2. cur \in 0 .. Len(f) /\ Len(e) \in Headers(e) /\ Body(e, cur) = Body(f, cur)
    BY OneLineMore DEF Current
  <2> HIDE DEF e
  <2>3. Body(g, cur) = Body(e, cur)
    <3>1. cur \in 0 .. Len(e) /\ cur < Len(e)
      BY <2>1, <2>2
    <3> QED BY <2>1, <2>2, <3>1, BeginsFacts
  <2>4. Said(g, cur) = Said(f, cur) /\ SectionAt(g, cur) = SectionAt(f, cur)
    BY <2>1, <2>2, <2>3, SaidSame, BeginsFacts
  <2>5. cur \in Headers(g) \cup {0}
    BY <2>1, BeginsFacts DEF Current
  <2> QED BY <2>4, <2>5 DEF WellFormed, SectionWellFormed
<1> QED BY <1>1, <1>2

(* A record too many stays one too many.                                   *)
LEMMA RefusedRecord ==
  ASSUME NEW f \in File, NEW g \in File, Begins(f, g),
         NEW a \in ArrayNames, ~(Cardinality(HeadersOf(f, a)) <= MaxRecords)
  PROVE  ~WellFormed(g)
<1>1. Cardinality(HeadersOf(f, a)) \in Nat /\ Cardinality(HeadersOf(g, a)) \in Nat
  BY PlaceFacts
<1>2. Cardinality(HeadersOf(f, a)) <= Cardinality(HeadersOf(g, a))
  BY PlaceSame
<1>3. ~(Cardinality(HeadersOf(g, a)) <= MaxRecords)
  BY <1>1, <1>2, MaxRecordsAssumption
<1> QED BY <1>3 DEF WellFormed

---------------------------------------------------------------------------
(* The steps. *)

(* The error of a record is that of the file, with whatever follows it.    *)
LEMMA RecordErrorRight ==
  ASSUME TypeInv, NEW cur \in Nat, Parsed(cur)
  PROVE  /\ RecordError \notin {"Ok", "reading"}
         /\ RecordError = "none" =>
              /\ section \in ArrayNames => Complete(section, Said(file, cur))
              /\ \A a \in ArrayNames : Cardinality(HeadersOf(file, a)) <= MaxRecords
         /\ RecordError # "none" =>
              \A g \in File :
                g = file \/ (\E l \in Lines : IsHeader(l) /\ Begins(Append(file, l), g))
                  => ~WellFormed(g)
<1>1. /\ file \in File /\ Current(file, cur) /\ Accepted(file, cur)
      /\ section = SectionAt(file, cur) /\ RecordsOf(records, file, {cur})
      /\ section \in ArrayNames => pending = Said(file, cur)
      /\ KeysFit(file, cur)
  BY DEF TypeInv, Parsed, Accepted, Current
<1>2. /\ RecordError \notin {"Ok", "reading"}
      /\ RecordError = "none" <=>
           (section \in ArrayNames =>
              Complete(section, pending) /\ ~(Len(records[section]) >= MaxRecords))
  BY <1>1, RecordErrorFacts
<1>3. \A a \in ArrayNames : a # section => HeadersOf(file, a) \ {cur} = HeadersOf(file, a)
  BY <1>1, HeaderFacts DEF HeadersOf
<1>4. \A a \in ArrayNames : a # section => Cardinality(HeadersOf(file, a)) <= MaxRecords
  BY <1>1, <1>3 DEF Accepted
<1>5. section \in ArrayNames =>
        Cardinality(HeadersOf(file, section)) = Len(records[section]) + 1
  <2> SUFFICES ASSUME section \in ArrayNames
               PROVE  Cardinality(HeadersOf(file, section)) = Len(records[section]) + 1
    OBVIOUS
  <2>1. cur # 0 /\ section = file[cur].name
    BY <1>1, HeaderFacts, SchemaNames DEF Current
  <2>2. Cardinality(HeadersOf(file, section) \ {cur}) = Cardinality(HeadersOf(file, section)) - 1
    BY <1>1, <2>1, LastPlace
  <2>3. Len(records[section]) = Cardinality(HeadersOf(file, section) \ {cur})
    BY <1>1 DEF RecordsOf
  <2>4. Cardinality(HeadersOf(file, section)) \in Nat
    BY <1>1, PlaceFacts
  <2> QED BY <2>2, <2>3, <2>4
<1>6. section \in ArrayNames => Len(records[section]) \in Nat
  BY RecordIsSeq DEF TypeInv
<1>7. ASSUME RecordError = "none"
      PROVE  /\ section \in ArrayNames => Complete(section, Said(file, cur))
             /\ \A a \in ArrayNames : Cardinality(HeadersOf(file, a)) <= MaxRecords
  <2>1. section \in ArrayNames => Cardinality(HeadersOf(file, section)) <= MaxRecords
    BY <1>2, <1>5, <1>6, <1>7, MaxRecordsAssumption
  <2> QED BY <1>1, <1>2, <1>4, <1>7, <2>1
<1>8. ASSUME RecordError # "none", NEW g \in File,
             g = file \/ \E l \in Lines : IsHeader(l) /\ Begins(Append(file, l), g)
      PROVE  ~WellFormed(g)
  <2>1. section \in ArrayNames
    BY <1>2, <1>8
  <2>2. CASE ~Complete(section, pending)
    BY <1>1, <1>8, <2>1, <2>2, RefusedSection
  <2>3. CASE Len(records[section]) >= MaxRecords
    <3>1. ~(Cardinality(HeadersOf(file, section)) <= MaxRecords)
      BY <1>5, <1>6, <2>1, <2>3, MaxRecordsAssumption
    <3>2. Begins(file, g)
      <4>1. CASE g = file
        BY <4>1, <1>1 DEF Begins, File
      <4>2. CASE \E l \in Lines : IsHeader(l) /\ Begins(Append(file, l), g)
        <5> PICK l \in Lines : Begins(Append(file, l), g)
          BY <4>2
        <5> QED BY <1>1, AppendBegins DEF Begins, File
      <4> QED BY <4>1, <4>2, <1>8
    <3> QED BY <1>1, <2>1, <3>1, <3>2, RefusedRecord
  <2> QED BY <1>2, <1>8, <2>1, <2>2, <2>3
<1> QED BY <1>2, <1>7, <1>8

(* A header that is taken. *)
LEMMA HeaderTaken ==
  ASSUME TypeInv, NEW cur \in Nat, Parsed(cur), NEW l \in Lines, IsHeader(l),
         RecordError = "none",
         l.name \in (IF l.kind = "table" THEN TableNames ELSE ArrayNames),
         l.kind = "table" => l.name \notin opened,
         section' = l.name,
         opened' = IF l.kind = "table" THEN opened \cup {l.name} ELSE opened,
         records' = Finished(l.name), pending' = NoKeys, given' = given,
         file' = Append(file, l)
  PROVE  \E n \in Nat : Parsed(n)'
<1> PICK g : g = Append(file, l)
  OBVIOUS
<1>1. /\ file \in File /\ g \in File /\ Begins(file, g) /\ Len(g) \in Nat
  BY AppendBegins DEF TypeInv, File
<1>2. /\ Current(file, cur) /\ Accepted(file, cur) /\ TablesOf(opened, given, file)
      /\ section = SectionAt(file, cur)
  BY DEF Parsed
<1>3. /\ section \in ArrayNames => Complete(section, Said(file, cur))
      /\ \A a \in ArrayNames : Cardinality(HeadersOf(file, a)) <= MaxRecords
  BY RecordErrorRight
<1>4. l.kind = "table" => HeadersOf(file, l.name) = {}
  BY <1>2 DEF TablesOf
<1>5. /\ Current(g, Len(g)) /\ Accepted(g, Len(g))
      /\ \A h \in Headers(file) \cup {0} :
           SectionAt(g, h) = SectionAt(file, h) /\ Said(g, h) = Said(file, h)
      /\ SectionAt(g, Len(g)) = l.name /\ Said(g, Len(g)) = NoKeys
      /\ Headers(g) = Headers(file) \cup {Len(g)}
      /\ \A s : HeadersOf(g, s) \ {Len(g)} = HeadersOf(file, s)
      /\ Len(g) \in HeadersOf(g, l.name)
      /\ \A s : s # l.name => HeadersOf(g, s) = HeadersOf(file, s)
  BY <1>1, <1>2, <1>3, <1>4, AfterHeader
<1>6. TablesOf(opened', given', g)
  <2>1. opened' = {s \in TableNames : HeadersOf(g, s) # {}}
    <3>1. CASE l.kind = "table"
      <4>1. l.name \in TableNames /\ HeadersOf(g, l.name) # {}
        BY <3>1, <1>5
      <4> QED BY <3>1, <4>1, <1>2, <1>5 DEF TablesOf
    <3>2. CASE l.kind # "table"
      <4>1. l.name \notin TableNames
        BY <3>2, SchemaNames
      <4> QED BY <3>2, <4>1, <1>2, <1>5 DEF TablesOf
    <3> QED BY <3>1, <3>2
  <2>2. ASSUME NEW h \in Headers(g) \cup {0}, SectionAt(g, h) \notin ArrayNames
        PROVE  given[SectionAt(g, h)] = Said(g, h)
    <3>1. CASE h = Len(g)
      <4>1. l.kind = "table" /\ l.name \in TableNames /\ l.name \notin opened
        BY <2>2, <3>1, <1>5
      <4>2. given[l.name] = NoKeys
        BY <4>1, <1>2 DEF TablesOf
      <4> QED BY <3>1, <4>2, <1>5
    <3>2. CASE h # Len(g)
      <4>1. h \in Headers(file) \cup {0}
        BY <3>2, <1>5
      <4> QED BY <2>2, <4>1, <1>2, <1>5 DEF TablesOf
    <3> QED BY <3>1, <3>2
  <2>3. \A s \in TableNames \ opened' : given[s] = NoKeys
    BY <1>2 DEF TablesOf
  <2> QED BY <2>1, <2>2, <2>3 DEF TablesOf
<1>7. RecordsOf(records', g, {Len(g)})
  <2>1. RecordsOf(Finished(l.name), file, {})
    BY FinishedRecords
  <2>2. \A a \in ArrayNames : HeadersOf(file, a) \ {} = HeadersOf(g, a) \ {Len(g)}
    BY <1>5
  <2>3. \A a \in ArrayNames : \A h \in HeadersOf(file, a) \ {} :
          Place(g, h) = Place(file, h) /\ Said(g, h) = Said(file, h)
    BY <1>1, <1>5, PlaceSame, HeaderFacts
  <2>4. SUFFICES ASSUME NEW a \in ArrayNames
        PROVE  /\ Len(records'[a]) = Cardinality(HeadersOf(g, a) \ {Len(g)})
               /\ \A h \in HeadersOf(g, a) \ {Len(g)} : records'[a][Place(g, h)] = Said(g, h)
               /\ \A n \in DOMAIN records'[a] : \E h \in HeadersOf(g, a) \ {Len(g)} : n = Place(g, h)
    BY DEF RecordsOf
  <2>5. /\ Len(records'[a]) = Cardinality(HeadersOf(file, a) \ {})
        /\ \A h \in HeadersOf(file, a) \ {} : records'[a][Place(file, h)] = Said(file, h)
        /\ \A n \in DOMAIN records'[a] : \E h \in HeadersOf(file, a) \ {} : n = Place(file, h)
    BY <2>1 DEF RecordsOf
  <2> QED BY <2>2, <2>3, <2>5, ZenonT(60)
<1>8. file' = g /\ section' = SectionAt(g, Len(g)) /\ pending' = Said(g, Len(g))
  BY <1>5
<1> QED BY <1>1, <1>5, <1>6, <1>7, <1>8 DEF Parsed

(* A key that is taken. *)
LEMMA KeyTaken ==
  ASSUME TypeInv, NEW cur \in Nat, Parsed(cur), NEW l \in Lines, l.kind = "key",
         NEW before, before = IF section \in ArrayNames THEN pending ELSE given[section],
         l.name \in DOMAIN Schema(section), l.name \notin DOMAIN before,
         ValueError(Schema(section)[l.name], l.value) = "none",
         IF section \in ArrayNames
           THEN pending' = With(pending, l.name, l.value) /\ given' = given
           ELSE given' = [given EXCEPT ![section] = With(@, l.name, l.value)] /\ pending' = pending,
         section' = section, opened' = opened, records' = records,
         file' = Append(file, l)
  PROVE  \E n \in Nat : Parsed(n)'
<1> PICK g : g = Append(file, l)
  OBVIOUS
<1>1. file \in File /\ g \in File /\ Begins(file, g)
  BY AppendBegins DEF TypeInv
<1>2. /\ Current(file, cur) /\ Accepted(file, cur) /\ TablesOf(opened, given, file)
      /\ section = SectionAt(file, cur) /\ cur \in Headers(file) \cup {0}
      /\ section \in ArrayNames => pending = Said(file, cur)
      /\ RecordsOf(records, file, {cur})
  BY DEF Parsed, Current
<1>3. before = Said(file, cur)
  BY <1>2 DEF TablesOf
<1>4. /\ Current(g, cur) /\ Accepted(g, cur)
      /\ \A h \in Headers(file) \cup {0} : SectionAt(g, h) = SectionAt(file, h)
      /\ \A h \in Headers(file) \cup {0} : h # cur => Said(g, h) = Said(file, h)
      /\ Said(g, cur) = With(Said(file, cur), l.name, l.value)
      /\ Headers(g) = Headers(file)
      /\ \A s : HeadersOf(g, s) = HeadersOf(file, s)
  BY <1>1, <1>2, <1>3, AfterKey
<1>5. section' = SectionAt(g, cur) /\ (section' \in ArrayNames => pending' = Said(g, cur))
  BY <1>2, <1>4
<1>6. RecordsOf(records', g, {cur})
  <2> SUFFICES ASSUME NEW a \in ArrayNames
      PROVE  /\ Len(records[a]) = Cardinality(HeadersOf(g, a) \ {cur})
             /\ \A h \in HeadersOf(g, a) \ {cur} : records[a][Place(g, h)] = Said(g, h)
             /\ \A n \in DOMAIN records[a] : \E h \in HeadersOf(g, a) \ {cur} : n = Place(g, h)
    BY DEF RecordsOf
  <2>1. HeadersOf(g, a) = HeadersOf(file, a)
    BY <1>4
  <2>2. \A h \in HeadersOf(file, a) \ {cur} :
          Place(g, h) = Place(file, h) /\ Said(g, h) = Said(file, h)
    BY <1>1, <1>4, PlaceSame, HeaderFacts
  <2>3. /\ Len(records[a]) = Cardinality(HeadersOf(file, a) \ {cur})
        /\ \A h \in HeadersOf(file, a) \ {cur} : records[a][Place(file, h)] = Said(file, h)
        /\ \A n \in DOMAIN records[a] : \E h \in HeadersOf(file, a) \ {cur} : n = Place(file, h)
    BY <1>2 DEF RecordsOf
  <2> QED BY <2>1, <2>2, <2>3
<1>7. TablesOf(opened', given', g)
  <2>1. opened' = {s \in TableNames : HeadersOf(g, s) # {}}
    BY <1>2, <1>4 DEF TablesOf
  <2>2. \A s \in TableNames : s # section => given'[s] = given[s]
    BY SchemaNames DEF TypeInv
  <2>3. ASSUME NEW h \in Headers(g) \cup {0}, SectionAt(g, h) \notin ArrayNames
        PROVE  given'[SectionAt(g, h)] = Said(g, h)
    <3>0. h \in Headers(file) \cup {0} /\ SectionAt(g, h) = SectionAt(file, h)
          /\ SectionAt(file, h) \in DOMAIN Tables
      <4>1. h \in Headers(file) \cup {0} /\ SectionAt(g, h) = SectionAt(file, h)
        BY <1>4
      <4>2. CASE h = 0
        BY <4>1, <4>2, HeaderFacts, SchemaNames, <1>1
      <4>3. CASE h # 0
        <5>1. SectionAt(file, h) = file[h].name /\ h \in Headers(file)
          BY <4>1, <4>3, HeaderFacts, <1>1
        <5>2. file[h].name \in TableNames \cup ArrayNames
          BY <5>1, <1>2 DEF Accepted
        <5> QED BY <4>1, <5>1, <5>2, <2>3, SchemaNames
      <4> QED BY <4>2, <4>3
    <3>1. given[SectionAt(file, h)] = Said(file, h)
      BY <3>0, <2>3, <1>2 DEF TablesOf
    <3>2. CASE h = cur
      <4>1. section \notin ArrayNames /\ section \in DOMAIN Tables
        BY <3>0, <3>2, <2>3, <1>2
      <4>2. given'[section] = With(given[section], l.name, l.value)
        BY <4>1 DEF TypeInv
      <4> QED BY <3>0, <3>1, <3>2, <4>2, <1>2, <1>4
    <3>3. CASE h # cur
      <4>1. Said(g, h) = Said(file, h)
        BY <3>0, <3>3, <1>4
      <4>2. given'[SectionAt(file, h)] = given[SectionAt(file, h)]
        <5>1. CASE SectionAt(file, h) # section
          BY <3>0, <5>1 DEF TypeInv
        <5>2. CASE SectionAt(file, h) = section
          <6>1. h \in HeadersOf(file, section) /\ cur \in HeadersOf(file, section)
                /\ section \in TableNames
            <7>1. h # 0 /\ cur # 0
              <8>1. \A k \in Headers(file) : SectionAt(file, k) # "top"
                BY <1>1, <1>2, HeaderFacts, SchemaNames DEF Accepted
              <8> QED BY <8>1, <3>0, <3>3, <5>2, <1>1, <1>2, HeaderFacts
            <7>2. h \in Headers(file) /\ cur \in Headers(file)
              BY <7>1, <3>0, <1>2
            <7>3. file[h].name = section /\ file[cur].name = section
              BY <7>2, <5>2, <1>1, <1>2, HeaderFacts
            <7>4. section \notin ArrayNames
              BY <3>0, <2>3, <5>2
            <7> QED BY <7>2, <7>3, <7>4, <1>2 DEF HeadersOf, Accepted
          <6> QED BY <6>1, <3>3, <1>2 DEF Accepted
        <5> QED BY <5>1, <5>2
      <4> QED BY <3>0, <3>1, <4>1, <4>2
    <3> QED BY <3>2, <3>3
  <2>4. ASSUME NEW s \in TableNames \ opened'
        PROVE  given'[s] = NoKeys
    <3>1. given[s] = NoKeys /\ HeadersOf(file, s) = {}
      BY <1>2 DEF TablesOf
    <3>2. s # section
      <4> SUFFICES ASSUME s = section PROVE FALSE
        OBVIOUS
      <4>1. cur \in HeadersOf(file, s)
        BY <1>1, <1>2, HeaderFacts, SchemaNames DEF HeadersOf
      <4> QED BY <4>1, <3>1
    <3> QED BY <3>1, <3>2, <2>2
  <2> QED BY <2>1, <2>3, <2>4 DEF TablesOf
<1> QED BY <1>4, <1>5, <1>6, <1>7 DEF Parsed

(* Nothing has been read. *)
LEMMA InitIInv == FileInit => IInv
<1> SUFFICES ASSUME FileInit PROVE IInv
  OBVIOUS
<1>1. TypeInv
  <2>1. rest \in File
    BY LinesAssumption DEF FileInit, File
  <2>2. given \in [DOMAIN Tables -> Record] /\ pending \in Record
    BY RecordFacts DEF FileInit, Init
  <2>3. records \in [ArrayNames -> Seq(Record)]
    BY DEF FileInit, Init
  <2> QED BY <2>1, <2>2, <2>3 DEF TypeInv, FileInit, File
<1>2. file \in File /\ DOMAIN file = {} /\ Len(file) = 0
  BY DEF FileInit, File
<1>3. Headers(file) = {} /\ \A s : HeadersOf(file, s) = {}
  BY <1>2 DEF Headers, HeadersOf
<1>4. Body(file, 0) = {}
  BY <1>2 DEF Body
<1>5. KeysFit(file, 0) /\ Said(file, 0) = NoKeys
  <2>1. KeysFit(file, 0)
    BY <1>4 DEF KeysFit
  <2>2. DOMAIN NoKeys = {file[i].name : i \in Body(file, 0)} /\ NoKeys \in Record
    BY <1>4, RecordFacts
  <2> QED BY <1>2, <1>4, <2>1, <2>2, SaidIs
<1>6. \A s : HeadersOf(file, s) \ {0} = {} /\ Cardinality(HeadersOf(file, s) \ {0}) = 0
  <2>1. \A s : HeadersOf(file, s) \ {0} = {}
    BY <1>3
  <2>2. Cardinality({}) = 0
    BY FS_EmptySet
  <2> QED BY <2>1, <2>2
<1>7. Parsed(0)
  <2>1. Accepted(file, 0)
    BY <1>2, <1>3, <1>5, <1>6, MaxRecordsAssumption DEF Accepted
  <2>2. section = SectionAt(file, 0) /\ section \notin ArrayNames
    BY <1>2, HeaderFacts, SchemaNames DEF FileInit, Init
  <2>3. TablesOf(opened, given, file)
    BY <1>3, <1>5, <2>2, SchemaNames DEF TablesOf, FileInit, Init
  <2>4. RecordsOf(records, file, {0})
    <3>1. \A a \in ArrayNames : records[a] = <<>>
      BY DEF FileInit, Init
    <3>2. Len(<<>>) = 0 /\ DOMAIN <<>> = {}
      OBVIOUS
    <3> QED BY <1>6, <3>1, <3>2 DEF RecordsOf
  <2> QED BY <1>3, <2>1, <2>2, <2>3, <2>4 DEF Parsed, Current
<1> QED BY <1>1, <1>7 DEF IInv, Reading, FileInit, Init

(* One line read, or the file refused. *)
LEMMA ReadKeeps ==
  ASSUME IInv, Read
  PROVE  IInv'
<1> PICK l : l = rest[1]
  OBVIOUS
<1> PICK g : g = file \o rest
  OBVIOUS
<1>1. /\ TypeInv /\ verdict = "reading" /\ \E cur \in Nat : Parsed(cur)
      /\ rest # <<>> /\ file' = Append(file, l) /\ rest' = Tail(rest) /\ held' = held
  BY DEF IInv, Read, ReadLine, Reading
<1> PICK cur \in Nat : Parsed(cur)
  BY <1>1
<1>2. file \in File /\ rest \in File /\ l \in Lines /\ g \in File
  BY <1>1, ConcatBegins DEF TypeInv, File
<1>3. file' \in File /\ rest' \in File /\ file' \o rest' = g
  BY <1>1, <1>2, SMTT(60) DEF File
<1>4. Begins(Append(file, l), g)
  BY <1>1, <1>2, <1>3, ConcatBegins
<1>5. /\ Current(file, cur) /\ section = SectionAt(file, cur) /\ TablesOf(opened, given, file)
      /\ KeysFit(file, cur) /\ (section \in ArrayNames => pending = Said(file, cur))
      /\ cur \in Headers(file) \cup {0}
  BY DEF Parsed, Accepted, Current
<1>6. section \in ArrayNames \cup DOMAIN Tables
  <2>1. cur = 0 \/ (cur \in Headers(file) /\ SectionAt(file, cur) = file[cur].name)
    BY <1>2, <1>5, HeaderFacts
  <2>2. \A h \in Headers(file) : file[h].name \in TableNames \cup ArrayNames
    BY DEF Parsed, Accepted
  <2> QED BY <1>2, <1>5, <2>1, <2>2, HeaderFacts, SchemaNames
<1> DEFINE Refused == /\ verdict' \notin {"reading", "Ok"} /\ ~WellFormed(g)
                      /\ pending' = pending /\ given' = given /\ records' = records
           Taken   == /\ verdict' = "reading" /\ (\E n \in Nat : Parsed(n)')
                      /\ pending' \in Record
                      /\ given' \in [DOMAIN Tables -> Record]
                      /\ records' \in [ArrayNames -> Seq(Record)]
<1>7. SUFFICES Refused \/ Taken
  <2>1. TypeInv'
    BY <1>1, <1>3 DEF TypeInv
  <2> HIDE DEF Parsed, Reading
  <2> QED BY <2>1, <1>3 DEF IInv, Reading
<1>8. CASE l.kind \in Malformed
  <2>1. Refuse(l.kind)
    <3>1. l.kind \notin {"table", "array"} /\ l.kind # "key"
      BY <1>8 DEF Malformed
    <3> QED BY <1>8, <3>1 DEF Read, ReadLine
  <2>2. l.kind \notin {"table", "array", "key"} /\ l.kind \notin {"reading", "Ok"}
    BY <1>8 DEF Malformed
  <2>3. ~WellFormed(g)
    BY <1>2, <1>4, <2>2, RefusedLine
  <2> QED BY <2>1, <2>2, <2>3 DEF Refuse
<1>9. CASE IsHeader(l)
  <2>1. Header(l.kind, l.name) /\ l.kind \in {"table", "array"}
    BY <1>9 DEF Read, ReadLine, IsHeader, Malformed
  <2>2. CASE RecordError # "none"
    <3>1. ~WellFormed(g)
      BY <1>1, <1>2, <1>4, <1>9, <2>2, RecordErrorRight
    <3>2. Refuse(RecordError) /\ RecordError \notin {"Ok", "reading"}
      BY <1>1, <2>1, <2>2, RecordErrorRight DEF Header
    <3> QED BY <3>1, <3>2 DEF Refuse
  <2>3. CASE /\ RecordError = "none"
             /\ l.name \notin (IF l.kind = "table" THEN TableNames ELSE ArrayNames)
    <3>1. ~WellFormed(g)
      BY <1>2, <1>4, <1>9, <2>3, RefusedLine
    <3> QED BY <2>1, <2>3, <3>1 DEF Header, Refuse
  <2>4. CASE /\ RecordError = "none"
             /\ l.name \in (IF l.kind = "table" THEN TableNames ELSE ArrayNames)
             /\ l.kind = "table" /\ l.name \in opened
    <3>1. l.name \in TableNames /\ HeadersOf(file, l.name) # {}
      BY <2>4, <1>5 DEF TablesOf
    <3>2. ~WellFormed(g)
      BY <1>2, <1>4, <2>4, <3>1, RefusedLine
    <3> QED BY <2>1, <2>4, <3>2 DEF Header, Refuse
  <2>5. CASE /\ RecordError = "none"
             /\ l.name \in (IF l.kind = "table" THEN TableNames ELSE ArrayNames)
             /\ ~(l.kind = "table" /\ l.name \in opened)
    <3>1. /\ section' = l.name
          /\ opened' = IF l.kind = "table" THEN opened \cup {l.name} ELSE opened
          /\ records' = Finished(l.name) /\ pending' = NoKeys
          /\ given' = given /\ verdict' = verdict
      BY <2>1, <2>5 DEF Header
    <3>2. \E n \in Nat : Parsed(n)'
      BY <1>1, <1>2, <1>9, <2>5, <3>1, HeaderTaken
    <3>3. Finished(l.name) \in [ArrayNames -> Seq(Record)]
      BY <1>1, FinishedRecords
    <3> QED BY <1>1, <3>1, <3>2, <3>3, RecordFacts DEF TypeInv
  <2> QED BY <2>2, <2>3, <2>4, <2>5
<1>10. CASE l.kind = "key"
  <2>1. Assignment(l.name, l.value)
    BY <1>10 DEF Read, ReadLine, Malformed
  <2> PICK before : before = IF section \in ArrayNames THEN pending ELSE given[section]
    OBVIOUS
  <2> PICK error : error = IF l.name \notin DOMAIN Schema(section) THEN "UnknownKey"
                           ELSE IF l.name \in DOMAIN before THEN "DuplicateKey"
                           ELSE ValueError(Schema(section)[l.name], l.value)
    OBVIOUS
  <2>2. /\ error # "none" => Refuse(error)
        /\ error = "none" =>
             /\ IF section \in ArrayNames
                  THEN pending' = With(pending, l.name, l.value) /\ given' = given
                  ELSE given' = [given EXCEPT ![section] = With(@, l.name, l.value)] /\ pending' = pending
             /\ section' = section /\ opened' = opened /\ records' = records /\ verdict' = verdict
    BY <2>1 DEF Assignment
  <2>3. before = Said(file, cur) /\ before \in Record
    <3>1. before = Said(file, cur)
      BY <1>5 DEF TablesOf
    <3> QED BY <3>1, <1>2, <1>5, SaidFacts
  <2>4. CASE error # "none"
    <3>1. error \notin {"reading", "Ok"}
      BY ValueErrorFacts
    <3>2. \/ l.name \notin DOMAIN Schema(section)
          \/ \E i \in Body(file, cur) : file[i].name = l.name
          \/ ValueError(Schema(section)[l.name], l.value) # "none"
      <4>1. DOMAIN before = {file[i].name : i \in Body(file, cur)}
        BY <1>2, <1>5, <2>3, SaidFacts
      <4> QED BY <2>4, <4>1
    <3>3. ~WellFormed(g)
      BY <1>2, <1>4, <1>5, <1>10, <3>2, RefusedKey
    <3> QED BY <2>2, <2>4, <3>1, <3>3 DEF Refuse
  <2>5. CASE error = "none"
    <3>1. /\ l.name \in DOMAIN Schema(section) /\ l.name \notin DOMAIN before
          /\ ValueError(Schema(section)[l.name], l.value) = "none"
      BY <2>5
    <3>2. \E n \in Nat : Parsed(n)'
      BY <1>1, <1>2, <1>10, <2>2, <2>5, <3>1, KeyTaken
    <3>3. With(before, l.name, l.value) \in Record
      BY <1>2, <2>3, <3>1, RecordFacts
    <3>4. pending' \in Record /\ given' \in [DOMAIN Tables -> Record]
      BY <1>1, <1>6, <2>2, <2>5, <3>3 DEF TypeInv
    <3> QED BY <1>1, <2>2, <2>5, <3>2, <3>4 DEF TypeInv
  <2> QED BY <2>4, <2>5
<1>11. l.kind \in {"table", "array", "key"} \cup Malformed
  BY <1>2, LinesAssumption
<1> QED BY <1>8, <1>9, <1>10, <1>11 DEF IsHeader

(* The table of a file by its name. *)
LEMMA TableSaid ==
  ASSUME NEW f \in File, NEW open, NEW tables, TablesOf(open, tables, f),
         NEW s \in DOMAIN Tables, s = "top" \/ HeadersOf(f, s) # {}
  PROVE  /\ HeaderOf(f, s) \in Headers(f) \cup {0}
         /\ SectionAt(f, HeaderOf(f, s)) = s
         /\ tables[s] = Said(f, HeaderOf(f, s))
<1>1. HeaderOf(f, s) \in Headers(f) \cup {0} /\ SectionAt(f, HeaderOf(f, s)) = s
  <2>1. CASE s = "top"
    BY <2>1, HeaderFacts DEF HeaderOf
  <2>2. CASE s # "top"
    <3>1. \E h \in Headers(f) : f[h].name = s
      BY <2>2 DEF HeadersOf
    <3>2. HeaderOf(f, s) \in Headers(f) /\ f[HeaderOf(f, s)].name = s
      BY <2>2, <3>1 DEF HeaderOf
    <3> QED BY <3>2, HeaderFacts
  <2> QED BY <2>1, <2>2
<1>2. s \notin ArrayNames
  BY SchemaNames
<1>3. tables[SectionAt(f, HeaderOf(f, s))] = Said(f, HeaderOf(f, s))
  BY <1>1, <1>2 DEF TablesOf
<1> QED BY <1>1, <1>3

(* The rules between fields, asked of the tables and of the file.          *)
LEMMA CrossErrorRight ==
  ASSUME NEW f, \A s \in DOMAIN Tables : given[s] = Said(f, HeaderOf(f, s))
  PROVE  CrossError \notin {"reading", "none"} /\ (CrossError = "Ok" <=> ValuesAllowed(f))
<1> PICK said : said = [s \in DOMAIN Tables |-> Said(f, HeaderOf(f, s))]
  OBVIOUS
<1>1. \A s \in {"rdseed", "rdrand", "usb_trng", "tpm2", "tpm12"} : given[s] = said[s]
  BY SchemaNames
<1> DEFINE V(s, k) == said[s][k][2]
           C(s, k) == given[s][k][2]
<1>2. \A s \in {"rdseed", "rdrand", "usb_trng", "tpm2", "tpm12"} : \A k : C(s, k) = V(s, k)
  BY <1>1
<1>3. ValuesAllowed(f) <=>
        /\ ~V("rdrand", "sole_source_allowed") /\ V("rdrand", "supplementary_only")
        /\ V("rdseed", "approved") => V("rdseed", "instruction_width_bits") = 64
        /\ V("usb_trng", "min_read_bytes") \in 16 .. 32
        /\ \A t \in {"tpm2", "tpm12"} : ~V(t, "sole_source_allowed") /\ V(t, "max_bytes_per_call") = 32
        /\ V("tpm12", "max_read_rounds") \in 1 .. 32
  BY DEF ValuesAllowed
<1>4. CrossError =
        IF C("rdrand", "sole_source_allowed") THEN "RdrandSoleSourceNotAllowed"
        ELSE IF ~C("rdrand", "supplementary_only") THEN "RdrandMustBeSupplementaryOnly"
        ELSE IF C("rdseed", "approved") /\ C("rdseed", "instruction_width_bits") # 64
          THEN "RdseedMustBe64Bit"
        ELSE IF C("usb_trng", "min_read_bytes") \notin 16 .. 32 THEN "UsbTrngMinReadBytesOutOfRange"
        ELSE IF C("tpm2", "sole_source_allowed") THEN "Tpm2SoleSourceNotAllowed"
        ELSE IF C("tpm2", "max_bytes_per_call") # 32 THEN "Tpm2MaxBytesMustBe32"
        ELSE IF C("tpm12", "sole_source_allowed") THEN "Tpm12SoleSourceNotAllowed"
        ELSE IF C("tpm12", "max_bytes_per_call") # 32 THEN "Tpm12MaxBytesMustBe32"
        ELSE IF C("tpm12", "max_read_rounds") \notin 1 .. 32 THEN "Tpm12ReadRoundsOutOfRange"
        ELSE "Ok"
  BY DEF CrossError, Bool, Num
<1> HIDE DEF V, C
<1> QED BY <1>2, <1>3, <1>4

(* The verdict at the end is that of the whole file. *)
LEMMA EndRight ==
  ASSUME TypeInv, NEW cur \in Nat, Parsed(cur), RecordError = "none"
  PROVE  /\ MissingKey => ~WellFormed(file)
         /\ ~MissingKey => /\ CrossError \notin {"reading", "none"}
                           /\ CrossError = "Ok" <=> WellFormed(file)
<1>1. /\ file \in File /\ Current(file, cur) /\ Accepted(file, cur) /\ TablesOf(opened, given, file)
      /\ section = SectionAt(file, cur)
  BY DEF TypeInv, Parsed
<1>2. /\ section \in ArrayNames => Complete(section, Said(file, cur))
      /\ \A a \in ArrayNames : Cardinality(HeadersOf(file, a)) <= MaxRecords
  BY RecordErrorRight
<1>3. ASSUME MissingKey PROVE ~WellFormed(file)
  <2>1. PICK s \in DOMAIN Tables : ~ Required(s) \subseteq DOMAIN given[s]
    BY <1>3 DEF MissingKey
  <2>2. CASE s = "top" \/ HeadersOf(file, s) # {}
    <3>1. /\ HeaderOf(file, s) \in Headers(file) \cup {0}
          /\ SectionAt(file, HeaderOf(file, s)) = s
          /\ given[s] = Said(file, HeaderOf(file, s))
      BY <1>1, <2>2, TableSaid
    <3>2. ~Complete(s, Said(file, HeaderOf(file, s)))
      BY <2>1, <3>1 DEF Complete
    <3> QED BY <3>1, <3>2 DEF WellFormed, SectionWellFormed
  <2>3. CASE s # "top" /\ HeadersOf(file, s) = {}
    <3>1. s \in TableNames /\ Cardinality(HeadersOf(file, s)) = 0
      BY <2>3, FS_EmptySet, SchemaNames
    <3> QED BY <3>1 DEF WellFormed
  <2> QED BY <2>2, <2>3
<1>4. ASSUME ~MissingKey
      PROVE  CrossError \notin {"reading", "none"} /\ (CrossError = "Ok" <=> WellFormed(file))
  <2>1. \A s \in DOMAIN Tables : Required(s) \subseteq DOMAIN given[s]
    BY <1>4 DEF MissingKey
  <2>2. \A s \in TableNames : HeadersOf(file, s) # {}
    <3> SUFFICES ASSUME NEW s \in TableNames, HeadersOf(file, s) = {} PROVE FALSE
      OBVIOUS
    <3>1. given[s] = NoKeys
      BY <1>1 DEF TablesOf
    <3> QED BY <2>1, <3>1, TablesRequire, RecordFacts, SchemaNames
  <2>3. \A s \in DOMAIN Tables : given[s] = Said(file, HeaderOf(file, s))
    BY <1>1, <2>2, TableSaid, SchemaNames
  <2>4. CrossError \notin {"reading", "none"} /\ (CrossError = "Ok" <=> ValuesAllowed(file))
    BY <2>3, CrossErrorRight
  <2>5. ASSUME NEW s \in TableNames
        PROVE  Cardinality(HeadersOf(file, s)) = 1
    <3>1. PICK h \in HeadersOf(file, s) : TRUE
      BY <2>2
    <3>2. HeadersOf(file, s) = {h}
      BY <1>1 DEF Accepted
    <3> QED BY <3>2, FS_Singleton
  <2>6. ASSUME NEW h \in Headers(file) \cup {0}
        PROVE  SectionWellFormed(file, h)
    <3>1. KeysFit(file, h)
      BY <1>1 DEF Accepted
    <3>2. CASE SectionAt(file, h) \in ArrayNames
      <4>1. h \in Headers(file) /\ SectionAt(file, h) = file[h].name
        BY <1>1, <3>2, HeaderFacts, SchemaNames
      <4>2. Complete(SectionAt(file, h), Said(file, h))
        BY <1>1, <1>2, <3>2, <4>1 DEF Accepted
      <4> QED BY <3>1, <4>2 DEF SectionWellFormed
    <3>3. CASE SectionAt(file, h) \notin ArrayNames
      <4>1. SectionAt(file, h) \in DOMAIN Tables
        <5>1. h = 0 \/ (h \in Headers(file) /\ SectionAt(file, h) = file[h].name)
          BY <1>1, HeaderFacts
        <5>2. \A k \in Headers(file) : file[k].name \in TableNames \cup ArrayNames
          BY <1>1 DEF Accepted
        <5> QED BY <1>1, <3>3, <5>1, <5>2, HeaderFacts, SchemaNames
      <4>2. given[SectionAt(file, h)] = Said(file, h)
        BY <1>1, <3>3 DEF TablesOf
      <4> QED BY <2>1, <3>1, <3>3, <4>1, <4>2, SchemaNames DEF SectionWellFormed, Complete
    <3> QED BY <3>2, <3>3
  <2>7. WellFormed(file) <=> ValuesAllowed(file)
    BY <1>1, <1>2, <2>5, <2>6 DEF WellFormed, Accepted
  <2> QED BY <2>4, <2>7
<1> QED BY <1>3, <1>4

(* The end of the file. *)
LEMMA EndKeeps ==
  ASSUME IInv, End
  PROVE  IInv'
<1>1. /\ TypeInv /\ verdict = "reading" /\ (\E cur \in Nat : Parsed(cur))
      /\ rest = <<>> /\ EndOfFile
      /\ file' = file /\ rest' = rest /\ held' = held
  BY DEF IInv, End, EndOfFile, Reading
<1>2. opened' = opened /\ given' = given
  BY <1>1 DEF EndOfFile
<1> PICK cur \in Nat : Parsed(cur)
  BY <1>1
<1>3. file' \o rest' = file
  BY <1>1 DEF TypeInv, File
<1>4. SUFFICES /\ verdict' # "reading"
               /\ verdict' = "Ok" => /\ WellFormed(file) /\ TablesOf(opened, given, file)
                                     /\ RecordsOf(records', file, {})
               /\ verdict' # "Ok" => ~WellFormed(file)
               /\ pending' \in Record /\ records' \in [ArrayNames -> Seq(Record)]
  <2>1. TypeInv'
    BY <1>1, <1>2, <1>4 DEF TypeInv
  <2> QED BY <1>1, <1>2, <1>3, <1>4, <2>1 DEF IInv, Reading
<1>5. file \in File
  BY <1>1 DEF TypeInv
<1>6. CASE RecordError # "none"
  <2>1. verdict' = RecordError /\ pending' = pending /\ records' = records
    BY <1>1, <1>6 DEF EndOfFile
  <2>2. RecordError \notin {"Ok", "reading"} /\ ~WellFormed(file)
    BY <1>1, <1>5, <1>6, RecordErrorRight
  <2> QED BY <1>1, <2>1, <2>2 DEF TypeInv
<1>7. CASE RecordError = "none"
  <2>1. /\ verdict' = IF MissingKey THEN "MissingField" ELSE CrossError
        /\ records' = Finished("end") /\ pending' = NoKeys
    BY <1>1, <1>7 DEF EndOfFile
  <2>2. RecordsOf(Finished("end"), file, {}) /\ Finished("end") \in [ArrayNames -> Seq(Record)]
    BY <1>1, FinishedRecords
  <2>3. /\ MissingKey => ~WellFormed(file)
        /\ ~MissingKey => /\ CrossError \notin {"reading", "none"}
                          /\ CrossError = "Ok" <=> WellFormed(file)
    BY <1>1, <1>7, EndRight
  <2>4. TablesOf(opened, given, file)
    BY DEF Parsed
  <2> QED BY <2>1, <2>2, <2>3, <2>4, RecordFacts
<1> QED BY <1>6, <1>7

(* An edit is made to lines that have not been read. *)
LEMMA EditKeeps ==
  ASSUME IInv,
         \/ \E n \in DOMAIN rest : TakeOut(n)
         \/ PutBack
         \/ \E new \in Insertions : PutIn(new)
         \/ \E l \in Lines : Change(l)
  PROVE  IInv'
<1>1. verdict = "reading" /\ file' = file /\ parser' = parser
  BY DEF TakeOut, PutBack, PutIn, Change, Edit, Reading
<1>2. TypeInv
  BY DEF IInv
<1>3. rest' \in File /\ held' \in File
  <2>1. ASSUME NEW n \in DOMAIN rest, TakeOut(n) PROVE rest' \in File /\ held' \in File
    <3>1. rest \in Seq(Lines) /\ n \in 1 .. Len(rest) /\ Len(rest) \in Nat
      BY <1>2 DEF TypeInv, File
    <3>2. SubSeq(rest, 1, n) \in Seq(Lines) /\ SubSeq(rest, n + 1, Len(rest)) \in Seq(Lines)
      BY <3>1
    <3> QED BY <2>1, <3>2 DEF TakeOut, File
  <2>2. CASE PutBack
    <3>1. <<>> \in File
      BY DEF File
    <3> QED BY <1>2, <2>2, <3>1, ConcatBegins DEF PutBack, TypeInv
  <2>3. ASSUME NEW new \in Insertions, PutIn(new) PROVE rest' \in File /\ held' \in File
    <3>1. new \in File
      BY LinesAssumption DEF File
    <3> QED BY <1>2, <2>3, <3>1, ConcatBegins DEF PutIn, Edit, TypeInv
  <2>4. ASSUME NEW l \in Lines, Change(l) PROVE rest' \in File /\ held' \in File
    BY <1>2, <2>4 DEF Change, Edit, TypeInv, File
  <2> QED BY <2>1, <2>2, <2>3, <2>4
<1>4. PICK cur \in Nat : Parsed(cur)
  BY <1>1 DEF IInv, Reading
<1>5. Parsed(cur)'
  BY <1>1, <1>4 DEF Parsed, parser, TablesOf, RecordsOf
<1>6. TypeInv'
  BY <1>1, <1>2, <1>3 DEF TypeInv, parser
<1> QED BY <1>1, <1>5, <1>6 DEF IInv, Reading, parser

(* Every step keeps IInv.                                                  *)
LEMMA NextIInv == IInv /\ [Next]_vars => IInv'
<1> SUFFICES ASSUME IInv, [Next]_vars PROVE IInv'
  OBVIOUS
<1>1. CASE UNCHANGED vars
  <2>1. parser' = parser /\ file' = file /\ rest' = rest /\ held' = held
    BY <1>1 DEF vars
  <2>2. TypeInv'
    BY <2>1 DEF IInv, TypeInv, parser
  <2>3. ASSUME NEW cur \in Nat, Parsed(cur) PROVE Parsed(cur)'
    BY <2>1, <2>3 DEF Parsed, parser, TablesOf, RecordsOf
  <2> QED BY <2>1, <2>2, <2>3 DEF IInv, Reading, parser, TablesOf, RecordsOf
<1>2. CASE \/ \E n \in DOMAIN rest : TakeOut(n)
           \/ PutBack
           \/ \E new \in Insertions : PutIn(new)
           \/ \E l \in Lines : Change(l)
  BY <1>2, EditKeeps
<1>3. CASE Read
  BY <1>3, ReadKeeps
<1>4. CASE End
  BY <1>4, EndKeeps
<1> QED BY <1>1, <1>2, <1>3, <1>4 DEF Next

(* So IInv holds in every state.                                           *)
LEMMA SpecIInv == Spec => []IInv
BY InitIInv, NextIInv, PTL DEF Spec

---------------------------------------------------------------------------
(* What a policy accepted answers. *)

(* The tables and the records of an accepted file. *)
LEMMA AcceptedTables ==
  ASSUME IInv, verdict = "Ok"
  PROVE  /\ file \in File /\ WellFormed(file)
         /\ \A s \in DOMAIN Tables :
              /\ given[s] = Said(file, HeaderOf(file, s))
              /\ HeaderOf(file, s) \in Headers(file) \cup {0}
              /\ SectionAt(file, HeaderOf(file, s)) = s
         /\ \A a \in ArrayNames :
              /\ Len(records[a]) = Cardinality(HeadersOf(file, a))
              /\ DOMAIN records[a] = 1 .. Cardinality(HeadersOf(file, a))
              /\ \A h \in HeadersOf(file, a) : records[a][Place(file, h)] = Said(file, h)
              /\ \A n \in DOMAIN records[a] : \E h \in HeadersOf(file, a) : n = Place(file, h)
<1>1. /\ file \in File /\ WellFormed(file) /\ TablesOf(opened, given, file)
      /\ RecordsOf(records, file, {}) /\ TypeInv
  BY DEF IInv, TypeInv
<1>2. \A s \in TableNames : HeadersOf(file, s) # {}
  <2> SUFFICES ASSUME NEW s \in TableNames, HeadersOf(file, s) = {} PROVE FALSE
    OBVIOUS
  <2>1. Cardinality(HeadersOf(file, s)) = 0
    BY FS_EmptySet
  <2> QED BY <1>1, <2>1 DEF WellFormed
<1>3. \A s \in DOMAIN Tables :
        /\ given[s] = Said(file, HeaderOf(file, s))
        /\ HeaderOf(file, s) \in Headers(file) \cup {0}
        /\ SectionAt(file, HeaderOf(file, s)) = s
  BY <1>1, <1>2, TableSaid, SchemaNames
<1>4. \A a \in ArrayNames : HeadersOf(file, a) \ {} = HeadersOf(file, a)
  OBVIOUS
<1>5. \A a \in ArrayNames : DOMAIN records[a] = 1 .. Len(records[a])
  BY <1>1, RecordIsSeq DEF TypeInv
<1> QED BY <1>1, <1>3, <1>4, <1>5 DEF RecordsOf

(* What a section of a well-formed file must say has a value of its type.  *)
LEMMA SaysRequired ==
  ASSUME NEW f \in File, WellFormed(f), NEW h \in Headers(f) \cup {0},
         NEW k \in Required(SectionAt(f, h))
  PROVE  LET t == Schema(SectionAt(f, h))[k]
             v == Said(f, h)[k] IN
         /\ t \in {"u8", "u16"} => v[2] \in Nat /\ \A n : v = N(n) <=> v[2] = n
         /\ t = "bool" => v[2] \in BOOLEAN /\ (v = Yes <=> v[2])
<1>1. h \in Nat /\ SectionWellFormed(f, h)
  BY HeaderFacts DEF WellFormed, File
<1>2. KeysFit(f, h) /\ k \in DOMAIN Said(f, h)
  BY <1>1 DEF SectionWellFormed, Complete
<1> PICK t, v : t = Schema(SectionAt(f, h))[k] /\ v = Said(f, h)[k]
  OBVIOUS
<1>3. /\ v = <<v[1], v[2]>>
      /\ t \in {"u8", "u16"} => v[1] = "int" /\ v[2] \in Nat
      /\ t = "bool" => v[1] = "bool" /\ v[2] \in BOOLEAN
  BY <1>1, <1>2, SaidTyped
<1>4. t \in {"u8", "u16"} => \A n : v = <<"int", n>> <=> v[2] = n
  BY <1>3
<1>5. t = "bool" => (v = <<"bool", TRUE>> <=> v[2])
  <2> SUFFICES ASSUME t = "bool" PROVE v = <<"bool", TRUE>> <=> v[2]
    OBVIOUS
  <2>1. v = <<"bool", v[2]>> /\ v[2] \in BOOLEAN
    BY <1>3
  <2>2. CASE v[2] = TRUE
    BY <2>1, <2>2
  <2>3. CASE v[2] = FALSE
    <3>1. v # <<"bool", TRUE>>
      <4> SUFFICES ASSUME v = <<"bool", TRUE>> PROVE FALSE
        OBVIOUS
      <4>1. v[2] = TRUE
        OBVIOUS
      <4> QED BY <4>1, <2>3
    <3> QED BY <3>1, <2>3
  <2> QED BY <2>1, <2>2, <2>3
<1> QED BY <1>3, <1>4, <1>5 DEF Yes, N

(* The records that match a processor are those of the sections covering it. *)
LEMMA MatchingSections ==
  ASSUME IInv, verdict = "Ok", NEW a \in ArrayNames, NEW cpu
  PROVE  LET covering == Covering(file, a, cpu) IN
         /\ \A h \in covering :
              /\ Place(file, h) \in DOMAIN records[a] /\ records[a][Place(file, h)] = Said(file, h)
              /\ InRange(records[a][Place(file, h)], cpu)
              /\ \A other \in covering : other <= h <=> Place(file, other) <= Place(file, h)
         /\ \A i \in DOMAIN records[a] :
              InRange(records[a][i], cpu) => \E h \in covering : i = Place(file, h)
<1> DEFINE hs == HeadersOf(file, a)
<1>1. /\ file \in File
      /\ DOMAIN records[a] = 1 .. Cardinality(hs)
      /\ \A h \in hs : records[a][Place(file, h)] = Said(file, h)
      /\ \A n \in DOMAIN records[a] : \E h \in hs : n = Place(file, h)
  BY AcceptedTables
<1>2. /\ Cardinality(hs) \in Nat
      /\ \A h \in hs : Place(file, h) \in 1 .. Cardinality(hs)
      /\ \A h, k \in hs : h < k => Place(file, h) < Place(file, k)
      /\ \A h \in hs : h \in Nat
  BY <1>1, PlaceFacts, HeaderFacts DEF File
<1>3. \A h : h \in Covering(file, a, cpu) <=> h \in hs /\ InRange(Said(file, h), cpu)
  BY DEF Covering
<1> HIDE DEF hs
<1>4. \A h, k \in hs : h <= k <=> Place(file, h) <= Place(file, k)
  <2> SUFFICES ASSUME NEW h \in hs, NEW k \in hs
               PROVE  h <= k <=> Place(file, h) <= Place(file, k)
    OBVIOUS
  <2>1. CASE h < k
    BY <1>2, <2>1
  <2>2. CASE k < h
    BY <1>2, <2>2
  <2>3. CASE h = k
    BY <1>2, <2>3
  <2> QED BY <1>2, <2>1, <2>2, <2>3
<1> QED BY <1>1, <1>2, <1>3, <1>4

(* The sampler uses RDSEED on exactly the processors the file permits.     *)
LEMMA CpuAnswer ==
  ASSUME IInv, verdict = "Ok", NEW cpu
  PROVE  SamplesRdseed(cpu) <=> PermitsCpu(file, cpu)
<1> DEFINE table == Said(file, HeaderOf(file, "rdseed"))
           rules == Covering(file, "rdseed_cpu_rules", cpu)
           rs    == records["rdseed_cpu_rules"]
<1>1. /\ file \in File /\ WellFormed(file)
      /\ given["rdseed"] = table
      /\ HeaderOf(file, "rdseed") \in Headers(file) \cup {0}
      /\ SectionAt(file, HeaderOf(file, "rdseed")) = "rdseed"
  BY AcceptedTables, SchemaNames
<1>2. RdseedApproved <=> table["approved"] = Yes
  <2>1. table["approved"] = Yes <=> table["approved"][2]
    BY <1>1, SaysRequired, FieldTypes
  <2> QED BY <1>1, <2>1 DEF RdseedApproved, Bool
<1>3. Num("rdseed", "min_successful_values") = 4 <=> table["min_successful_values"] = N(4)
  <2>1. table["min_successful_values"] = N(4) <=> table["min_successful_values"][2] = 4
    BY <1>1, SaysRequired, FieldTypes
  <2> QED BY <1>1, <2>1 DEF Num
<1>4. RdseedApproved => Num("rdseed", "instruction_width_bits") = 64
  <2>1. ValuesAllowed(file)
    BY <1>1 DEF WellFormed
  <2>2. table["approved"][2] => table["instruction_width_bits"][2] = 64
    BY <2>1, SchemaNames DEF ValuesAllowed
  <2> QED BY <1>1, <2>2 DEF RdseedApproved, Bool, Num
<1>5. Denylisted(cpu) <=> Covering(file, "denylist", cpu) # {}
  <2>1. /\ \A h \in Covering(file, "denylist", cpu) :
             Place(file, h) \in DOMAIN records["denylist"]
             /\ InRange(records["denylist"][Place(file, h)], cpu)
        /\ \A i \in DOMAIN records["denylist"] :
             InRange(records["denylist"][i], cpu) => \E h \in Covering(file, "denylist", cpu) : TRUE
    BY MatchingSections, SchemaNames
  <2> QED BY <2>1 DEF Denylisted
<1>6. /\ \A h \in rules :
           /\ Place(file, h) \in DOMAIN rs /\ rs[Place(file, h)] = Said(file, h)
           /\ InRange(rs[Place(file, h)], cpu)
           /\ \A other \in rules : other <= h <=> Place(file, other) <= Place(file, h)
      /\ \A i \in DOMAIN rs : InRange(rs[i], cpu) => \E h \in rules : i = Place(file, h)
  BY MatchingSections, SchemaNames
<1>7. ASSUME NEW h \in rules
      PROVE  Said(file, h)["allow"] = Yes <=> rs[Place(file, h)]["allow"][2]
  <2>1. h \in Headers(file) /\ SectionAt(file, h) = "rdseed_cpu_rules"
    BY <1>1, HeaderFacts DEF Covering, HeadersOf
  <2>2. Said(file, h)["allow"] = Yes <=> Said(file, h)["allow"][2]
    BY <1>1, <2>1, SaysRequired, FieldTypes
  <2> QED BY <1>6, <2>2
<1>8. MatchingRules(cpu) = {i \in DOMAIN rs : InRange(rs[i], cpu)}
  BY DEF MatchingRules
<1> HIDE DEF rules, rs, table
<1>9. \A h \in rules : Decides(Place(file, h), cpu) <=> \A other \in rules : other <= h
  <2> SUFFICES ASSUME NEW h \in rules
               PROVE  Decides(Place(file, h), cpu) <=> \A other \in rules : other <= h
    OBVIOUS
  <2>1. Place(file, h) \in MatchingRules(cpu)
    BY <1>6, <1>8
  <2>2. (\A j \in MatchingRules(cpu) : j <= Place(file, h)) <=>
          \A other \in rules : Place(file, other) <= Place(file, h)
    BY <1>6, <1>8
  <2> QED BY <1>6, <2>1, <2>2 DEF Decides
<1>10. (\E i \in DOMAIN rs : Decides(i, cpu) /\ rs[i]["allow"][2]) <=>
         \E h \in rules : Said(file, h)["allow"] = Yes /\ \A other \in rules : other <= h
  <2>1. ASSUME NEW i \in DOMAIN rs, Decides(i, cpu), rs[i]["allow"][2]
        PROVE  \E h \in rules : Said(file, h)["allow"] = Yes /\ \A other \in rules : other <= h
    <3>1. InRange(rs[i], cpu)
      BY <2>1, <1>8 DEF Decides
    <3>2. PICK h \in rules : i = Place(file, h)
      BY <1>6, <3>1
    <3>3. Said(file, h)["allow"] = Yes
      BY <1>7, <2>1, <3>2
    <3> QED BY <1>9, <2>1, <3>2, <3>3
  <2>2. ASSUME NEW h \in rules, Said(file, h)["allow"] = Yes, \A other \in rules : other <= h
        PROVE  \E i \in DOMAIN rs : Decides(i, cpu) /\ rs[i]["allow"][2]
    <3>1. Decides(Place(file, h), cpu)
      BY <1>9, <2>2
    <3>2. rs[Place(file, h)]["allow"][2]
      BY <1>7, <2>2
    <3> QED BY <1>6, <3>1, <3>2
  <2> QED BY <2>1, <2>2
<1>11. CpuAllowed(cpu) <=> /\ RdseedApproved
                           /\ \E i \in DOMAIN rs : Decides(i, cpu) /\ rs[i]["allow"][2]
  BY DEF CpuAllowed, rs
<1>12. PermitsCpu(file, cpu) <=>
         /\ table["approved"] = Yes /\ table["min_successful_values"] = N(4)
         /\ Covering(file, "denylist", cpu) = {}
         /\ \E h \in rules : Said(file, h)["allow"] = Yes /\ \A other \in rules : other <= h
  BY DEF PermitsCpu, rules, table
<1> QED BY <1>2, <1>3, <1>4, <1>5, <1>10, <1>11, <1>12 DEF SamplesRdseed

(* A device is allowed exactly if the file permits it.                     *)
LEMMA DeviceAnswer ==
  ASSUME IInv, verdict = "Ok", NEW device
  PROVE  DeviceAllowed(device[1], device[2]) <=> PermitsDevice(file, device)
<1> DEFINE table == Said(file, HeaderOf(file, "usb_trng"))
           hs    == HeadersOf(file, "usb_trng_devices")
           ds    == records["usb_trng_devices"]
<1>1. /\ file \in File /\ WellFormed(file)
      /\ given["usb_trng"] = table
      /\ HeaderOf(file, "usb_trng") \in Headers(file) \cup {0}
      /\ SectionAt(file, HeaderOf(file, "usb_trng")) = "usb_trng"
  BY AcceptedTables, SchemaNames
<1>2. Bool("usb_trng", "approved") <=> table["approved"] = Yes
  <2>1. table["approved"] = Yes <=> table["approved"][2]
    BY <1>1, SaysRequired, FieldTypes
  <2> QED BY <1>1, <2>1 DEF Bool
<1>3. /\ DOMAIN ds = 1 .. Cardinality(hs)
      /\ \A h \in hs : ds[Place(file, h)] = Said(file, h)
      /\ \A n \in DOMAIN ds : \E h \in hs : n = Place(file, h)
  BY AcceptedTables, SchemaNames
<1>4. \A h \in hs : Place(file, h) \in DOMAIN ds
  BY <1>1, <1>3, PlaceFacts
<1>5. ASSUME NEW h \in hs
      PROVE  /\ Said(file, h)["vendor_id"] = N(device[1]) <=> Said(file, h)["vendor_id"][2] = device[1]
             /\ Said(file, h)["product_id"] = N(device[2]) <=> Said(file, h)["product_id"][2] = device[2]
  <2>1. h \in Headers(file) /\ SectionAt(file, h) = "usb_trng_devices"
    BY <1>1, HeaderFacts DEF HeadersOf
  <2>2. /\ "vendor_id" \in Required(SectionAt(file, h)) /\ "product_id" \in Required(SectionAt(file, h))
        /\ Schema(SectionAt(file, h))["vendor_id"] = "u16"
        /\ Schema(SectionAt(file, h))["product_id"] = "u16"
    BY <2>1, FieldTypes
  <2> QED BY <1>1, <2>1, <2>2, SaysRequired
<1> HIDE DEF hs, ds, table
<1>6. (\E i \in DOMAIN ds : ds[i]["vendor_id"][2] = device[1] /\ ds[i]["product_id"][2] = device[2])
        <=> \E h \in hs : /\ Said(file, h)["vendor_id"] = N(device[1])
                          /\ Said(file, h)["product_id"] = N(device[2])
  BY <1>3, <1>4, <1>5
<1>7. DeviceAllowed(device[1], device[2]) <=>
        /\ Bool("usb_trng", "approved")
        /\ \E i \in DOMAIN ds : ds[i]["vendor_id"][2] = device[1] /\ ds[i]["product_id"][2] = device[2]
  BY DEF DeviceAllowed, ds
<1>8. PermitsDevice(file, device) <=>
        /\ table["approved"] = Yes
        /\ \E h \in hs : /\ Said(file, h)["vendor_id"] = N(device[1])
                         /\ Said(file, h)["product_id"] = N(device[2])
  BY DEF PermitsDevice, hs, table
<1> QED BY <1>2, <1>6, <1>7, <1>8

---------------------------------------------------------------------------
(* Theorems. *)

(* Whatever lines a file has, and in whatever order, the parser, which     *)
(* sees one at a time, accepts exactly the files that are well-formed as a *)
(* whole: it refuses no line that such a file could have where it stands.  *)
THEOREM AcceptsWellFormed == Spec => []AcceptsExactlyWellFormed
<1>1. IInv => AcceptsExactlyWellFormed
  BY DEF IInv, AcceptsExactlyWellFormed
<1> QED BY <1>1, SpecIInv, PTL

(* Every value of an accepted file is stored under the section it was      *)
(* written in, every record once and in the order of the file.             *)
THEOREM StoresFile == Spec => []StoresWhatIsWritten
<1>1. IInv => StoresWhatIsWritten
  BY AcceptedTables DEF StoresWhatIsWritten
<1> QED BY <1>1, SpecIInv, PTL

(* What the sampler and the setup screen make of an accepted policy is     *)
(* what its text says, for every processor and every device: of the rules  *)
(* that cover a processor the one nearest the end of the file decides.     *)
THEOREM AnswersFile == Spec => []AnswersAsWritten
<1>1. IInv => AnswersAsWritten
  <2> SUFFICES ASSUME IInv, verdict = "Ok"
               PROVE  /\ \A cpu \in Cpus :
                           /\ SamplesRdseed(cpu) <=> PermitsCpu(file, cpu)
                           /\ SamplesRdseed(cpu) => OffersRdseed(cpu)
                      /\ \A d \in Devices : DeviceAllowed(d[1], d[2]) <=> PermitsDevice(file, d)
    BY DEF AnswersAsWritten
  <2>1. \A cpu \in Cpus : SamplesRdseed(cpu) => OffersRdseed(cpu)
    BY DEF SamplesRdseed, OffersRdseed
  <2> QED BY <2>1, CpuAnswer, DeviceAnswer
<1> QED BY <1>1, SpecIInv, PTL
=============================================================================
