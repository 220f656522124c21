------------------------------ MODULE MCPolicy ------------------------------
(***************************************************************************)
(* PolicyFiles with the file the program carries (entropy-policy.toml) and *)
(* the same with every source approved, and with edits that cross every    *)
(* limit.                                                                  *)
(***************************************************************************)
EXTENDS PolicyFiles, SequencesExt

Table(name)  == [kind |-> "table", name |-> name]
Array(name)  == [kind |-> "array", name |-> name]
Key(k, v)    == [kind |-> "key", name |-> k, value |-> v]
No   == <<"bool", FALSE>>
Text(t) == <<"text", t>>
List(ts) == <<"list", ts>>

CpuLines(vendor, stepping) ==
  << Key("vendor", Text(vendor)), Key("family_min", N(0)), Key("family_max", N(65535)),
     Key("model_min", N(0)), Key("model_max", N(255)),
     Key("stepping_min", N(stepping[1])), Key("stepping_max", N(stepping[2])) >>

CpuRule(vendor, stepping, allow) ==
  << Array("rdseed_cpu_rules") >> \o CpuLines(vendor, stepping) \o << Key("allow", allow) >>

Shipped ==
  << Key("policy_version", N(1)),
     Table("efi_rng"), Key("approved", No), Key("sole_source_allowed", No),
       Key("max_algorithms", N(8)), Key("allowed_algorithms", List(<<>>)),
     Table("rdseed"), Key("approved", Yes), Key("sole_source_allowed", Yes),
       Key("instruction_width_bits", N(64)), Key("retry_limit", N(75)),
       Key("min_successful_values", N(4)), Key("diagnostic_blocks", N(2)) >>
  \o CpuRule("GenuineIntel", <<0, 255>>, Yes) \o CpuRule("AuthenticAMD", <<0, 255>>, Yes) \o
  << Table("rdrand"), Key("approved", Yes), Key("sole_source_allowed", No),
       Key("supplementary_only", Yes),
     Table("usb_trng"), Key("approved", No), Key("sole_source_allowed", No),
       Key("min_read_bytes", N(32)), Key("read_timeout_ms", N(2000)),
       Key("max_read_retries", N(3)),
     Table("tpm2"), Key("approved", No), Key("sole_source_allowed", No),
       Key("max_bytes_per_call", N(32)), Key("retry_limit", N(3)),
       Key("max_manufacturers", N(8)), Key("allowed_manufacturers", List(<<>>)),
     Table("tpm12"), Key("approved", No), Key("sole_source_allowed", No),
       Key("max_bytes_per_call", N(32)), Key("retry_limit", N(3)),
       Key("max_read_rounds", N(8)), Key("max_manufacturers", N(8)),
       Key("allowed_manufacturers", List(<<>>)) >>

(* The same with every source approved. *)
AllApproved ==
  [i \in DOMAIN Shipped |->
     IF Shipped[i].name = "approved" THEN Key("approved", Yes) ELSE Shipped[i]]

Device(profile, class) ==
  << Array("usb_trng_devices"), Key("profile", Text(profile)), Key("vendor_id", N(7504)),
     Key("product_id", N(24710)), Key("usb_class", Text(class)),
     Key("init_command", Text("cmd1")), Key("min_firmware", Text("")),
     Key("reason_pinned", Text("reviewed")) >>

Denied(stepping) ==
  << Array("denylist") >> \o CpuLines("GenuineIntel", stepping) \o << Key("reason", Text("errata")) >>

NarrowRule(allow) == CpuRule("GenuineIntel", <<3, 5>>, allow)

SomeValues ==
  {No, Yes, Text("hid"), Text("long"), Text("OneRNG"), <<"huge", 0>>, <<"garbage", 0>>,
   List(<<"IFX", "long">>), List([i \in 1 .. 9 |-> "IFX"])}
  \cup {N(n) : n \in {0, 15, 33, 64, 256, 65536}}

Inserts ==
  { << Shipped[i] >> : i \in DOMAIN Shipped }
  \cup { << [kind |-> k] >> : k \in Malformed }
  \cup { << Table("top") >>, << Array("rdseed") >>, << Key("counts_toward_floor", No) >>,
         << Key("min_microcode_revision", N(1)) >>,
         Device("OneRNG", "cdc-acm"), Device("other", "cdc-acm"), Device("OneRNG", "hid"),
         Denied(<<3, 5>>), Denied(<<5, 3>>), NarrowRule(No), NarrowRule(No) \o NarrowRule(Yes),
         << Array("usb_trng_devices") >>, << Array("denylist") >> }

BothFiles == {Shipped, AllApproved}

(* Every key may have every value. *)
AllLines ==
  LET written == UNION {Range(f) : f \in BothFiles \cup Inserts}
      keys    == {l.name : l \in {w \in written : w.kind = "key"}}
  IN  written \cup {Key(k, v) : k \in keys, v \in SomeValues}

ThreeVendors ==
  [vendor : {"GenuineIntel", "AuthenticAMD", "other"}, family : {6}, model : {20},
   stepping : {0, 4, 255}]

FourDevices == {7504, 1} \X {24710, 1}
=============================================================================
