--------------------------- MODULE ExportScreen ---------------------------
(***************************************************************************)
(* The watch-only export (screens/export.rs): which artifact is selected,  *)
(* and the values derived for it.  A value is named by what it was made    *)
(* from; a text of a buffer that is scrubbed is None.                      *)
(***************************************************************************)
EXTENDS Integers

CONSTANT Bip48AccountMax   \* BIP48_ACCOUNT_MAX

ASSUME AccountAssumption == Bip48AccountMax \in Nat

VARIABLES
  state,     \* ExportState
  exported,  \* ExportValues
  refused    \* whether the refusal line is drawn

export == <<state, exported, refused>>

Descriptor == [Bip44 |-> "pkh", Bip49 |-> "sh(wpkh)", Bip84 |-> "wpkh", Bip86 |-> "tr"]
Slip132    == [Bip49 |-> "ypub", Bip84 |-> "zpub"]
Cosigner == "Bip48Cosigner"
Kinds == DOMAIN Descriptor \cup {Cosigner}

NewExport == [kind |-> "Bip84", slip132 |-> FALSE, account |-> 0]

(* account_path; every level is hardened. *)
AccountPath(st) ==
  LET purpose == [Bip44 |-> 44, Bip49 |-> 49, Bip84 |-> 84, Bip86 |-> 86]
  IN  IF st.kind = Cosigner
        THEN <<48, 0, IF st.account > Bip48AccountMax THEN Bip48AccountMax ELSE st.account, 2>>
        ELSE <<purpose[st.kind], 0, 0>>

XpubVersion(st) ==
  IF st.slip132 /\ st.kind \in DOMAIN Slip132 THEN Slip132[st.kind] ELSE "xpub"

(* handle_key: [1] to [4], [5] which also steps the account, and [T]. *)
SelectSingleSig(k) == [state EXCEPT !.kind = k]

SelectCosigner ==
  [state EXCEPT !.kind = Cosigner,
                !.account = IF state.kind # Cosigner \/ @ >= Bip48AccountMax THEN 0 ELSE @ + 1]

ToggleSlip132 == [state EXCEPT !.slip132 = ~@]

Selections == {SelectSingleSig(k) : k \in DOMAIN Descriptor} \cup {SelectCosigner, ToggleSlip132}

---------------------------------------------------------------------------
(* The values. *)

NoText == <<"none">>
NoValues == [xpub |-> NoText, descriptor |-> NoText, origin_key |-> NoText, qr |-> NoText]

\* Mutant: the length of the descriptor is not reset.
ScrubbedKeepingLength(v) == [NoValues EXCEPT !.descriptor = v.descriptor]

(* ExportValues::scrub *)
Scrubbed(v) == NoValues

(* qr_payload *)
QrPayload(v) == IF v.descriptor # NoText THEN v.descriptor ELSE v.origin_key

(* compute_export over the values v, when nothing fails: the key, then     *)
(* what a wallet takes, then the symbol of it.                             *)
Computed(st, v) ==
  LET path   == AccountPath(st)
      xpub   == <<XpubVersion(st), path>>
      keyed  == [Scrubbed(v) EXCEPT !.xpub = xpub]
      filled == IF st.kind = Cosigner
                  THEN [keyed EXCEPT !.origin_key = <<"origin", path, xpub>>]
                  ELSE [keyed EXCEPT !.descriptor = <<Descriptor[st.kind], path, xpub>>]
  IN  [filled EXCEPT !.qr = QrPayload(filled)]

(* One round of the branch's loop: a text or a symbol that does not fit is *)
(* refused and leaves nothing.                                             *)
ShowExport(st) ==
  /\ state' = st
  /\ \/ exported' = Computed(st, exported) /\ refused' = FALSE
     \/ exported' = Scrubbed(exported) /\ refused' = TRUE

ExportInit == state = NewExport /\ exported = NoValues /\ refused = FALSE

(* The end of the branch. *)
CloseExport == state' = NewExport /\ exported' = Scrubbed(exported) /\ refused' = FALSE
===========================================================================
