----------------------------- MODULE MCScreens -----------------------------
(* Screens with the numbers of the purposes put close together. *)
EXTENDS Screens

SmallNumbers ==
  [Bip44 |-> 1, Bip49 |-> 2, Bip84 |-> 3, Bip86 |-> 4,
   Bip45Multisig |-> 5, Bip47PaymentCode |-> 6, Bip48Multisig |-> 7]
===========================================================================
