-------------------------------- MODULE MCFlags -------------------------------
(***************************************************************************)
(* BtcUtxo and TransferFlags side by side for TLC.  The two share no state *)
(* and no code but the table their rows go to; `book` says which of them   *)
(* a behaviour follows, so that the states add up and do not multiply.     *)
(* A wallet of two accounts per ledger, of one base account on XRP and     *)
(* EOS, and two strangers.                                                 *)
(***************************************************************************)
EXTENDS BtcUtxo, TransferFlags

CONSTANTS own, late, other, bare

VARIABLE book

MCAccount == [l \in Ledger |-> IF l \in {"XRP", "EOS"} THEN {"base"} ELSE {"base", "user"}]
MCStranger == [l \in Ledger |-> {"payer", "payee"}]

\* A deposit, a payment to strangers, one to an address created later, a payment
\* with change, an output without an address beside one.
MCShapes == {<<own>>, <<other>>, <<late>>, <<other, own>>, <<own, other>>, <<bare, other>>}
MCSingles == {<<own>>, <<other>>}

FlagsInit == Init /\ FlagInit /\ book \in {"BTC"} \cup Ledger
FlagsNext ==
  /\ UNCHANGED book
  /\ \/ book = "BTC" /\ Next /\ UNCHANGED flagVars
     \/ book \in Ledger /\ (TransferOn(book) \/ UnseenOn(book)) /\ UNCHANGED vars
FlagsSpec == FlagsInit /\ [][FlagsNext]_<<vars, flagVars, book>>
===============================================================================
