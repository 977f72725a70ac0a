----------------------------- MODULE TransferFlags -----------------------------
(***************************************************************************)
(* How the scans of the account-based ledgers book a transfer              *)
(* (monitor/src/syncer.cpp): the flag it gets from the wallet's addresses  *)
(* on its two sides, and the amount.  A transfer is executed by the node   *)
(* and booked by the scan in one step (module Syncer has the scan's steps);*)
(* the state is the wallet's true balance per ledger, the one the rows of  *)
(* txutxo add up to, and totals of the history that tell where the two may *)
(* differ.                                                                 *)
(*                                                                         *)
(* A transfer is what the node reports: sides and amount.  The scans do    *)
(* not look at whether it moved that amount of the ledger's coin (receipt, *)
(* TransactionResult, property, token contract), and a balance also        *)
(* changes without any transfer they would look at.                        *)
(*                                                                         *)
(* An operator named X_Suffix is X with a plausible slip.                  *)
(***************************************************************************)
EXTENDS Integers

CONSTANTS
  Ledger,      \* a subset of AllLedgers
  Account,     \* [Ledger -> SUBSET account], the wallet's accounts
  Stranger,    \* [Ledger -> SUBSET account], all others
  Amount,      \* amounts that may be transferred
  Base,        \* digits of an amount's hexadecimal form (16)
  Kept,        \* amounts that an ERC20 row can tell apart (16^40: it has 40 digits)
  MaxBalance   \* bound: what the wallet holds on a ledger

AllLedgers == {"ETH", "ERC20", "XRP", "EOS", "OMNI"}

ASSUME LedgerAssumption ==
  /\ Ledger \subseteq AllLedgers
  /\ \A l \in Ledger : Account[l] \cap Stranger[l] = {}
  /\ Amount \subseteq Nat \ {0} /\ Base \in Nat \ {0, 1} /\ Kept \in Nat \ {0}
  /\ MaxBalance \in Nat

\* scanXRP and scanEOS compare both sides with the one base account.
ASSUME OneBaseAssumption ==
  \A l \in Ledger \cap {"XRP", "EOS"} : \A a, b \in Account[l] : a = b

VARIABLES
  balance,     \* [Ledger -> Int], what the wallet holds
  booked,      \* [Ledger -> Int], the same by the rows of txutxo
  internal,    \* [Ledger -> Nat], transferred between the wallet's accounts
  foreign,     \* [Ledger -> Nat], transferred between strangers
  phantom,     \* [Ledger -> Int], reported as moved to the wallet, but not moved
  unseen       \* [Ledger -> Int], moved to the wallet without a reported transfer

flagVars == <<balance, booked, internal, foreign, phantom, unseen>>

Deposit == 0
Withdrawal == 1
Internal == 2

\* What a row contributes, by the comment on txutxo.flag (doc/otc.sql:128).
Effect(flag, amount) ==
  CASE flag = Deposit -> amount [] flag = Withdrawal -> -amount [] OTHER -> 0

\* Slip: the internal case is tested last.
FlagOf_DepositFirst(to, from) ==
  IF to THEN Deposit ELSE IF from THEN Withdrawal ELSE Internal

\* scanOMNI_USDT and the ERC20 branch of scanETH: a chain of else-ifs.
FlagOf(to, from) ==
  IF to /\ from THEN Internal ELSE IF to THEN Deposit ELSE Withdrawal

\* The plain branch of scanETH has no else before its second test.
FlagOfETH(to, from) == IF to THEN Deposit ELSE Withdrawal

\* scanXRP compares with the one base address.
FlagOfXRP(to, from) == IF to THEN Deposit ELSE Withdrawal

\* scanEOS compares with the one base account and leaves the flag uninitialised
\* when neither test holds: any value, of which three matter.
FlagsOfEOS(to, from) ==
  IF to THEN {Deposit} ELSE IF from THEN {Withdrawal} ELSE {Deposit, Withdrawal, Internal}

FlagsFor(l, to, from) ==
  CASE l = "ETH" -> {FlagOfETH(to, from)}
    [] l = "XRP" -> {FlagOfXRP(to, from)}
    [] l = "EOS" -> FlagsOfEOS(to, from)
    [] OTHER -> {FlagOf(to, from)}

\* The amount in the row.  An ERC20 transfer's is cut out of the call data: 40
\* digits, beginning with the 41st from the end.
AmountOf(l, amount) ==
  IF l = "ERC20" THEN (amount \div Base) % Kept ELSE amount

\* Where the wallet is on neither side the scans `continue`, but for scanEOS.
IsBooked(l, to, from) == to \/ from \/ l = "EOS"

Nothing == [l \in Ledger |-> 0]

FlagInit ==
  /\ balance = Nothing /\ booked = Nothing /\ internal = Nothing /\ foreign = Nothing
  /\ phantom = Nothing /\ unseen = Nothing

\* What an amount that moves means to the wallet.
Signed(to, from, amount) == (IF to THEN amount ELSE 0) - (IF from THEN amount ELSE 0)

\* What a reported transfer may have moved: nothing if it failed (ETH, ERC20,
\* XRP) or was one of another contract's token or another property (EOS, OMNI),
\* and less in a partial payment (XRP).
Moved(l, amount) ==
  IF l = "XRP" THEN {m \in Amount \cup {0} : m <= amount} ELSE {0, amount}

\* Nobody pays what he does not hold; XRP and EOS reject a payment of an account
\* to itself.  MaxBalance bounds all totals.
Transfer(l, src, dst, amount, moved) ==
  LET from == src \in Account[l]
      to == dst \in Account[l] IN
  /\ l \in {"XRP", "EOS"} => src # dst
  /\ balance' = [balance EXCEPT ![l] = @ + Signed(to, from, moved)]
  /\ phantom' = [phantom EXCEPT ![l] = @ + Signed(to, from, amount - moved)]
  /\ internal' = [internal EXCEPT ![l] = @ + (IF to /\ from THEN amount ELSE 0)]
  /\ foreign' = [foreign EXCEPT ![l] = @ + (IF to \/ from THEN 0 ELSE amount)]
  /\ {balance'[l], internal'[l], foreign'[l]} \subseteq 0..MaxBalance
  /\ phantom'[l] \in -MaxBalance..MaxBalance
  /\ IF IsBooked(l, to, from)
       THEN \E flag \in FlagsFor(l, to, from) :
              booked' = [booked EXCEPT ![l] = @ + Effect(flag, AmountOf(l, amount))]
       ELSE UNCHANGED booked
  /\ UNCHANGED unseen

TransferOn(l) ==
  \E src, dst \in Account[l] \cup Stranger[l], amount \in Amount :
    \E moved \in Moved(l, amount) : Transfer(l, src, dst, amount, moved)

\* The wallet's balance changes without a transfer the scan would look at: by a
\* fee, which no row of txutxo has, or by what contracts, inline actions,
\* transferFrom or another type of transaction move.
Unseen(l, change) ==
  /\ balance' = [balance EXCEPT ![l] = @ + change]
  /\ unseen' = [unseen EXCEPT ![l] = @ + change]
  /\ balance'[l] \in 0..MaxBalance /\ unseen'[l] \in -MaxBalance..MaxBalance
  /\ UNCHANGED <<booked, internal, foreign, phantom>>

UnseenOn(l) == \E amount \in Amount : Unseen(l, amount) \/ Unseen(l, -amount)

FlagNext == \E l \in Ledger : TransferOn(l) \/ UnseenOn(l)
FlagSpec == FlagInit /\ [][FlagNext]_flagVars

-------------------------------------------------------------------------------
(* Properties.                                                             *)

\* The balance that the transfers, as they were reported, amount to.
Reported(l) == balance[l] - unseen[l] + phantom[l]

\* The rows of OMNI and XRP add up to what was reported, whichever sides of the
\* transfers are the wallet's own (lines 761-771 and 1024-1043).
OthersAsReported == \A l \in Ledger \cap {"OMNI", "XRP"} : booked[l] = Reported(l)

\* The rows of plain ETH transfers are off by the internal transfers, each of
\* them booked as a deposit (lines 594-613).
ETHOffByInternal == "ETH" \in Ledger => booked["ETH"] = Reported("ETH") + internal["ETH"]

\* The rows of EOS are off by at most what strangers transferred to each other:
\* such a transfer is booked with whatever flag the memory held (lines 910-929).
EOSOffByForeign ==
  "EOS" \in Ledger => booked["EOS"] - Reported("EOS") \in -foreign["EOS"]..foreign["EOS"]

\* The rows of ERC20 transfers lack the last digit of each amount (line 563),
\* while no amount has more digits than a row keeps.
ERC20OffByDigit ==
  /\ "ERC20" \in Ledger
  /\ \A a \in Amount : a % Base = 0 /\ a \div Base < Kept
  => booked["ERC20"] * Base = Reported("ERC20")

\* All of these: whoever adds up the rows gets the wallet's balance, off by what
\* the totals named and nothing else: what moved without being reported, what
\* was reported without having moved (both unseen by every check of the scans),
\* and the slips of each ledger, whatever the order of transfers and the sides
\* they have.
BalanceExplained == OthersAsReported /\ ETHOffByInternal /\ EOSOffByForeign /\ ERC20OffByDigit

BalanceBooked(l) == l \in Ledger => booked[l] = balance[l] - unseen[l]

\* What the flags promise of plain transfers of ETH: an internal transfer, flag
\* 2, is neither a deposit nor a withdrawal (doc/otc.sql:128).
ETHBalanceBooked == BalanceBooked("ETH")

\* The same for ERC20: a row's amount is the amount received (doc/otc.sql:127).
ERC20BalanceBooked == BalanceBooked("ERC20")

\* And for XRP, where a failed or partial payment is booked in full.
XRPBalanceBooked == BalanceBooked("XRP")
===============================================================================
