----------------------------- MODULE DepositLedger ----------------------------
(***************************************************************************)
(* What the monitor promises of one coin, without buffer, passes, crashes  *)
(* or callbacks: deposits are booked once their block is in the chain,     *)
(* rows are never taken back, and the scan point moves only together with  *)
(* everything it covers but what the database itself turned away.          *)
(***************************************************************************)
EXTENDS Integers, Sequences

CONSTANTS
  Payment,     \* transactions of the coin
  Owed         \* those whose recipient has to be credited

VARIABLES
  chain,       \* Seq(SUBSET Payment)
  recorded,    \* payments in table txutxo
  refused,     \* payments with a row that the database turned away
  scanPoint    \* MAX(height) in table block

ledgerVars == <<chain, recorded, refused, scanPoint>>

Confirmed(h) == UNION {chain[k] : k \in 1..h}

LedgerInit == chain = <<>> /\ recorded = {} /\ refused = {} /\ scanPoint = 0

Extend ==
  /\ \E b \in SUBSET Payment : chain' = Append(chain, b)
  /\ UNCHANGED <<recorded, refused, scanPoint>>

\* Rows of confirmed payments are stored or turned away.
Settle ==
  /\ recorded \subseteq recorded' /\ recorded' \subseteq recorded \cup Confirmed(Len(chain))
  /\ refused \subseteq refused' /\ refused' \subseteq refused \cup Confirmed(Len(chain))

\* Rows may be booked ahead of the scan point: those of a pass that was given
\* up leave with the next commit of another coin.
Book ==
  /\ Settle
  /\ UNCHANGED <<chain, scanPoint>>

Advance ==
  /\ Settle
  /\ scanPoint' \in scanPoint + 1 .. Len(chain)
  /\ Confirmed(scanPoint') \cap Owed \subseteq recorded' \cup refused'
  /\ UNCHANGED chain

LedgerNext == Extend \/ Book \/ Advance
LedgerSpec == LedgerInit /\ [][LedgerNext]_ledgerVars
===============================================================================
