------------------------------- MODULE MCSyncer -------------------------------
(***************************************************************************)
(* Instances of Syncer for TLC.  A transaction is a pair of its coin and   *)
(* its kind; the kind tells whom it pays: "own" and "own2" the coin's      *)
(* first address, "late" one that the server creates while the monitor     *)
(* runs, "foreign" an address outside the wallet.                          *)
(***************************************************************************)
EXTENDS Syncer

CONSTANTS
  Kinds,           \* kinds of the transactions of BTC
  OtherKinds,      \* kinds of the transactions of the other coins
  EveryN           \* the scan point interval of all coins

KindsOf(c) == IF c = "BTC" THEN Kinds ELSE OtherKinds
MCTx == UNION {{c} \X KindsOf(c) : c \in Coin}
MCCoinOf == [t \in MCTx |-> t[1]]
MCAddress == Coin \X {"first", "second", "outside"}
PayeeOf == [own |-> "first", own2 |-> "first", late |-> "second", foreign |-> "outside"]
MCAddressOf == [t \in MCTx |-> <<t[1], PayeeOf[t[2]]>>]
MCWallet == [c \in Coin |-> {c} \X ({"first", "second"} \cap ({"first"} \cup {PayeeOf[k] : k \in KindsOf(c)}))]
MCInitialAccount == Coin \X {"first"}
MCEvery == [c \in Coin |-> EveryN]

\* The server has created no address for OMNI when the monitor starts.
NoOmniAccount == (Coin \ {"OMNI"}) \X {"first"}
===============================================================================
