------------------------------- MODULE MCTransfers ------------------------------
(* Orders of the same amount and fee, and two outputs to pay them from.    *)
EXTENDS Transfers

MCAmount == [o \in Order |-> 2]
MCFee == [o \in Order |-> 1]
MCFees == [o \in Order |-> IF o \in Retried THEN 1 ELSE 2]
MCCoins == <<8, 8>>
================================================================================
