---------------------------- MODULE FundsLedger ----------------------------
(***************************************************************************)
(* What a transaction template builder promises about money, and nothing   *)
(* else: a purse that starts with some funds, may be topped up, and is     *)
(* debited only by amounts it holds.  How a debit is used (an output, the  *)
(* miner's fee, a bare spend_amount) is left to the implementation.        *)
(***************************************************************************)
EXTENDS Integers

VARIABLES
    balance,    \* funds that can still be assigned
    deposited,  \* initial funds and every later top-up
    withdrawn   \* everything assigned so far

ledger == <<balance, deposited, withdrawn>>

Init ==
    /\ deposited \in Nat
    /\ balance = deposited
    /\ withdrawn = 0

Deposit ==
    /\ deposited' \in Nat
    /\ deposited' >= deposited
    /\ balance' = balance + (deposited' - deposited)
    /\ UNCHANGED withdrawn

Withdraw ==
    \E a \in 0..balance :
        /\ balance' = balance - a
        /\ withdrawn' = withdrawn + a
        /\ UNCHANGED deposited

Next == Deposit \/ Withdraw

Spec == Init /\ [][Next]_ledger
=============================================================================
