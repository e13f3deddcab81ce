-------------------------------- MODULE Sats --------------------------------
(***************************************************************************)
(* Arithmetic on bitcoin amounts shared by the modules of the project.     *)
(***************************************************************************)
EXTENDS Integers, Sequences

Larger(m, n) == IF m >= n THEN m ELSE n
Smaller(m, n) == IF m <= n THEN m ELSE n

\* The table of running totals of a sequence of outputs: entry i is the value
\* of the first i outputs together.
PartialSums(outs) ==
    LET sum[i \in 0..Len(outs)] ==
          IF i = 0 THEN 0 ELSE sum[i - 1] + outs[i].amount
    IN  sum

\* CTVHash::total_amount: what the outputs of a transaction add up to.
TotalAmount(outs) == PartialSums(outs)[Len(outs)]
=============================================================================
