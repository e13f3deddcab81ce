-------------------------- MODULE OrdinalsPlanner --------------------------
(***************************************************************************)
(* Which sats go where: the ranges of ordinals a context is told it holds  *)
(* (sapio/src/contract/context.rs), the plan for a transaction that puts   *)
(* ordinals into outputs of their own (sapio/src/ordinals/mod.rs) and the  *)
(* sale that counts sats itself (plugin-example/ordinal-example).          *)
(*                                                                         *)
(* A range <<lo, hi>> holds the sats lo .. hi - 1; the ranges of a coin    *)
(* are in the order of its sats.  What panics in the code is a fault here. *)
(***************************************************************************)
EXTENDS Integers, Sequences, FiniteSets, SequencesExt

CONSTANTS Padding,         \* Ordinal::padding: 500 sats
          OverflowChecks   \* whether the build traps a subtraction below zero

ASSUME PaddingAssumption == Padding \in Nat \ {0}

Width(range) == range[2] - range[1]
TotalSats(ranges) == FoldLeft(LAMBDA n, r : n + Width(r), 0, ranges)
Total(amounts) == SumFunction(amounts)

(***************************************************************************)
(* allocate_ordinals: a range that is larger than what is left to give     *)
(* goes to the first part whole, and an empty rest of it to the second.    *)
(***************************************************************************)
MutAllocate(amount, ranges) ==
    LET step(s, r) ==
          IF Width(r) <= s.amount
          THEN [s EXCEPT !.amount = @ - Width(r), !.given = Append(@, r)]
          ELSE [s EXCEPT !.given = Append(@, <<r[1], r[1] + Width(r)>>),
                         !.rest = Append(@, <<r[1] + s.amount, r[2]>>)]
    IN  FoldLeft(step, [amount |-> amount, given |-> <<>>, rest |-> <<>>], ranges)

Allocate(amount, ranges) ==
    LET step(s, r) ==
          IF Width(r) <= s.amount
          THEN [s EXCEPT !.amount = @ - Width(r), !.given = Append(@, r)]
          ELSE [s EXCEPT !.given = Append(@, <<r[1], r[1] + Width(r)>>),
                         !.rest = Append(@, <<r[1] + Width(r), r[2]>>)]
    IN  FoldLeft(step, [amount |-> amount, given |-> <<>>, rest |-> <<>>], ranges)

\* What the contexts of a transaction's outputs are told, one after another
\* (with_amount for the child, spend_amount for the template), and the rest.
ToldToOutputs(amounts, ranges) ==
    LET step(s, a) ==
          LET parts == Allocate(a, s.rest)
          IN  [told |-> Append(s.told, parts.given), rest |-> parts.rest]
    IN  FoldLeft(step, [told |-> <<>>, rest |-> ranges], amounts)

(***************************************************************************)
(* greedy_assign_outs, with the payouts from the largest down: a payout is *)
(* taken if what is left covers it.  A rest no payout covers is a fault:   *)
(* the arm that makes it change goes on to remove the payout at i - 1.     *)
(***************************************************************************)
GreedyAssignOuts(total, payouts) ==
    LET step(s, p) ==
          IF s.left > 0 /\ p <= s.left
          THEN [s EXCEPT !.left = @ - p, !.paid = Append(@, p)]
          ELSE [s EXCEPT !.kept = Append(@, p)]
    IN  FoldLeft(step, [left |-> total, paid |-> <<>>, kept |-> <<>>], payouts)

\* Moves the lower bounds on by n sats from range `at' on; what cannot be
\* taken (left) is an index past the end of the ranges.
Advance(info, at, n) ==
    LET step(s, i) ==
          IF i < at \/ s.left = 0 THEN s
          ELSE LET had == info[i].hi - info[i].lo
                   took == IF had <= s.left THEN had ELSE s.left
               IN  [info |-> [s.info EXCEPT ![i].lo = @ + took],
                    left |-> s.left - took,
                    at |-> IF s.left > had THEN i + 1 ELSE i]
    IN  FoldLeft(step, [info |-> info, left |-> n, at |-> at],
                 [i \in 1..Len(info) |-> i])

\* The members of S in the order of R: each after as many as R puts before it.
Listed(S, R) ==
    [i \in 1..Cardinality(S) |->
       CHOOSE x \in S : Cardinality({y \in S : <<y, x>> \in R}) = i - 1]

\* The ranges in the order of their sats, with their places in the coin.
Rows(ranges) ==
    {[lo |-> ranges[i][1], hi |-> ranges[i][2], idx |-> i] : i \in DOMAIN ranges}
Sorted(ranges) ==
    LET before == {p \in Rows(ranges) \X Rows(ranges) :
                     \/ p[1].lo < p[2].lo
                     \/ p[1].lo = p[2].lo /\ p[1].idx < p[2].idx}
    IN  Listed(Rows(ranges), before)

\* 'ordscan: the range each ordinal is in, from the ordinals in order.
FindOrdinals(info, ordinals) ==
    LET step(s, ord) ==
          LET in == {i \in s.at .. Len(info) :
                       s.info[i].lo <= ord /\ ord < s.info[i].hi}
              i == CHOOSE j \in in : \A k \in in : j <= k
              next == Advance(s.info, i, Padding + 1)
          IN  IF s.error # "" THEN s
              ELSE IF in = {} THEN [s EXCEPT !.error = "Ordinal Not Found"]
              ELSE IF next.left > 0 THEN [s EXCEPT !.error = "panic"]
              ELSE [info |-> next.info, at |-> next.at, error |-> "",
                    order |-> Append(s.order, [idx |-> info[i].idx, ord |-> ord])]
    IN  FoldLeft(step, [info |-> info, at |-> 1, error |-> "", order |-> <<>>],
                 Listed(ordinals, {p \in ordinals \X ordinals : p[1] < p[2]}))

Step(kind, n) == [kind |-> kind, n |-> n]
Steps(kind, amounts) == [i \in DOMAIN amounts |-> Step(kind, amounts[i])]

\* The sats left in the ranges from one place up to another.
MutBetween(info, from, to) == 0
Between(info, from, to) ==
    SumFunction([i \in from .. to - 1 |-> info[i].hi - info[i].lo])

\* Payouts for the sats before the ordinal, then an output for the ordinal.
PlaceOrdinal(s, found) ==
    LET at == IF s.at < found.idx THEN found.idx ELSE s.at
        total == Between(s.info, s.at, at) + found.ord - s.info[at].lo
        outs == GreedyAssignOuts(total, s.payouts)
        next == Advance(s.info, at, Padding + 1)
    IN  IF s.fault \/ at > Len(s.info) THEN [s EXCEPT !.fault = TRUE]
        ELSE [info |-> next.info, at |-> next.at, payouts |-> outs.kept,
              fault |-> \/ OverflowChecks /\ found.ord < s.info[at].lo
                        \/ total < 0 \/ outs.left > 0 \/ next.left > 0,
              steps |-> s.steps \o Steps("payout", outs.paid)
                        \o <<Step("ordinal", found.ord)>>]

Failed(error) == [ok |-> FALSE, error |-> error]

\* What was found, by the places of the ranges and then by the ordinals.
ByPlace(found) ==
    LET before == {p \in found \X found :
                     \/ p[1].idx < p[2].idx
                     \/ p[1].idx = p[2].idx /\ p[1].ord < p[2].ord}
    IN  Listed(found, before)

\* output_plan, for a spec with its payouts from the largest down.
OutputPlan(ranges, spec) ==
    LET info == Sorted(ranges)
        scan == FindOrdinals(info, spec.ordinals)
        placed == FoldLeft(PlaceOrdinal,
                    [info |-> info, at |-> 1, payouts |-> spec.payouts,
                     fault |-> FALSE, steps |-> Steps("payin", spec.payins)],
                    ByPlace(ToSet(scan.order)))
        total == Between(placed.info, placed.at, Len(info) + 1) + Total(spec.payins)
        outs == GreedyAssignOuts(total, placed.payouts)
    IN  IF TotalSats(ranges) < Total(spec.payins) + spec.fees + Total(spec.payouts)
                                 + Cardinality(spec.ordinals) * (Padding + 1)
        THEN Failed("OutOfFunds")
        ELSE IF scan.error # "" THEN Failed(scan.error)
        ELSE IF placed.fault THEN Failed("panic")
        ELSE IF total < spec.fees THEN Failed("Failed to save enough for Fees")
        ELSE IF outs.left > 0 THEN Failed("panic")
        ELSE IF outs.kept # <<>> THEN Failed("Failed to assign all payouts")
        ELSE [ok |-> TRUE,
              steps |-> placed.steps \o Steps("payout", outs.paid)
                        \o <<Step("change", total - spec.fees), Step("fee", spec.fees)>>]

\* build_plan, with a contract for every payout and every ordinal: the funds
\* pay for each output in turn, and a payin adds to them.
BuildPlan(funds, plan) ==
    LET step(s, p) ==
          LET amount == IF p.kind = "ordinal" THEN Padding + 1 ELSE p.n
          IN  IF p.kind = "payin" THEN [s EXCEPT !.funds = @ + p.n]
              ELSE IF ~s.ok \/ amount > s.funds THEN [s EXCEPT !.ok = FALSE]
              ELSE [s EXCEPT !.funds = @ - amount,
                             !.outs = IF p.kind = "fee" THEN @
                                      ELSE Append(@, [for |-> p, sats |-> amount])]
    IN  FoldLeft(step, [ok |-> TRUE, funds |-> funds, outs |-> <<>>], plan.steps)

\* The ordinal's place among the sats of the coin, as SimpleOrdinal::sell
\* counts them: all the sats of a coin that does not hold it.
IndexOf(ranges, ord) ==
    LET step(s, r) ==
          IF s.found THEN s
          ELSE IF r[1] <= ord /\ ord < r[2]
          THEN [found |-> TRUE, index |-> s.index + ord - r[1]]
          ELSE [s EXCEPT !.index = @ + Width(r)]
    IN  FoldLeft(step, [found |-> FALSE, index |-> 0], ranges)

\* SimpleOrdinal::sell: the outputs of the sale, paid from the coin first; the
\* purchaser adds the amount, the change and the fee.
BeforeOrdinal(index) == IF index = 0 THEN 0 ELSE index - 1

Sell(funds, ranges, ord, sale) ==
    LET before == BeforeOrdinal(IndexOf(ranges, ord).index)
        rest == funds - before - (Padding + 1)
    IN  IF ~IndexOf(ranges, ord).found THEN Failed("Missing Intended Ordinal")
        ELSE IF rest < 0 THEN Failed("OutOfFunds")
        ELSE [ok |-> TRUE,
              outs |-> <<[to |-> "owner", sats |-> before],
                         [to |-> "buyer", sats |-> Padding + 1],
                         [to |-> "owner", sats |-> rest + sale.amount],
                         [to |-> "buyer", sats |-> sale.change]>>]
=============================================================================
