-------------------------- MODULE SharingContracts --------------------------
(***************************************************************************)
(* Contracts in which many parties share one coin: trees of payments       *)
(* (treepay, the congestion-control plugin, the mining pool's payout),     *)
(* pools that members leave or update (coin_pool, payment_pool) and the    *)
(* candles of hanukkah.  A payment is an output (ContractCoins).           *)
(***************************************************************************)
EXTENDS ContractCoins

CONSTANTS
    PoolUpdates,     \* what coin_pool's members may agree on: Seq(Out)
    Nights,          \* hanukkah's eight
    Day,             \* and its 24 hours
    PaymentRequests  \* every request some member signed: see DoTx

Payments(outs) == [i \in 1..Len(outs) |-> PayTo(outs[i].who, outs[i].sats)]

(* treepay.rs: chunks of len/radix payments per branch. *)
TreePay(participants, radix) ==
    [is |-> "TreePay", participants |-> participants, radix |-> radix]
Chunks(seq, size) ==
    [i \in 1..((Len(seq) + size - 1) \div size) |->
        SubSeq(seq, (i - 1) * size + 1, Smaller(i * size, Len(seq)))]
TreePayWays(c) ==
    LET branches == Chunks(c.participants, Len(c.participants) \div c.radix)
        deeper == [i \in 1..Len(branches) |->
                     Out(TreePay(branches[i], c.radix), OutSats(branches[i]))]
    IN  {Template("expand", Trivial,
           Tx(IF Len(c.participants) > c.radix THEN deeper ELSE c.participants))}

(* plugin-example/treepay: fees in every transaction, delays between them. *)
FeeTreePay(participants, radix, fees, delay) ==
    [is |-> "FeeTreePay", participants |-> participants, radix |-> radix,
     fees |-> fees, delay |-> delay]
PayThese(contracts, fees, delay) ==
    Out([is |-> "PayThese", contracts |-> contracts, fees |-> fees,
         delay |-> delay],
        OutSats(contracts) + fees)

(* dcf_mining_pool: the same tree, and all below a node may agree instead. *)
MiningPayout(participants, radix, fees) ==
    [is |-> "MiningPayout", participants |-> participants, radix |-> radix,
     fees |-> fees]
GetKeys(outs) ==
    UNION {IF outs[i].to.is = "Address" THEN {<<outs[i].to.who>>}
           ELSE outs[i].to.keys : i \in 1..Len(outs)}
PayoutBundle(contracts, fees) ==
    Out([is |-> "PayoutBundle", contracts |-> contracts, fees |-> fees,
         keys |-> GetKeys(contracts)],
        OutSats(contracts) + fees)

(* The queue both build their trees with: the first radix entries become   *)
(* one entry at the back until radix or fewer are left, which takes no     *)
(* more rounds than there are payments.                                    *)
Bundle(c, outs) == IF c.is = "MiningPayout" THEN PayoutBundle(outs, c.fees)
                   ELSE PayThese(outs, c.fees, c.delay)
NextQueue(c, queue) ==
    IF Len(queue) <= c.radix THEN queue
    ELSE Append(SubSeq(queue, c.radix + 1, Len(queue)),
                Bundle(c, SubSeq(queue, 1, c.radix)))
Bundled(c) ==
    LET queue[n \in 0..Len(c.participants)] ==
          IF n = 0 THEN c.participants ELSE NextQueue(c, queue[n - 1])
    IN  queue[Len(c.participants)]
FeeTreePayWays(c) ==
    {Template("expand", Trivial,
       [Tx(Bundled(c)) EXCEPT !.seq = c.delay, !.fees = c.fees])}
\* (mutant) a bundle does not spend the fee it holds
MutPayTheseNoFees(c) ==
    {Template("expand", Trivial, [Tx(c.contracts) EXCEPT !.seq = c.delay])}
PayTheseWays(c) ==
    {Template("expand", Trivial,
       [Tx(c.contracts) EXCEPT !.seq = c.delay, !.fees = c.fees])}
MiningPayoutWays(c) ==
    {Finish("cooperate", AllOf(GetKeys(c.participants))),
     Template("expand", Trivial, [Tx(Bundled(c)) EXCEPT !.fees = c.fees])}
PayoutBundleWays(c) ==
    {Finish("cooperate", AllOf(c.keys)),
     Template("expand", Trivial, [Tx(c.contracts) EXCEPT !.fees = c.fees])}

\* BatchingTraitVersion0_1_1 into TreePay, and what TrampolinePay asks for.
FromBatching(payments, feerate) ==
    FeeTreePay(payments, 4, feerate * (4 * 41 + 41 + 10), 0)
TreePayMax(c) ==
    OutSats((CHOOSE w \in FeeTreePayWays(c) : TRUE).tx.outs) + c.fees
TrampolinePay(payments, feerate) ==
    [is |-> "TrampolinePay", payments |-> payments, feerate |-> feerate]
TrampolinePayWays(c) ==
    LET batch == FromBatching(c.payments, c.feerate)
    IN  {Template("expand", Trivial, Tx(<<Out(batch, TreePayMax(batch))>>))}

(* coin_pool.rs: clauses are keys, refunds pay contracts. *)
CoinPool(clauses, refunds) ==
    [is |-> "CoinPool", clauses |-> clauses, refunds |-> refunds]
\* The plugin's basic mode: each key votes and is paid.
BasicPool(payouts) ==
    CoinPool([i \in 1..Len(payouts) |-> <<payouts[i].who>>], Payments(payouts))
BisectOffline(c) ==
    LET l == Len(c.clauses)
        Part(first, last) ==
          Out(CoinPool(SubSeq(c.clauses, first, last),
                       SubSeq(c.refunds, first, last)),
              OutSats(SubSeq(c.refunds, first, last)))
    IN  IF l >= 2 THEN <<Part(1, l \div 2), Part((l \div 2) + 1, l)>>
        ELSE c.refunds
CoinPoolUpdate(u) ==
    [Tx(u.payouts) EXCEPT !.brings = u.external, !.inputs = Len(u.inputs)]
CoinPoolWays(c, sats) ==
    {Template("bisect_offline", Trivial, Tx(BisectOffline(c)))}
    \cup Continuation("next_pool", AllOf(Range(c.clauses)),
           {CoinPoolUpdate(u) : u \in {u \in PoolUpdates :
              OutSats(u.payouts) <= sats + u.external}})

(* payment_pool: members is the BTreeMap as a sequence in key order, and   *)
(* sig_needed is set: without it requests are not looked at.               *)
(* A request is [from, fee, payments, sequence]: what from's signature     *)
(* commits to, so that it is good in a pool of that sequence only.         *)
PaymentPool(members, sequence) ==
    [is |-> "PaymentPool", members |-> members, sequence |-> sequence]
Ejection(c) ==
    LET mid == (Len(c.members) + 1) \div 2
        Half(members) == Out(PaymentPool(members, c.sequence + 1),
                             OutSats(members))
    IN  <<Half(SubSeq(c.members, 1, mid)),
          Half(SubSeq(c.members, mid + 1, Len(c.members)))>>
Spends(requests, who) ==
    LET own == {r \in requests : r.from = who}
    IN  SumFunction([r \in own |-> r.fee + OutSats(r.payments)])
\* Requests do_tx takes together: one per member, signed for this pool, and
\* nobody spends more than the balance.
GoodRequests(c) ==
    {R \in (SUBSET PaymentRequests) \ {{}} :
       /\ \A r, s \in R : r.from = s.from => r = s
       /\ \A r \in R :
            /\ r.sequence = c.sequence
            /\ \E m \in Range(c.members) :
                 m.who = r.from /\ Spends(R, m.who) <= m.sats}
Asks(R, who) == \E r \in R : r.from = who
\* Who spends all of a balance leaves, the others stay with what they keep.
NewMembers(c, R) ==
    LET kept[n \in 0..Len(c.members)] ==
          IF n = 0 THEN <<>>
          ELSE LET m == c.members[n]
                   rest == m.sats - Spends(R, m.who)
               IN  IF Asks(R, m.who) /\ rest = 0 THEN kept[n - 1]
                   ELSE Append(kept[n - 1], [who |-> m.who, sats |-> rest])
    IN  kept[Len(c.members)]
\* The payments asked for, in the order of the members who ask.
AllPayments(c, R) ==
    LET paid[n \in 0..Len(c.members)] ==
          IF n = 0 THEN <<>>
          ELSE IF Asks(R, c.members[n].who)
          THEN paid[n - 1] \o
                 (CHOOSE r \in R : r.from = c.members[n].who).payments
          ELSE paid[n - 1]
    IN  paid[Len(c.members)]
\* (mutant) the next pool has the sequence of this one
MutDoTxSameSequence(c, R) ==
    [Tx(<<Out(PaymentPool(NewMembers(c, R), c.sequence), OutSats(NewMembers(c, R)))>>
        \o AllPayments(c, R))
       EXCEPT !.fees = SumFunction([r \in R |-> r.fee])]
DoTx(c, R) ==
    LET change == PaymentPool(NewMembers(c, R), c.sequence + 1)
        all == AllPayments(c, R)
        spent == IF Len(all) > 4 THEN <<Out(TreePay(all, 4), OutSats(all))>>
                 ELSE all
    IN  [Tx(<<Out(change, OutSats(change.members))>> \o spent)
           EXCEPT !.fees = SumFunction([r \in R |-> r.fee])]
\* A pool nobody is left in has a threshold of zero keys, which is no policy.
PaymentPoolWays(c) ==
    LET asked == {R \in GoodRequests(c) : NewMembers(c, R) # <<>>}
        all == AllOf({<<m.who>> : m \in Range(c.members)})
    IN  {Suggestion("do_tx", all, DoTx(c, R), R) : R \in asked}
        \cup {Finish("do_tx", all)}
        \cup (IF Len(c.members) > 1
              THEN {Template("ejection", Trivial, Tx(Ejection(c)))} ELSE {})

(* hanukkah.rs: night n lights n candles, a day after the night before.    *)
HanukkiahMax(amount) ==
    LET max[n \in 1..Nights] ==
          n * amount + (IF n < Nights THEN max[n + 1] ELSE 0)
    IN  max
Hanukkiah(recipient, amount, feerate, nightTime, night) ==
    [is |-> "Hanukkiah", recipient |-> recipient, amount |-> amount,
     feerate |-> feerate, nightTime |-> nightTime, night |-> night]
HanukkiahWays(c) ==
    LET next == IF c.night < Nights
                THEN <<Out([c EXCEPT !.night = @ + 1],
                           HanukkiahMax(c.amount)[c.night + 1])>>
                ELSE <<>>
        tx == Tx(next \o [i \in 1..c.night |-> PayTo(c.recipient, c.amount)])
    IN  {Template("light_candles", Trivial,
           [tx EXCEPT !.lock = c.nightTime + Day * (c.night - 1),
                      !.brings = c.feerate * EstimateTxSize(tx)])}

\* The fat version: one coin per night, its recipients taken from the back.
Hanukkiah2(recipients, amount, feerate, nightTime) ==
    [is |-> "Hanukkiah2", recipients |-> recipients, amount |-> amount,
     feerate |-> feerate, nightTime |-> nightTime]
Hanukkiah2Night(c, night) ==
    LET before == (night * (night - 1)) \div 2
    IN  [is |-> "Hanukkiah2Night", amount |-> c.amount, feerate |-> c.feerate,
         recipients |-> SubSeq(c.recipients, before + 1, before + night),
         nightTime |-> c.nightTime, night |-> night]
Hanukkiah2NightWays(c) ==
    LET tx == Tx([i \in 1..c.night |-> PayTo(Reverse(c.recipients)[i], c.amount)])
        fees == c.feerate * EstimateTxSize(tx)
    IN  {Template("light_candles", Trivial,
           [tx EXCEPT !.lock = c.nightTime + Day * (c.night - 1),
                      !.brings = fees, !.fees = fees])}
Hanukkiah2Ways(c) ==
    LET NightMax(n) ==
          LET tx == (CHOOSE w \in Hanukkiah2NightWays(Hanukkiah2Night(c, n)) :
                       TRUE).tx
          IN  OutSats(tx.outs) + tx.fees
        tx == Tx([n \in 1..Nights |-> Out(Hanukkiah2Night(c, n), NightMax(n))])
        fees == c.feerate * EstimateTxSize(tx)
    IN  {Template("create", Trivial, [tx EXCEPT !.brings = fees, !.fees = fees])}
=============================================================================
