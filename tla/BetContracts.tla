---------------------------- MODULE BetContracts ----------------------------
(***************************************************************************)
(* Contracts whose outcome something outside decides: sapio-contrib's      *)
(* derivatives.  GenericBet searches a sorted list of outcomes by halving  *)
(* it at a price an oracle signs for; calls, puts and risk reversals make  *)
(* such lists; an exploding option wraps one.  A DLC pays by a point the   *)
(* oracles sign, and a powswap by which of two locks expires first.        *)
(***************************************************************************)
EXTENDS ContractCoins

CONSTANTS OneUnit   \* ONE_UNIT: prices are looked at in steps of one unit

(* oracle.rs: a price oracle has a key for "below price" and one for "at   *)
(* least price"; a threshold oracle asks several.                          *)
LtKey(o, price) == <<o, "lt", price>>
GteKey(o, price) == <<o, "gte", price>>
ThresholdOracle(oracles, thresh) == [oracles |-> oracles, thresh |-> thresh]
GetKeyLt(t, price) ==
    Threshold(t.thresh, {LtKey(o, price) : o \in t.oracles})
GetKeyGte(t, price) ==
    Threshold(t.thresh, {GteKey(o, price) : o \in t.oracles})

(* mod.rs: outcomes are [price, tx], sorted by GenericBetArguments.        *)
GenericBet(sats, outcomes, oracle) ==
    [is |-> "GenericBet", sats |-> sats, oracle |-> oracle,
     outcomes |-> SortSeq(outcomes, LAMBDA o, p : o.price < p.price)]
\* (mutant) the price looked at is the last of the lower half
MutMiddlePrice(c) == c.outcomes[Len(c.outcomes) \div 2].price
MiddlePrice(c) == c.outcomes[(Len(c.outcomes) \div 2) + 1].price
\* (mutant) one outcome left is none
MutRecurseOver(c, first, last) ==
    IF first >= last THEN {}
    ELSE {Tx(<<Out([c EXCEPT !.outcomes = SubSeq(@, first, last)], c.sats)>>)}
\* recurse_over: one outcome is its transaction, more are a smaller bet, and
\* none is no template.
RecurseOver(c, first, last) ==
    IF first > last THEN {}
    ELSE IF first = last THEN {c.outcomes[first].tx}
    ELSE {Tx(<<Out([c EXCEPT !.outcomes = SubSeq(@, first, last)], c.sats)>>)}
GenericBetWays(c) ==
    LET mid == Len(c.outcomes) \div 2
        price == MiddlePrice(c)
    IN  {Template("pay_gte", GetKeyGte(c.oracle, price), tx) :
           tx \in RecurseOver(c, mid + 1, Len(c.outcomes))}
        \cup {Template("pay_lt", GetKeyLt(c.oracle, price), tx) :
                tx \in RecurseOver(c, 1, mid)}

\* The prices first, first + OneUnit, ... up to last, and the outcome of each:
\* what the user gets, the rest of max going to the operator.
Schedule(first, last, max, userGets) ==
    [i \in 1..(((last - first) \div OneUnit) + 1) |->
       LET price == first + (i - 1) * OneUnit
       IN  [price |-> price,
            tx |-> Tx(<<PayTo("user", userGets[price]),
                        PayTo("operator", max - userGets[price])>>)]]
Call(amount, strike, maxPrice, buying, oracle) ==
    LET max == amount * maxPrice
        userGets == [price \in strike..maxPrice |->
          IF buying THEN max - (price - strike) ELSE price - strike]
    IN  GenericBet(max, Schedule(strike, maxPrice, max, userGets), oracle)
Put(amount, strike, buying, oracle) ==
    LET max == amount * strike
        userGets == [price \in 0..strike |->
          IF buying THEN max - (strike - price) ELSE strike - price]
    IN  GenericBet(max, Schedule(0, strike, max, userGets), oracle)
\* down and up are the rationals <<numerator, denominator>> of range.
RiskReversal(amount, current, down, up, oracle) ==
    LET bottom == ((current - (current * down[1]) \div down[2])
                     \div OneUnit) * OneUnit
        top == (((current + (current * up[1]) \div up[2]) + OneUnit - 1)
                  \div OneUnit) * OneUnit
        max == (amount * current) \div bottom
        userGets == [strike \in bottom..top |-> (amount * current) \div strike]
    IN  GenericBet(max, Schedule(bottom, top, max, userGets), oracle)

(* exploding.rs *)
ExplodingOption(partyOne, partyTwo, keyP2, opt, timeout) ==
    [is |-> "ExplodingOption", partyOne |-> partyOne, partyTwo |-> partyTwo,
     keyP2 |-> keyP2, opt |-> opt, timeout |-> timeout]
ExplodingOptionWays(c) ==
    {Template("explodes", Trivial,
       [Tx(<<PayTo("p1", c.partyOne), PayTo("p2", c.partyTwo)>>)
          EXCEPT !.lock = c.timeout]),
     Template("strikes", Key(c.keyP2),
       Tx(<<Out(c.opt, c.partyOne + c.partyTwo)>>))}
UnderFunded(partyOne, partyTwo, opt, timeout) ==
    [is |-> "UnderFunded", partyOne |-> partyOne, partyTwo |-> partyTwo,
     opt |-> opt, timeout |-> timeout]
UnderFundedWays(c) ==
    {Template("explodes", Trivial,
       [Tx(<<PayTo("p1", c.partyOne)>>) EXCEPT !.lock = c.timeout]),
     Template("strikes", Trivial,
       [Tx(<<Out(c.opt, c.partyOne + c.partyTwo)>>)
          EXCEPT !.brings = c.partyTwo, !.inputs = 1])}

(* dlc.rs: the curve gives each point the first party's share, a rational  *)
(* <<numerator, denominator>>; both payments are cut to whole sats.        *)
DLCContract(oracle, points, parties, curve) ==
    [is |-> "DLCContract", oracle |-> oracle, points |-> points,
     parties |-> parties, curve |-> curve]
\* LinearPositive from the intercept b to one; GeometricPositive and Sigmoid
\* are not rational.
LinearPositive(b, points) ==
    [i \in 0..points |->
       <<b[1] * points + (b[2] - b[1]) * i, b[2] * points>>]
PointKey(o, i) == <<o, "point", i>>
DLCContractWays(c, sats) ==
    LET Share(i) == c.curve[i]
        Payout(i) ==
          Tx(<<PayTo(c.parties[1], (sats * Share(i)[1]) \div Share(i)[2]),
               PayTo(c.parties[2],
                     (sats * (Share(i)[2] - Share(i)[1])) \div Share(i)[2])>>)
    IN  {Template("payout",
           Threshold(c.oracle.thresh, {PointKey(o, i) : o \in c.oracle.oracles}),
           Payout(i)) : i \in 0..c.points}
        \cup {Finish("cooperate", AllOf({<<p>> : p \in Range(c.parties)}))}

(* powswap.rs: an outcome waits for a relative lock of one kind and an     *)
(* absolute one of the other; a lock it does not have is zero.             *)
Outcome(pays, seq, seqTime, lock, lockTime) ==
    [Tx(pays) EXCEPT !.seq = seq, !.seqTime = seqTime, !.lock = lock,
                     !.lockTime = lockTime]
PowSwap(outcomes, coop) ==
    [is |-> "PowSwap", swaps |-> outcomes, coop |-> coop]
PowSwapWays(c) ==
    {Template("payoff", Trivial, c.swaps[i]) : i \in {1, 2}}
    \cup {Finish("cooperate", AllOf(c.coop))}
=============================================================================
