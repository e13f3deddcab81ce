---------------------------- MODULE ContractPlay ----------------------------
(***************************************************************************)
(* What becomes of a coin locked in a contract of the library: some of the *)
(* parties sign, transactions the contracts license confirm one after      *)
(* another, and blocks and time pass.  The contracts are those of the      *)
(* modules below; that a coin can be spent in the ways its compiled        *)
(* contract says and in no other is what the compiler's model (Compiler)   *)
(* and Bitcoin's rules for locks and CTV (external) provide.               *)
(*                                                                         *)
(* An input a transaction adds brings what the coin lacks for its outputs; *)
(* what a transaction does not hand on is left to miners.                  *)
(***************************************************************************)
EXTENDS VaultContracts, PartyContracts, BetContracts, NftContracts

CONSTANTS
    Plays,      \* the contracts that are played, by name
    MaxDepth    \* bound on transactions in a row

(***************************************************************************)
(* A play is a record of                                                   *)
(*   contract  what the first coin is locked in                            *)
(*   sats      how much it holds                                           *)
(*   deals     for each set of keys that may sign, what the parties may    *)
(*             expect: a set of functions from parties to sats             *)
(*   dust      the most a transaction leaves to miners beyond its fees     *)
(*   apart     whether blocks and time may run apart                       *)
(*   bound     the sets of keys that bind the parties to an outcome: what  *)
(*             those may sign leaves no coin locked for ever                 *)
(*   horizon   bound on blocks and time; twice that where coins have to    *)
(*             wait, which is longer than all locks in a row               *)
(***************************************************************************)

\* The fields of an annuity vault: its addresses, amounts and locks.
VaultFields(c) ==
    /\ c = Vault(c.cold, c.hot, c.steps, c.step, c.timeout, c.mature)
    /\ c.steps \in Nat /\ c.step \in Nat /\ c.timeout \in Nat /\ c.mature \in Nat
    /\ c.hot = Address(c.hot.who)
    /\ \/ c.cold = Address(c.cold.who)
       \/ /\ c.cold = SplitTree(c.cold.who, c.cold.max, c.cold.radix)
          /\ c.cold.max \in Nat \ {0} /\ c.cold.radix \in Nat \ {0}
\* Those of a work and of its sales: a royalty is a fraction, prices are sats
\* and times heights.
DataFields(data) ==
    /\ data = NftData(data.owner, data.artist, data.royalty)
    /\ data.royalty[1] \in Nat /\ data.royalty[2] \in Nat \ {0}
    /\ data.royalty[1] <= data.royalty[2]
AuctionFields(extra) ==
    /\ extra.period \in Nat /\ extra.start \in Nat /\ extra.min \in Nat
    /\ extra.updates \in Nat
WorkFields(c) ==
    /\ DataFields(c.data)
    /\ c.is = "SimpleNFT" => c = SimpleNFT(c.data)
    /\ c.is = "SimpleNFTSale" =>
         /\ c = SimpleNFTSale(c.data, c.to, c.price, c.time, c.sats)
         /\ c.price \in Nat /\ c.time \in Nat
    /\ c.is = "NFTDutchAuction" =>
         /\ c = NFTDutchAuction(c.extra, c.data, c.to, c.time, c.sats)
         /\ c.time \in Nat /\ AuctionFields(c.extra)
IsWork(c) == c.is \in {"SimpleNFT", "SimpleNFTSale", "NFTDutchAuction"}
\* Those of a payment pool, whose members are the keys of a map, and of what
\* they may sign.
Members(c) == [who : {m.who : m \in Range(c.members)}, sats : Nat]
PoolFields(c) ==
    /\ c = PaymentPool(c.members, c.sequence)
    /\ c.members \in Seq(Members(c)) /\ c.sequence \in Nat
    /\ \A i, j \in 1..Len(c.members) : c.members[i].who = c.members[j].who => i = j
ToAddresses(outs) ==
    \A i \in DOMAIN outs : outs[i].to.is = "Address" /\ outs[i].sats \in Nat
ASSUME PlaysAssumption == \A p \in DOMAIN Plays :
    LET c == Plays[p].contract
    IN  /\ c.is = "Vault" => VaultFields(c)
        /\ IsWork(c) => WorkFields(c)
        /\ c.is = "PaymentPool" => PoolFields(c)
ASSUME PaymentsAssumption ==
    /\ IsFiniteSet(PaymentRequests)
    /\ \A r \in PaymentRequests :
          /\ r.fee \in Nat /\ r.sequence \in Nat
          /\ r.payments \in Seq(Range(r.payments)) /\ ToAddresses(r.payments)
ASSUME SalesAssumption == \A sale \in Sales :
    /\ sale.price \in Nat /\ sale.time \in Nat
    /\ sale.extra # <<>> => AuctionFields(sale.extra[1])

VARIABLES
    play,     \* the contract that is played
    signing,  \* the keys that sign what they can
    now,      \* [blocks, time]
    coins,    \* unspent coins that contracts hold
    spent     \* history: every spend

vars == <<play, signing, now, coins, spent>>

(* The ways a coin may be spent, by the contract it is locked in. *)
Ways(coin) ==
    LET c == coin.contract
        sats == coin.sats
    IN  CASE c.is = "TreePay" -> TreePayWays(c)
          [] c.is = "FeeTreePay" -> FeeTreePayWays(c)
          [] c.is = "PayThese" -> PayTheseWays(c)
          [] c.is = "TrampolinePay" -> TrampolinePayWays(c)
          [] c.is = "MiningPayout" -> MiningPayoutWays(c)
          [] c.is = "PayoutBundle" -> PayoutBundleWays(c)
          [] c.is = "CoinPool" -> CoinPoolWays(c, sats)
          [] c.is = "PaymentPool" -> PaymentPoolWays(c)
          [] c.is = "Hanukkiah" -> HanukkiahWays(c)
          [] c.is = "Hanukkiah2" -> Hanukkiah2Ways(c)
          [] c.is = "Hanukkiah2Night" -> Hanukkiah2NightWays(c)
          [] c.is = "UndoSend" -> UndoSendWays(c)
          [] c.is = "Vault" -> VaultWays(c)
          [] c.is = "JamesVault" -> JamesVaultWays(c, sats)
          [] c.is = "HodlChicken" -> HodlChickenWays(c)
          [] c.is = "Staker" -> StakerWays(c, sats)
          [] c.is = "Channel" -> ChannelWays(c)
          [] c.is = "FederatedPegIn" -> FederatedPegInWays(c)
          [] c.is = "BasicEscrow" -> BasicEscrowWays(c)
          [] c.is = "BasicEscrow2" -> BasicEscrow2Ways(c)
          [] c.is = "TrustlessEscrow" -> TrustlessEscrowWays(c)
          [] c.is = "ExampleCompileIf" -> ExampleCompileIfWays(c)
          [] c.is = "ExampleA" -> ExampleAWays(c)
          [] c.is = "ExampleB" -> ExampleBWays(c)
          [] c.is = "PayToPublicKey" -> PayToPublicKeyWays(c)
          [] c.is = "ChainReturn" -> ChainReturnWays(c, sats)
          [] c.is = "GenericBet" -> GenericBetWays(c)
          [] c.is = "ExplodingOption" -> ExplodingOptionWays(c)
          [] c.is = "UnderFunded" -> UnderFundedWays(c)
          [] c.is = "DLCContract" -> DLCContractWays(c, sats)
          [] c.is = "PowSwap" -> PowSwapWays(c)
          [] c.is = "SimpleNFT" -> SimpleNFTWays(c, sats)
          [] c.is = "SimpleNFTSale" -> SimpleNFTSaleWays(c)
          [] c.is = "NFTDutchAuction" -> NFTDutchAuctionWays(c)

(* Bitcoin's rules.  A template fixes the sequence and lock time that      *)
(* OLDER and AFTER in the guard look at; without one the spender sets what *)
(* the guard asks for.                                                     *)
LocksExpired(coin, tx, at) ==
    /\ at.blocks >= tx.lock /\ at.time >= tx.lockTime
    /\ at.blocks - coin.born.blocks >= tx.seq
    /\ at.time - coin.born.time >= tx.seqTime
Satisfies(cond, way, coin, keys, at) ==
    /\ cond.keys \subseteq keys
    /\ \A t \in cond.older :
         t <= IF way.ctv THEN way.tx.seq ELSE at.blocks - coin.born.blocks
    /\ \A t \in cond.after : t <= IF way.ctv THEN way.tx.lock ELSE at.blocks
CanSpend(way, coin, keys, at) ==
    /\ LocksExpired(coin, way.tx, at)
    /\ \E cond \in way.guard : Satisfies(cond, way, coin, keys, at)

Coin(id, contract, sats, born) ==
    [id |-> id, contract |-> contract, sats |-> sats, born |-> born]
\* The outputs of a spend that lock coins in contracts again.
NewCoins(coin, way) ==
    {Coin(Append(coin.id, i), way.tx.outs[i].to, way.tx.outs[i].sats, now) :
       i \in {i \in 1..Len(way.tx.outs) : way.tx.outs[i].to.is # "Address"}}
\* What the constructors and the compiler refuse is not played.
Compiles(c, sats) ==
    CASE c.is = "HodlChicken" -> ChickenChecks(c)
      [] c.is = "Vault" -> VaultCompiles(c, sats)
      [] c.is = "ExampleCompileIf" -> EscrowCompiles(c)
      [] c.is = "NFTDutchAuction" -> ExactAuction(c.extra)
      [] OTHER -> TRUE

\* A coin can pay for each of the transactions its contract asks for, fees
\* included, unless the transaction adds an input, and leaves to miners at most
\* dust.
FundedCoin(coin, dust) ==
    \A way \in Ways(coin) :
       LET handsOn == OutSats(way.tx.outs) + way.tx.fees
       IN  way.free
           \/ /\ handsOn <= coin.sats \/ way.tx.inputs > 0
              /\ way.ctv => coin.sats - handsOn <= dust

(***************************************************************************)
(* What a contract is made of: whom it pays, and that the amounts it was   *)
(* given for transactions further on add up.                               *)
(***************************************************************************)
IsAddress(x) == x.is = "Address"
Payees(outs) == outs \in Seq(Range(outs)) /\ ToAddresses(outs)
\* A pool whose refunds are to addresses, one for each member.
Refunds(c) ==
    /\ c = CoinPool(c.clauses, c.refunds)
    /\ c.clauses \in Seq(Range(c.clauses)) /\ Payees(c.refunds)
    /\ Len(c.clauses) = Len(c.refunds)
\* A tree that pays out sats.
TreeOf(c, sats) ==
    /\ c = TreePay(c.participants, c.radix)
    /\ Payees(c.participants) /\ c.radix \in Nat \ {0}
    /\ OutSats(c.participants) = sats
\* Bets that pay out, whatever the price, what they hold.
BetOn(c, sats, dust) ==
    /\ c = [is |-> "GenericBet", sats |-> sats, oracle |-> c.oracle,
            outcomes |-> c.outcomes]
    /\ c.outcomes \in Seq(Range(c.outcomes)) /\ c.outcomes # <<>> /\ sats \in Nat
    /\ \A i \in DOMAIN c.outcomes :
          LET tx == c.outcomes[i].tx
              handsOn == OutSats(tx.outs) + tx.fees
          IN  /\ Payees(tx.outs) /\ tx.fees \in Nat
              /\ handsOn <= sats /\ sats - handsOn <= dust
\* The contracts that may be played; the bundles of trees are made by others.
Library ==
    {"TreePay", "FeeTreePay", "TrampolinePay", "MiningPayout", "CoinPool",
     "PaymentPool", "Hanukkiah", "Hanukkiah2", "Hanukkiah2Night", "UndoSend",
     "Vault", "JamesVault", "HodlChicken", "Staker", "Channel",
     "FederatedPegIn", "BasicEscrow", "BasicEscrow2", "TrustlessEscrow",
     "ExampleCompileIf", "ExampleA", "ExampleB", "PayToPublicKey",
     "ChainReturn", "GenericBet", "ExplodingOption", "UnderFunded",
     "DLCContract", "PowSwap", "SimpleNFT", "SimpleNFTSale", "NFTDutchAuction"}
Formed(c, dust) ==
    /\ c.is \in Library
    /\ c.is = "TreePay" => TreeOf(c, OutSats(c.participants))
    /\ c.is \in {"FeeTreePay", "MiningPayout"} =>
         Payees(c.participants) /\ c.radix \in Nat \ {0, 1} /\ c.fees \in Nat
    /\ c.is = "TrampolinePay" => Payees(c.payments) /\ c.feerate \in Nat
    /\ c.is = "CoinPool" => Refunds(c)
    /\ c.is = "PaymentPool" => PoolFields(c)
    /\ c.is = "Hanukkiah" =>
         c = Hanukkiah(c.recipient, c.amount, c.feerate, c.nightTime, c.night)
         /\ c.amount \in Nat /\ c.night \in 1..Nights
    /\ c.is = "Hanukkiah2" => c.amount \in Nat /\ c.feerate \in Nat
    /\ c.is = "Hanukkiah2Night" => c.night \in Nat
    /\ c.is = "UndoSend" =>
         IsAddress(c.to) /\ (IsAddress(c.from) \/ TreeOf(c.from, c.sats))
    /\ c.is = "Vault" => VaultFields(c) /\ c.steps # 0
    /\ c.is = "JamesVault" =>
         /\ c = JamesVault(c.state, c.timeout, c.hotKey, c.backup, c.backupAddr,
                           c.feerate, c.cpfp)
         /\ Payees(c.cpfp) /\ IsAddress(c.backupAddr) /\ c.feerate \in Nat
    /\ c.is = "HodlChicken" =>
         \A party \in {c.alice, c.bob} : IsAddress(party.winner) /\ IsAddress(party.loser)
    /\ c.is = "Staker" =>
         c = Staker(c.state, c.timeout, c.signingKey, c.redeemingKey)
    /\ c.is = "Channel" =>
         c = Channel(c.state, c.aliceKey, c.bobKey, c.sats, c.resolution)
         /\ IsAddress(c.resolution) /\ c.sats \in Nat
    /\ c.is = "FederatedPegIn" =>
         c = FederatedPegIn(c.state, c.keys, c.normal, c.recoveryKeys, c.recovery,
                            c.sats)
         /\ c.sats \in Nat
    /\ c.is \in {"TrustlessEscrow", "ExampleCompileIf"} =>
         Payees(<<c.aliceEscrow, c.bobEscrow>>)
    /\ c.is = "ExampleB" =>
         c = ExampleB(c.state, c.keys, c.threshold, c.sats) /\ c.sats \in Nat
    /\ c.is = "GenericBet" => BetOn(c, c.sats, dust)
    /\ c.is \in {"ExplodingOption", "UnderFunded"} =>
         /\ c.partyOne \in Nat /\ c.partyTwo \in Nat
         /\ BetOn(c.opt, c.partyOne + c.partyTwo, dust)
    /\ c.is = "PowSwap" => \A i \in {1, 2} : Payees(c.swaps[i].outs)
    /\ IsWork(c) => WorkFields(c)
    /\ c.is \in {"SimpleNFTSale", "NFTDutchAuction"} => c.sats \in Int
ASSUME FundingAssumption == \A p \in DOMAIN Plays :
    LET c == Plays[p].contract
        sats == Plays[p].sats
        dust == Plays[p].dust
    IN  /\ sats \in Nat /\ dust \in Nat
        /\ Compiles(c, sats) =>
              Formed(c, dust)
              /\ FundedCoin(Coin(<<>>, c, sats, [blocks |-> 0, time |-> 0]), dust)
ASSUME ArgumentsAssumption ==
    /\ Nights \in Nat
    /\ \A u \in PoolUpdates :
          /\ u.payouts \in Seq(Range(u.payouts))
          /\ \A i \in DOMAIN u.payouts :
                LET o == u.payouts[i]
                IN  /\ o.sats \in Nat
                    /\ \/ IsAddress(o.to)
                       \/ Refunds(o.to) /\ OutSats(o.to.refunds) = o.sats
          /\ u.inputs \in Seq(Range(u.inputs)) /\ u.external \in Nat
          /\ u.external > 0 => u.inputs # <<>>
    /\ \A u \in HotPayments : Payees(u)

(* What the deal of a tree of payments is: those payments. *)
PaidTo(who, outs) ==
    SumFunctionOnSet([i \in DOMAIN outs |-> outs[i].sats],
                     {i \in DOMAIN outs : outs[i].to = Address(who)})
IsPayTree(c) == c.is \in {"TreePay", "FeeTreePay", "TrampolinePay", "MiningPayout"}
Payroll(c) == IF c.is = "TrampolinePay" THEN c.payments ELSE c.participants
ASSUME DealsAssumption == \A p \in DOMAIN Plays :
    LET c == Plays[p].contract
    IN  IsPayTree(c) =>
          \A keys \in DOMAIN Plays[p].deals : \E deal \in Plays[p].deals[keys] :
             \A who \in DOMAIN deal : deal[who] = PaidTo(who, Payroll(c))
-----------------------------------------------------------------------------
Init ==
    /\ play \in DOMAIN Plays
    /\ Compiles(Plays[play].contract, Plays[play].sats)
    /\ signing \in DOMAIN Plays[play].deals
    /\ now = [blocks |-> 0, time |-> 0]
    /\ coins = {Coin(<<>>, Plays[play].contract, Plays[play].sats, now)}
    /\ spent = {}

\* A coin, with what others add, has the sats for a transaction.
Pays(coin, tx) == OutSats(tx.outs) + tx.fees <= coin.sats \/ tx.inputs > 0

\* A transaction that spends the coin in one of its ways confirms.
Spend(coin, way) ==
    /\ CanSpend(way, coin, signing, now)
    /\ Pays(coin, way.tx)
    /\ Len(coin.id) < MaxDepth
    /\ coins' = (coins \ {coin}) \cup NewCoins(coin, way)
    /\ \E cond \in way.guard :
         /\ Satisfies(cond, way, coin, signing, now)
         /\ spent' = spent \cup {[coin |-> coin, way |-> way, at |-> now,
                                  keys |-> cond.keys]}
    /\ UNCHANGED <<play, signing, now>>

HaveToWait ==
    \A coin \in coins : \A way \in Ways(coin) : ~CanSpend(way, coin, signing, now)
\* Blocks and time pass together, and apart in plays that are about that.
Tick(blocks, time) ==
    /\ coins # {}
    /\ Larger(now.blocks + blocks, now.time + time)
         <= Plays[play].horizon * (IF HaveToWait THEN 2 ELSE 1)
    /\ blocks = time \/ Plays[play].apart
    /\ now' = [blocks |-> now.blocks + blocks, time |-> now.time + time]
    /\ UNCHANGED <<play, signing, coins, spent>>

SomeSpend == \E coin \in coins : \E way \in Ways(coin) : Spend(coin, way)
SomeTick == \E step \in {<<1, 1>>, <<1, 0>>, <<0, 1>>} : Tick(step[1], step[2])

Next == SomeSpend \/ SomeTick

\* A transaction that can confirm and that somebody wants does, in the end,
\* and time does not stop.
Fairness == WF_vars(SomeSpend) /\ WF_vars(SomeTick)
Spec == Init /\ [][Next]_vars /\ Fairness
-----------------------------------------------------------------------------
(* What the parties of a contract rely on. *)

\* The cold storage of a vault of one step that was given more than the step and
\* whose parts come to more than it: vault.rs pays it the step.
ShortOfSats(coin) ==
    coin.contract.is = "TreePay" /\ ShortTree(Plays[play].contract)

\* Every coin can pay for all its contract asks of it, and hardly anything of it
\* is lost to miners.  It is about the amounts contracts hand on from one
\* transaction to the next, which each computes on its own.  The one contract
\* that hands on too little is excepted.
AlwaysFunded ==
    \A coin \in coins : FundedCoin(coin, Plays[play].dust) \/ ShortOfSats(coin)

Received(who) == SumFunction([s \in spent |-> PaidTo(who, s.way.tx.outs)])
Consented(who) == \E s \in spent : ~s.way.ctv /\ <<who>> \in s.keys

\* Nobody who did not sign away the coin gets more than the deal says, or in
\* the end less, whichever transactions confirm and in whichever order: the
\* trees, bets, swaps and escrows all end in the payments they started from.
PaidWithinDeal ==
    \E deal \in Plays[play].deals[signing] : \A who \in DOMAIN deal :
       \/ Consented(who)
       \/ IF coins = {} THEN Received(who) = deal[who]
          ELSE Received(who) <= deal[who]

\* The slow ways of the contracts with a contest period, how slow they are, and
\* the way that answers them.
Contests(c) ==
    CASE c.is = "UndoSend" ->
           [slow |-> "complete", wait |-> c.timeout, answer |-> "undo"]
      [] c.is = "Vault" ->
           [slow |-> "step", wait |-> c.timeout, answer |-> "to_cold"]
      [] c.is = "JamesVault" ->
           [slow |-> "spend_hot", wait |-> c.timeout, answer |-> "backup"]
      [] c.is = "Staker" ->
           [slow |-> "finish_redeem_key", wait |-> c.timeout,
            answer |-> "cheated"]
      [] c.is = "FederatedPegIn" ->
           [slow |-> "finish_recovery", wait |-> RecoveryDelay,
            answer |-> "normal_signed"]
      [] c.is = "Channel" ->
           [slow |-> "finish_contest", wait |-> ContestDelay,
            answer |-> "update_state_b"]
      [] OTHER -> [slow |-> "none", wait |-> 0, answer |-> "none"]

\* When a slow way is taken, whoever holds the keys of the answer could have
\* answered for the whole contest period: the coin was there and the answer had
\* nothing to wait for.  (A channel's slow way is never taken: see Settles.)
ContestWindows ==
    \A s \in spent :
       LET contest == Contests(s.coin.contract)
       IN  contest.slow # "none" /\ s.way.name = contest.slow =>
             /\ s.at.blocks - s.coin.born.blocks >= contest.wait
             /\ \E way \in Ways(s.coin) :
                  /\ way.name = contest.answer
                  /\ \A cond \in way.guard :
                       CanSpend(way, s.coin, cond.keys, s.coin.born)

\* The annuity vault lets one step's sats per timeout go to its hot address, if
\* that is not the cold one, and each only after it matured, however the payments
\* to cold storage and the steps interleave.
VaultRate ==
    LET c == Plays[play].contract
    IN  c.is = "Vault" /\ c.cold.who # c.hot.who =>
          Received(c.hot.who) * c.timeout
            <= c.step * Larger(now.blocks - c.mature, 0)

\* A payment pool carries out a signed request at most once, in whichever of
\* the pools its member ends up in; and until all members of some pool agreed to
\* something else, every member is in exactly one of the pools with what their
\* requests left of the balance, or has spent it and is in none.
Executed == UNION {s.way.asked : s \in spent}
PoolsOf(who) ==
    {coin \in coins : /\ coin.contract.is = "PaymentPool"
                     /\ \E n \in Range(coin.contract.members) : n.who = who}
Keeps(m) ==
    LET left == m.sats - Spends(Executed, m.who)
        pools == PoolsOf(m.who)
    IN  \/ pools = {} /\ left = 0
        \/ \E pool \in pools :
             /\ pools = {pool}
             /\ \A n \in Range(pool.contract.members) :
                  n.who = m.who => n.sats = left
RequestsOnce ==
    LET c == Plays[play].contract
    IN  c.is = "PaymentPool" =>
          /\ \A s, t \in spent : s = t \/ s.way.asked \cap t.way.asked = {}
          /\ \/ \E s \in spent : s.way.free
             \/ \A m \in Range(c.members) : Keeps(m)

\* The sats that stand for a work: those it is first locked with.
WorkSats ==
    LET first == Plays[play]
    IN  IF first.contract.is = "SimpleNFT" THEN first.sats ELSE first.contract.sats

\* A work changes hands only for the price asked in a sale its owner signed: an
\* auction starts when it was to, not before, and never goes below the line from
\* its first price to its least (when a plain sale starts is not said here), the
\* artist's part of the price is the royalty, less than a sat and half a
\* millionth of the price off, the owner gets the rest of it, and the work keeps
\* its sats in every hand.
Offered(s) ==
    s.coin.id = <<>> \/ \E t \in spent : /\ t.coin.id = Front(s.coin.id)
                                     /\ t.way.name = "sell"
                                     /\ <<s.coin.contract.data.owner>> \in t.keys
IsRoyalty(part, royalty, paid) ==
    LET scale == 2 * Precision
        exact == paid * scale * royalty[1]    \* in parts of a sat
        error == paid * royalty[2]
        unit == scale * royalty[2]
    IN  part * unit <= exact + error /\ exact - error < (part + 1) * unit
SoldAtPrice ==
    IsWork(Plays[play].contract) =>
    \A s \in spent : s.way.name = "transfer" /\ ~s.way.free =>
       LET c == s.coin.contract
           data == c.data
           outs == Tail(s.way.tx.outs)
           paid == OutSats(outs)
       IN  /\ Offered(s)
           /\ Head(s.way.tx.outs) =
                Out(SimpleNFT([data EXCEPT !.owner = c.to]), WorkSats)
           /\ IF data.artist = "none" THEN outs = <<PayTo(data.owner, paid)>>
              ELSE \E part \in {outs[2].sats} :
                     /\ outs = <<PayTo(data.owner, paid - part),
                                PayTo(data.artist, part)>>
                     /\ IsRoyalty(part, data.royalty, paid)
           /\ c.is = "SimpleNFTSale" => paid = c.price
           /\ c.is = "NFTDutchAuction" /\ ExactAuction(c.extra) =>
                /\ c.time <= s.at.blocks
                /\ (c.extra.start - paid) * c.extra.updates * c.extra.period
                     <= (c.extra.start - c.extra.min) * (s.at.blocks - c.time)

\* Two coins that wait for ever: the contested channel of parties who do not both
\* sign, since finish_contest's transaction does not meet its own lock, and a
\* cold storage that is short of sats.
Stranded(coin) ==
    \/ /\ coin.contract.is = "Channel" /\ coin.contract.state = "Stop"
       /\ ~({coin.contract.aliceKey, coin.contract.bobKey} \subseteq signing)
    \/ ShortOfSats(coin)

\* Contracts whose parties are bound to an outcome pay it in the end, whichever of
\* their transactions confirm first: no step of theirs needs a signature that is
\* missing, sats the coin has not got or a lock that its transaction does not
\* meet.  The stranded coins are all that stays.
Settles ==
    signing \in Plays[play].bound =>
      <>(\A coin \in coins : Stranded(coin))
=============================================================================
