----------------------- MODULE ContractPlayInvariants -----------------------
(***************************************************************************)
(* The invariants the proofs about the plays rest on, and their parts: how *)
(* the ledger is kept, where a vault's coins stand, what a work's and a    *)
(* pool's coins carry, that a coin pays for what its contract leads to,    *)
(* and what every coin still owes to whom.                                 *)
(***************************************************************************)
EXTENDS ContractPlay

Times == [blocks : Nat, time : Nat]

NotAfter(t, u) == t.blocks <= u.blocks /\ t.time <= u.time

\* Every coin there is or was.
Ever == coins \cup {s.coin : s \in spent}

LedgerTypes ==
    /\ play \in DOMAIN Plays
    /\ now \in Times
    /\ IsFiniteSet(spent)
    /\ \A c \in Ever : c.id \in Seq(Int) /\ c.born \in Times /\ NotAfter(c.born, now)

\* What is known of a spend: a way of its coin, open when it was taken.
Lawful(s) ==
    /\ s.coin.id \in Seq(Int) /\ s.coin.born \in Times /\ s.at \in Times
    /\ NotAfter(s.coin.born, s.at) /\ NotAfter(s.at, now)
    /\ s.way \in Ways(s.coin)
    /\ LocksExpired(s.coin, s.way.tx, s.at)
    /\ \E cond \in s.way.guard :
         Satisfies(cond, s.way, s.coin, signing, s.at) /\ s.keys = cond.keys

Descends(c) ==
    c.id # <<>> => \E s \in spent : s.coin.id = Front(c.id)

LedgerUnique ==
    /\ \A c, d \in Ever : c.id = d.id => c = d
    /\ \A s, t \in spent : s.coin = t.coin => s = t
    /\ \A s \in spent : s.coin \notin coins

Ledger ==
    /\ LedgerTypes
    /\ \A s \in spent : Lawful(s)
    /\ \A c \in Ever : Descends(c)
    /\ LedgerUnique

\* What a spend does, in terms of the record it leaves.
Leaves(coin, way, s) ==
    /\ coin \in coins /\ way \in Ways(coin)
    /\ s.coin = coin /\ s.way = way /\ s.at = now
    /\ LocksExpired(coin, way.tx, now)
    /\ \E cond \in way.guard :
         Satisfies(cond, way, coin, signing, now) /\ s.keys = cond.keys
    /\ coins' = (coins \ {coin}) \cup NewCoins(coin, way)
    /\ spent' = spent \cup {s}
    /\ UNCHANGED <<play, signing, now>>

\* A way that has nothing to wait for, and one that has.
Ready(way) ==
    /\ way.tx.seq = 0 /\ way.tx.seqTime = 0 /\ way.tx.lock = 0 /\ way.tx.lockTime = 0
    /\ \A cond \in way.guard : cond.older = {} /\ cond.after = {}

Waits(way, wait) ==
    \/ way.tx.seq = wait
    \/ ~way.ctv /\ \A cond \in way.guard : wait \in cond.older

\* What ContestWindows asks of one spend.
Contested(s, contest) ==
    s.way.name = contest.slow =>
      /\ s.at.blocks - s.coin.born.blocks >= contest.wait
      /\ \E way \in Ways(s.coin) :
           /\ way.name = contest.answer
           /\ \A cond \in way.guard : CanSpend(way, s.coin, cond.keys, s.coin.born)

\* The coins of a vault: what is left of it after some steps, what a step sent
\* on its way to the hot address, and the tree that pays cold storage.
IsLeft(v, c) ==
    /\ \E n \in Nat : c.contract = Vault(v.cold, v.hot, n, v.step, v.timeout, v.mature)
    /\ c.id \in Seq({2})
    /\ Len(c.id) * v.timeout <= c.born.blocks

IsSent(v, c) ==
    /\ c.contract = UndoSend(ColdStorage(v.cold, v.step), v.hot, v.step, v.mature)
    /\ \E id \in Seq({2}) : c.id = Append(id, 1)
    /\ Len(c.id) * v.timeout <= c.born.blocks

IsTree(v, c) ==
    \E p \in Seq({PayTo(v.cold.who, v.cold.max)}) : c.contract = TreePay(p, v.cold.radix)

OfVault(v, c) == IsLeft(v, c) \/ IsSent(v, c) \/ (v.cold.is = "SplitTree" /\ IsTree(v, c))

\* What a spend of one of a vault's coins does.
SpendsOfVault(v, coin, way) ==
    /\ \A c \in NewCoins(coin, way) : OfVault(v, c)
    /\ way.name = "complete" => IsSent(v, coin)
    /\ PaidTo(v.hot.who, way.tx.outs) = IF way.name = "complete" THEN v.step ELSE 0

\* Outputs that lead on to a vault's coins pay nobody.
LeadOn(v, coin, outs) ==
    /\ \A i \in DOMAIN outs : outs[i].to # Address(v.hot.who)
    /\ \A i \in 1..Len(outs) : \A c :
          outs[i].to.is # "Address" /\ c.id = Append(coin.id, i)
             /\ c.contract = outs[i].to /\ c.born = now
          => OfVault(v, c)

\* The inductive invariant: the coins are a vault's, and the hot address got a
\* step for every UndoSend that completed.
TheVault == Plays[play].contract

Completed == {s \in spent : s.way.name = "complete"}

VaultCoins ==
    /\ \A c \in Ever : OfVault(TheVault, c)
    /\ \A s \in Completed : IsSent(TheVault, s.coin)
    /\ \A s \in spent : PaidTo(TheVault.hot.who, s.way.tx.outs) \in Int
    /\ Received(TheVault.hot.who) = TheVault.step * Cardinality(Completed)

IsVaultPlay == TheVault.is = "Vault" /\ TheVault.cold.who # TheVault.hot.who

VaultInv == IsVaultPlay => VaultCoins

\* Where the sats of a coin's work are, and what its sale was offered by.
OfferedCoin(c) ==
    c.id = <<>> \/ \E t \in spent : /\ t.coin.id = Front(c.id)
                                    /\ t.way.name = "sell"
                                    /\ <<c.contract.data.owner>> \in t.keys

WorkCoin(c) ==
    /\ IsWork(c.contract) /\ WorkFields(c.contract)
    /\ c.contract.is = "SimpleNFT" => c.sats = WorkSats
    /\ c.contract.is # "SimpleNFT" => c.contract.sats = WorkSats /\ OfferedCoin(c)

\* What a transfer hands on, in parts.
PartsOf(data, to, price, outs) ==
    /\ Head(outs) = Out(SimpleNFT([data EXCEPT !.owner = to]), WorkSats)
    /\ data.artist = "none" => Tail(outs) = <<PayTo(data.owner, price)>>
    /\ data.artist # "none" =>
         Tail(outs) = <<PayTo(data.owner, price - RoyaltyForArtist(data, price)),
                        PayTo(data.artist, RoyaltyForArtist(data, price))>>
    /\ \A i \in 1..Len(outs) : outs[i].to.is # "Address" =>
         outs[i] = Out(SimpleNFT([data EXCEPT !.owner = to]), WorkSats)

\* What is paid for a work, and to whom.
PaidFor(data, paid, outs) ==
    /\ OutSats(outs) = paid
    /\ data.artist = "none" => outs = <<PayTo(data.owner, paid)>>
    /\ data.artist # "none" =>
         \E part \in {outs[2].sats} :
            /\ outs = <<PayTo(data.owner, paid - part), PayTo(data.artist, part)>>
            /\ IsRoyalty(part, data.royalty, paid)

\* The ways of a work's coins.
Selling(coin, way) ==
    LET data == coin.contract.data
    IN  /\ coin.contract.is = "SimpleNFT"
        /\ way.name = "sell" /\ way.guard = Key(<<data.owner>>)
        /\ \/ way.tx.outs = <<>>
           \/ \E sale \in Sales : way.tx.outs =
                <<Out(SaleContract(data, sale, WorkSats), SaleMax(sale, WorkSats))>>

Priced(c, price, lock) ==
    /\ price \in Nat /\ lock \in Nat
    /\ c.is = "SimpleNFTSale" => price = c.price
    /\ c.is = "NFTDutchAuction" =>
         /\ c.extra.min <= c.extra.start /\ c.time <= lock
         /\ (c.extra.start - price) * c.extra.updates * c.extra.period
              <= (c.extra.start - c.extra.min) * (lock - c.time)

Transferring(coin, way) ==
    LET c == coin.contract
    IN  /\ c.is # "SimpleNFT" /\ way.name = "transfer"
        /\ \/ way.free /\ way.tx.outs = <<>>
           \/ \E price : PartsOf(c.data, c.to, price, way.tx.outs) /\ Priced(c, price, way.tx.lock)

WorkInv == IsWork(Plays[play].contract) => \A c \in Ever : WorkCoin(c)

\* What a request costs its member.
Cost(r) == r.fee + OutSats(r.payments)

Own(requests, who) == {r \in requests : r.from = who}

\* and what a set of them does.
Costs(S) == SumFunctionOnSet([r \in S |-> Cost(r)], S)

\* What a request leaves of a balance, and who leaves with it.
Rest(c, R, i) == c.members[i].sats - Spends(R, c.members[i].who)

Entry(c, R, i) == [who |-> c.members[i].who, sats |-> Rest(c, R, i)]

Goes(c, R, i) == Asks(R, c.members[i].who) /\ Rest(c, R, i) = 0

\* The first n members are either gone or in v, with what is left of their
\* balance, and nobody else is.
Kept(c, R, n, v) ==
    /\ \A j \in 1..Len(v) : \E i \in 1..n : ~Goes(c, R, i) /\ v[j] = Entry(c, R, i)
    /\ \A i \in 1..n : Goes(c, R, i) \/ \E j \in 1..Len(v) : v[j] = Entry(c, R, i)
    /\ \A j, k \in 1..Len(v) : v[j].who = v[k].who => j = k

\* The payments somebody signed for.
AddressOuts == UNION {Range(r.payments) : r \in PaymentRequests}

\* What the n-th member's request pays.
PaysOf(c, R, n) == (CHOOSE r \in R : r.from = c.members[n].who).payments

\* A pool of members of M, and a tree that pays out.
PoolIn(M, x) ==
    /\ x = PaymentPool(x.members, x.sequence)
    /\ x.members \in Seq(M) /\ x.sequence \in Nat
    /\ \A i, j \in 1..Len(x.members) : x.members[i].who = x.members[j].who => i = j

PayoutTree(x) == \E p \in Seq(AddressOuts) : x = TreePay(p, 4)

\* What a spend of a pool asks for is signed for this pool, by members of it.
AskedOf(c, R) ==
    /\ R \in SUBSET PaymentRequests
    /\ \A r, s \in R : r.from = s.from => r = s
    /\ \A r \in R : /\ r.sequence = c.sequence
                    /\ \E i \in 1..Len(c.members) : c.members[i].who = r.from

\* The pools among its outputs are later ones, of members who stay and what is
\* left to them.
NextPool(M, c, R, x) ==
    /\ PoolIn(M, x) /\ x.sequence = c.sequence + 1
    /\ \A j \in 1..Len(x.members) :
         \E i \in 1..Len(c.members) : ~Goes(c, R, i) /\ x.members[j] = Entry(c, R, i)

NextOut(M, c, R, o) ==
    o.to.is = "Address" \/ PayoutTree(o.to) \/ NextPool(M, c, R, o.to)

\* Nobody is in two of them, and unless all members agreed to something else
\* everybody who stays is in one.
ApartIn(outs) ==
    \A i, h \in 1..Len(outs) : outs[i].to.is = "PaymentPool" /\ outs[h].to.is = "PaymentPool" =>
      \A j \in 1..Len(outs[i].to.members), k \in 1..Len(outs[h].to.members) :
        outs[i].to.members[j].who = outs[h].to.members[k].who => i = h

AllIn(c, R, outs) ==
    \A i \in 1..Len(c.members) :
      \/ Goes(c, R, i)
      \/ \E h \in 1..Len(outs) :
           /\ outs[h].to.is = "PaymentPool"
           /\ \E j \in 1..Len(outs[h].to.members) : outs[h].to.members[j] = Entry(c, R, i)

HandsOn(M, c, way) ==
    /\ AskedOf(c, way.asked)
    /\ \A i \in 1..Len(way.tx.outs) : NextOut(M, c, way.asked, way.tx.outs[i])
    /\ ApartIn(way.tx.outs)
    /\ way.free \/ AllIn(c, way.asked, way.tx.outs)

\* One half of the members, in a pool of their own.
HalfOf(M, c, a, b, x) ==
    /\ NextPool(M, c, {}, x)
    /\ x.is = "PaymentPool" /\ Len(x.members) = b - a + 1
    /\ \A j \in 1..(b - a + 1) : /\ a + j - 1 \in 1..Len(c.members)
                                 /\ x.members[j] = c.members[a + j - 1]

\* A coin is a pool somebody is in, and holds their balance.
In(c, who) ==
    /\ c.contract.is = "PaymentPool"
    /\ \E j \in 1..Len(c.contract.members) : c.contract.members[j].who = who

Has(c, who, sats) ==
    /\ In(c, who)
    /\ \A j \in 1..Len(c.contract.members) :
         c.contract.members[j].who = who => c.contract.members[j].sats = sats

PoolCoin(M, c) == PoolIn(M, c.contract) \/ PayoutTree(c.contract)

\* What a spend does to pools, member by member: it carries out requests signed
\* for its pool by its members, makes later pools of these members, each in one
\* of them, with what is left of the balance, or in none if nothing is.
PoolStep(M, coin, way, new) ==
    /\ \A d \in new : PoolCoin(M, d)
    /\ way.asked \in SUBSET PaymentRequests
    /\ \A r, s \in way.asked : r.from = s.from => r = s
    /\ \A r \in way.asked :
         /\ In(coin, r.from)
         /\ r.sequence = coin.contract.sequence /\ coin.contract.sequence \in Nat
    /\ \A d \in new : \A who : In(d, who) =>
         In(coin, who) /\ d.contract.sequence = coin.contract.sequence + 1
    /\ \A d, e \in new : \A who : In(d, who) /\ In(e, who) => d = e
    /\ \A who, sats : Has(coin, who, sats) /\ ~way.free =>
         \/ sats - Spends(way.asked, who) = 0 /\ \A d \in new : ~In(d, who)
         \/ \E d \in new : Has(d, who, sats - Spends(way.asked, who))

\* Somebody's money is in one pool, or spent.
KeptBy(who, left) ==
    \/ left = 0 /\ \A c \in coins : ~In(c, who)
    \/ \E c \in coins : Has(c, who, left) /\ \A d \in coins : In(d, who) => d = c

PoolInv ==
    LET pool == Plays[play].contract
    IN  pool.is = "PaymentPool" =>
          /\ \A c \in coins : PoolCoin(Members(pool), c)
          /\ \A c, d \in coins : \A who : In(c, who) /\ In(d, who) => c = d
          /\ \A s \in spent : s.way.asked \in SUBSET PaymentRequests
          /\ \A s \in spent : \A r \in s.way.asked : \A c \in coins :
               In(c, r.from) => r.sequence < c.contract.sequence
          /\ \A s, t \in spent : s = t \/ s.way.asked \cap t.way.asked = {}
          /\ \/ \E s \in spent : s.way.free
             \/ \A m \in Range(pool.members) : KeptBy(m.who, m.sats - Spends(Executed, m.who))

\* The amounts of outputs, by number.
SatsOf(outs) == [i \in DOMAIN outs |-> outs[i].sats]

\* What matters of a coin for the ways it may be spent.
Holding(x, sats) == [contract |-> x, sats |-> sats]

\* A way that the coin can pay for.
Funds(way, sats, dust) ==
    LET handsOn == OutSats(way.tx.outs) + way.tx.fees
    IN  way.free
        \/ /\ handsOn <= sats \/ way.tx.inputs > 0
           /\ way.ctv => sats - handsOn <= dust

\* Bundles of trees hold what the payments below them need, and their fees: they
\* are entries of a set that is closed under looking into its bundles.
BundleIn(S, o) ==
    /\ o.to.is \in {"PayThese", "PayoutBundle"}
    /\ o.to.contracts \in Seq(S) /\ o.to.fees \in Nat
    /\ o.sats = OutSats(o.to.contracts) + o.to.fees

Closed(S) ==
    \A o \in S : o.sats \in Int /\ (IsAddress(o.to) \/ BundleIn(S, o))

IsBundle(x, sats) ==
    \E S : Closed(S) /\ \E o \in S : BundleIn(S, o) /\ o.to = x /\ o.sats = sats

\* A contract that is well formed, the parts of a vault's cold storage included.
Fit(c, dust) ==
    /\ Formed(c, dust)
    /\ c.is = "Vault" => IsAddress(c.cold) \/ c.step % c.cold.max = 0

\* One that is or a bundle, with the sats it needs.
Sound(x, sats, dust) ==
    /\ sats \in Int
    /\ Fit(x, dust) \/ IsBundle(x, sats)
    /\ FundedCoin(Holding(x, sats), dust)

\* Every output of every way leads to one.
SoundOuts(outs, dust) ==
    \A i \in 1..Len(outs) : IsAddress(outs[i].to) \/ Sound(outs[i].to, outs[i].sats, dust)

Leads(x, sats, dust) ==
    \A way \in Ways(Holding(x, sats)) : SoundOuts(way.tx.outs, dust)

\* The contracts of a vault whose cold storage may be short of sats.
ColdTree(v, x) ==
    \E p \in Seq({PayTo(v.cold.who, v.cold.max)}) : x = TreePay(p, v.cold.radix)

Astray(v, x, sats, dust) ==
    /\ ShortTree(v) /\ VaultFields(v)
    /\ \/ ColdTree(v, x)
       \/ /\ x = v \/ x = UndoSend(ColdStorage(v.cold, v.step), v.hot, v.step, v.mature)
          /\ FundedCoin(Holding(x, sats), dust)

\* Every coin is in a contract that is sound with its sats, but for those.
FundsInv ==
    /\ Plays[play].dust \in Nat
    /\ \A coin \in coins :
         \/ Sound(coin.contract, coin.sats, Plays[play].dust)
         \/ Astray(Plays[play].contract, coin.contract, coin.sats, Plays[play].dust)

Due(who, o) == IF o.to = Address(who) THEN o.sats ELSE 0

Worths(who, outs) == [i \in 1..Len(outs) |-> Out(outs[i], Due(who, outs[i]))]

Dues(who, outs) == OutSats(Worths(who, outs))

\* v says of each of outs what it is worth, all together sats.
Prices(v, outs, sats) ==
    /\ Len(v) = Len(outs) /\ \A i \in 1..Len(outs) : v[i].to = outs[i]
    /\ OutSats(v) = sats

Weighs(S, outs, sats) == \E v \in Seq(S) : Prices(v, outs, sats)

\* Bundles are worth what is in them; those of the mining pool name the keys of
\* everybody who gets something.
Bundles(who, kind, S, o, sats) ==
    /\ o.to.is = kind /\ o.to.contracts \in Seq(Range(o.to.contracts))
    /\ Weighs(S, o.to.contracts, sats)
    /\ kind = "PayoutBundle" => /\ IsFiniteSet(o.to.keys)
                                /\ sats # 0 => <<who>> \in o.to.keys

Owing(who, kind, S) ==
    \A e \in S :
       /\ e.sats \in Nat
       /\ \/ IsAddress(e.to.to) /\ e.sats = Due(who, e.to)
          \/ Bundles(who, kind, S, e.to, e.sats)

Kinds == {"PayThese", "PayoutBundle"}

\* The kind of bundles a tree makes.
KindOf(c) == IF c.is = "MiningPayout" THEN "PayoutBundle" ELSE "PayThese"

\* A queue that is worth sats to somebody.
QueueOwing(who, kind, queue, sats) ==
    /\ queue \in Seq(Range(queue))
    /\ \E S : Owing(who, kind, S) /\ Weighs(S, queue, sats)

\* What the contracts of trees owe: sats to somebody.
Owes(who, x, sats) ==
    /\ sats \in Nat
    /\ \/ /\ x = TreePay(x.participants, x.radix) /\ x.radix \in Nat \ {0}
          /\ Payees(x.participants) /\ sats = Dues(who, x.participants)
       \/ /\ x.is \in {"FeeTreePay", "MiningPayout"} /\ x.radix \in Nat \ {0, 1}
          /\ Payees(x.participants) /\ sats = Dues(who, x.participants)
       \/ /\ x.is = "TrampolinePay" /\ Payees(x.payments) /\ sats = Dues(who, x.payments)
       \/ \E kind \in Kinds : \E S, o : /\ Owing(who, kind, S)
                                        /\ o.to = x /\ Bundles(who, kind, S, o, sats)

\* What outputs pay and owe.
ShareIs(who, o, sats) ==
    /\ sats \in Nat
    /\ IF IsAddress(o.to) THEN sats = Due(who, o) ELSE Owes(who, o.to, sats)

Shared(who, outs, sats) ==
    /\ outs \in Seq(Range(outs))
    /\ \E v : /\ Prices(v, outs, sats) /\ v \in Seq(Range(v))
              /\ \A i \in 1..Len(outs) : ShareIs(who, outs[i], v[i].sats)

\* Every way either shares out what is owed, or those it is owed to sign.
SignsAway(who, way, sats) ==
    /\ ~way.ctv /\ way.tx.outs = <<>>
    /\ sats # 0 => \A cond \in way.guard : <<who>> \in cond.keys

Divides(who, way, sats) == SignsAway(who, way, sats) \/ Shared(who, way.tx.outs, sats)

\* What every coin owes somebody.
Debts(who, owed, C) == owed \in [C -> Nat] /\ \A c \in C : Owes(who, c.contract, owed[c])

\* What somebody got and is owed is what the deal says, unless they signed a
\* coin away.
InBalance(who) ==
    \/ Consented(who)
    \/ /\ IsFiniteSet(coins) /\ \A s \in spent : PaidTo(who, s.way.tx.outs) \in Int
       /\ \E owed : /\ Debts(who, owed, coins)
                    /\ Received(who) + SumFunctionOnSet(owed, coins)
                         = Dues(who, Payroll(Plays[play].contract))

DuesInv ==
    IsPayTree(Plays[play].contract) =>
      /\ signing \in DOMAIN Plays[play].deals /\ Payees(Payroll(Plays[play].contract))
      /\ \A who : InBalance(who)

-----------------------------------------------------------------------------
(* Shapes of transactions and of sums the proofs speak of.                 *)

\* The first n numbers of f together.
Total(f, n) == SumFunctionOnSet(f, 1..n)

WithFees(outs, fees) == [Tx(outs) EXCEPT !.fees = fees]
Delayed(outs, seq, fees) == [Tx(outs) EXCEPT !.seq = seq, !.fees = fees]

\* Transactions with a lock.
SeqTx(outs, seq) == [Tx(outs) EXCEPT !.seq = seq]
LockTx(outs, lock) == [Tx(outs) EXCEPT !.lock = lock]

SweptFees(c, extra) == (c.feerate * 4 * (EstimateTxSize(Tx(c.cpfp)) + extra)) \div 1000
SweptOut(c, sats, to, extra) == Out(to, sats - OutSats(c.cpfp) - SweptFees(c, extra))

\* Fees of requests.
FeesOf(S) == SumFunctionOnSet([r \in S |-> r.fee], S)

\* The requests of the first n members.
FirstAsked(c, R, n) == {r \in R : \E i \in 1..n : c.members[i].who = r.from}

SweptTx(c, sats, to, extra) ==
    WithFees(Append(c.cpfp, SweptOut(c, sats, to, extra)), SweptFees(c, extra))

Suggests(way, sats) ==
    ~way.ctv /\ \E u \in HotPayments : OutSats(u) <= sats /\ way.tx.outs = u /\ way.tx.fees = 0

BetPays(outcome, sats, dust) ==
    /\ Payees(outcome.tx.outs) /\ outcome.tx.fees \in Nat
    /\ OutSats(outcome.tx.outs) + outcome.tx.fees <= sats
    /\ sats - (OutSats(outcome.tx.outs) + outcome.tx.fees) <= dust

Updates(way, sats) ==
    ~way.ctv /\ \E u \in PoolUpdates :
       /\ OutSats(u.payouts) <= sats + u.external
       /\ way.tx.outs = u.payouts /\ way.tx.fees = 0 /\ way.tx.inputs = Len(u.inputs)

NextNight(x) ==
    IF x.night < Nights
    THEN <<Out([x EXCEPT !.night = @ + 1], HanukkiahMax(x.amount)[x.night + 1])>>
    ELSE <<>>

\* What the first n members had is what they keep, what they pay and the fees.
Accounts(M, c, R, n, v, p) ==
    /\ v \in Seq(M) /\ OutSats(v) \in Int
    /\ p \in Seq(AddressOuts) /\ OutSats(p) \in Int
    /\ FeesOf(FirstAsked(c, R, n)) \in Int
    /\ OutSats(v) + OutSats(p) + FeesOf(FirstAsked(c, R, n)) = Total(SatsOf(c.members), n)

\* Values in a row of outputs, one for each of outs.
HasRow(n, outs, h) ==
    \E v : /\ v \in Seq(Range(v)) /\ Prices(v, outs, Total(h, n))
           /\ \A i \in 1..n : v[i].sats = h[i]

\* What outputs pay somebody, and what the coins they make owe.
PaysOut(who, outs, F, kept, made, total) ==
    /\ IsFiniteSet(made) /\ SumFunctionOnSet(F, made) \in Int /\ total \in Int
    /\ PaidTo(who, outs) \in Int /\ SumFunctionOnSet(F, kept) \in Int
    /\ SumFunctionOnSet(F, made) + PaidTo(who, outs) = SumFunctionOnSet(F, kept) + total

\* The queue, round by round.
IsQueue(f, c, last) ==
    /\ f = [n \in 0..last |-> f[n]] /\ f[0] = c.participants
    /\ \A n \in 1..last : f[n] = NextQueue(c, f[n - 1])
=============================================================================
