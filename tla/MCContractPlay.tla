--------------------------- MODULE MCContractPlay ---------------------------
(* One play for every contract of the library, each as small as shows it.  *)
EXTENDS ContractPlay

\* What a play says unless it says otherwise: whoever signs, it settles; a bound
\* one does when some sign, an open one is meant to go on.
Plain(contract, sats, deals, horizon) ==
    [contract |-> contract, sats |-> sats, deals |-> deals, dust |-> 0,
     apart |-> FALSE, bound |-> DOMAIN deals, horizon |-> horizon]
Bound(contract, sats, deals, signers, horizon) ==
    [Plain(contract, sats, deals, horizon) EXCEPT !.bound = signers]
Open(contract, sats, deals, horizon) == Bound(contract, sats, deals, {}, horizon)
\* Deals that do not depend on who signs, and that say nothing.
Always(deals, signers) == [keys \in signers |-> deals]
NoDeal(signers) == Always({<<>>}, signers)

Five == <<PayTo("a", 3), PayTo("b", 4), PayTo("c", 5), PayTo("d", 6),
          PayTo("e", 7)>>
ToFive == [a |-> 3, b |-> 4, c |-> 5, d |-> 6, e |-> 7]
FiveKeys == {<<"a">>, <<"b">>, <<"c">>, <<"d">>, <<"e">>}
Nobody == {{}}
Three == <<[who |-> "a", sats |-> 4], [who |-> "b", sats |-> 5],
           [who |-> "c", sats |-> 6]>>
ThreeKeys == {<<"a">>, <<"b">>, <<"c">>}

Alice == [key |-> <<"alice">>, winner |-> Address("alice"),
          loser |-> Address("alice")]
Bob == [key |-> <<"bob">>, winner |-> Address("bob"), loser |-> Address("bob")]
A == <<"alice">>
B == <<"bob">>
Both == {A, B}
Half(x, y) == [alice |-> x, bob |-> y]

\* Prices: two of three oracles sign for the price, the third for another.
Oracles == ThresholdOracle({"o1", "o2", "o3"}, 2)
SignedPrice(oracles, price) ==
    UNION {{GteKey(o, p) : p \in 0..price} \cup {LtKey(o, p) : p \in (price + 1)..9} :
             o \in oracles}
PriceKeys(price) ==
    SignedPrice({"o1", "o2"}, price) \cup SignedPrice({"o3"}, 9 - price)
Priced(prices, max, UserGets(_)) ==
    [keys \in {PriceKeys(p) : p \in prices} |->
       LET p == CHOOSE p \in prices : keys = PriceKeys(p)
       IN  {[user |-> UserGets(p), operator |-> max - UserGets(p)]}]

\* A deal for each point the oracles may sign.
Dlc == DLCContract(Oracles, 2, <<"alice", "bob">>, LinearPositive(<<1, 4>>, 2))
PointKeys(i) == {PointKey(o, i) : o \in {"o1", "o3"}}
DlcDeals ==
    [keys \in {PointKeys(i) : i \in 0..2} |->
       LET i == CHOOSE i \in 0..2 : keys = PointKeys(i)
       IN  {<<Half(2, 7), Half(6, 3), Half(10, 0)>>[i + 1]}]

SplitCold == SplitTree("cold", 5, 2)
TheVault(cold) == Vault(cold, Address("hot"), 3, 10, 2, 1)
VaultDeals == {[hot |-> 10 * n, cold |-> 30 - 10 * n] : n \in 0..3}
\* A vault of one step.
OneStep(step) == Vault(SplitCold, Address("hot"), 1, step, 2, 1)
Redeemed == JamesVault("Secure", 2, <<"hot">>, <<"cold">>, Address("cold"), 30,
                       <<PayTo("cpfp", 1)>>)

MCRequests ==
    {[from |-> "a", fee |-> 1, payments |-> <<PayTo("x", 1)>>, sequence |-> 0],
     [from |-> "b", fee |-> 0, payments |-> <<PayTo("x", 3)>>, sequence |-> 0],
     [from |-> "b", fee |-> 1, payments |-> <<PayTo("y", 1)>>, sequence |-> 1],
     [from |-> "c", fee |-> 0, payments |-> [i \in 1..5 |-> PayTo("z", 1)],
      sequence |-> 1]}

MostOf(ways) == LET tx == (CHOOSE w \in ways : TRUE).tx
                IN  OutSats(tx.outs) + tx.fees
FatHanukkiah == Hanukkiah2([i \in 1..6 |-> <<"r", "s">>[(i % 2) + 1]], 2, 1, 0)

Recovering == {<<"r1">>, <<"r3">>}
Federation == {<<"a">>, <<"b">>, <<"r1">>, <<"r2">>}
TheEscrow == TrustlessEscrow(A, B, PayTo("alice", 4), PayTo("bob", 5))
Work(artist) == SimpleNFT(NftData("seller", artist, <<1, 10>>))
Selling == {{}, {<<"seller">>}}
Fork(seq, seqTime, lock, lockTime, alice) ==
    Outcome(<<PayTo("alice", alice), PayTo("bob", 9 - alice)>>,
            seq, seqTime, lock, lockTime)
TheFork == PowSwap(<<Fork(2, 0, 0, 3, 6), Fork(0, 2, 3, 0, 2)>>, Both)

LibraryPlays ==
  [treepay |-> Plain(TreePay(Five, 2), 25, Always({ToFive}, Nobody), 1),
   congestion |-> Plain(FeeTreePay(Five, 2, 1, 1), 29, Always({ToFive}, Nobody), 3),
   trampoline |-> Plain(TrampolinePay(Five, 1),
                        25 + 2 * 215, Always({ToFive}, Nobody), 1),
   mining |-> Plain(MiningPayout(Five, 2, 1), 29,
                    Always({ToFive}, {{}, {<<"a">>, <<"b">>}, FiveKeys}), 1),
   coinpool |-> Plain(BasicPool(Three), 15,
                      Always({[a |-> 4, b |-> 5, c |-> 6]},
                             {{}, {<<"a">>}, {<<"b">>, <<"c">>}, ThreeKeys}), 1),
   paymentpool |-> Bound(PaymentPool(Three, 0), 15, NoDeal({{}, ThreeKeys}),
                         {ThreeKeys}, 0),
   hanukkah |-> Plain(Hanukkiah("r", 2, 1, 1, 1), 12,
                      Always({[r |-> 12]}, Nobody), 3),
   fatHanukkah |-> Plain(FatHanukkiah, MostOf(Hanukkiah2Ways(FatHanukkiah)),
                         Always({[r |-> 6, s |-> 6]}, Nobody), 3),
   undosend |-> Plain(UndoSend(Address("from"), Address("to"), 9, 2), 9,
                      Always({[from |-> 9, to |-> 0], [from |-> 0, to |-> 9]},
                             Nobody), 3),
   vault |-> Plain(TheVault(Address("cold")), 30, Always(VaultDeals, Nobody), 8),
   splitVault |-> Plain([TheVault(SplitCold) EXCEPT !.steps = 2], 20,
                        Always({[hot |-> 10 * n, cold |-> 20 - 10 * n] : n \in 0..2},
                               Nobody), 6),
   \* Parts of five do not make up nine: refused, but for one step given more.
   unevenVault |-> Plain([TheVault(SplitCold) EXCEPT !.steps = 2, !.step = 9], 18,
                         NoDeal(Nobody), 6),
   shortVault |-> [Plain(OneStep(9), 10,
                         Always({[hot |-> 9, cold |-> 0], [hot |-> 0, cold |-> 9]},
                                Nobody), 4) EXCEPT !.dust = 1],
   givenMore |-> [Plain(OneStep(10), 11,
                        Always({[hot |-> 10, cold |-> 0], [hot |-> 0, cold |-> 10]},
                               Nobody), 4) EXCEPT !.dust = 1],
   redeem |-> Plain(Redeemed, 100,
                    NoDeal({{}, {<<"hot">>}, {<<"hot">>, <<"cold">>}}), 4),
   chicken |-> Plain(HodlChicken(Alice, Bob, 5, 5, 8, 2), 10,
     [keys \in {{A}, {B}, Both} |->
        {Half(IF A \in keys THEN 2 ELSE 8, IF A \in keys THEN 8 ELSE 2)}
          \cup (IF keys = Both THEN {Half(8, 2)} ELSE {})], 1),
   unfair |-> Plain(HodlChicken(Alice, Bob, 5, 4, 8, 2), 9, NoDeal({Both}), 1),
   staker |-> Plain(Staker("Operational", 2, <<"signing">>, <<"redeem">>), 9,
                    NoDeal({{<<"redeem">>}, {<<"redeem">>, <<"signing">>}}), 3),
   channel |-> Plain(Channel("Start", A, B, 9, Address("both")), 9,
                     NoDeal({{}, {A}, Both}), 3),
   pegin |-> Bound(FederatedPegIn("CanBeginRecovery", ThreeKeys, 2,
                                  {<<"r1">>, <<"r2">>, <<"r3">>}, 2, 9), 9,
                   NoDeal({{<<"a">>}, Recovering, Federation}),
                   {Recovering, Federation}, 4),
   escrow |-> Bound(BasicEscrow(A, B, <<"escrow">>), 9,
                    NoDeal({{<<"escrow">>}, {A}, {A, <<"escrow">>}, Both}),
                    {{A, <<"escrow">>}, Both}, 0),
   escrow2 |-> Bound(BasicEscrow2(A, B, <<"escrow">>), 9,
                     NoDeal({{A, <<"escrow">>}, Both, Both \cup {<<"escrow">>}}),
                     {Both, Both \cup {<<"escrow">>}}, 0),
   trustless |-> Plain(TheEscrow, 9, Always({Half(4, 5)}, {{}, {A}, Both}), 2),
   conditional |-> Plain(ExampleCompileIf(TheEscrow, FALSE, TRUE, FALSE), 9,
                         Always({Half(4, 5)}, {{}, Both}), 2),
   disabled |-> Bound(ExampleCompileIf(TheEscrow, TRUE, FALSE, FALSE), 9,
                      NoDeal({{A}, Both}), {Both}, 1),
   failing |-> Plain(ExampleCompileIf(TheEscrow, FALSE, TRUE, TRUE), 9,
                     NoDeal({Both}), 0),
   exampleA |-> Plain(ExampleA(A, B), 9, NoDeal({{}, {A}, Both}), 3),
   exampleB |-> Plain(ExampleB("Start", ThreeKeys, 2, 9), 9,
                      NoDeal({{<<"a">>, <<"c">>}, ThreeKeys}), 1),
   single |-> Plain(PayToPublicKey(A), 9, NoDeal({{A}}), 0),
   chain |-> Open(ChainReturn("alice"), 9, NoDeal({{}, {A}}), 0),
   call |-> Plain(Call(1, 3, 6, FALSE, Oracles), 6,
                  Priced(3..6, 6, LAMBDA p : p - 3), 0),
   buyCall |-> Plain(Call(1, 3, 6, TRUE, Oracles), 6,
                     Priced({4}, 6, LAMBDA p : 6 - (p - 3)), 0),
   \* What two units pay is not said: call.rs pays them like one.
   twoCalls |-> Plain(Call(2, 3, 6, FALSE, Oracles), 12, NoDeal({PriceKeys(5)}), 0),
   put |-> Plain(Put(1, 4, TRUE, Oracles), 4,
                 Priced(0..4, 4, LAMBDA p : 4 - (4 - p)), 0),
   sellPut |-> Plain(Put(1, 4, FALSE, Oracles), 4,
                     Priced({3, 6}, 4, LAMBDA p : Larger(4 - p, 0)), 0),
   reversal |-> Plain(RiskReversal(6, 4, <<1, 2>>, <<1, 2>>, Oracles), 12,
                      Priced(2..6, 12, LAMBDA p : 24 \div p), 0),
   option |-> Plain(ExplodingOption(4, 2, <<"p2">>, Call(1, 3, 6, FALSE, Oracles), 2),
                    6,
                    [keys \in {{}, PriceKeys(5) \cup {<<"p2">>}} |->
                       {[p1 |-> 4, p2 |-> 2, user |-> 0, operator |-> 0]}
                       \cup (IF keys = {} THEN {}
                             ELSE {[p1 |-> 0, p2 |-> 0, user |-> 2,
                                    operator |-> 4]})], 2),
   underfunded |-> Plain(UnderFunded(4, 2, Call(1, 3, 6, FALSE, Oracles), 2), 4,
                         Always({[p1 |-> 4, user |-> 0, operator |-> 0],
                                 [p1 |-> 0, user |-> 1, operator |-> 5]},
                                {PriceKeys(4)}), 2),
   dlc |-> [Plain(Dlc, 10, DlcDeals, 0) EXCEPT !.dust = 1],
   settledDlc |-> [Plain(Dlc, 10, NoDeal({Both}), 0) EXCEPT !.dust = 1],
   powswap |-> [Plain(TheFork, 9, Always({Half(6, 3), Half(2, 7)}, {{}, Both}), 4)
                  EXCEPT !.apart = TRUE],
   work |-> Open(Work("artist"), 7, NoDeal(Selling), 4),
   auction |-> Open(NFTDutchAuction(DutchAuctionData(2, 90, 50, 2),
                      NftData("seller", "artist", <<1, 3>>), "buyer", 1, 7),
                    97, NoDeal(Selling), 4),
   upward |-> Open(NFTDutchAuction(DutchAuctionData(2, 50, 90, 2),
                     NftData("seller", "artist", <<1, 10>>), "buyer", 1, 7),
                   97, NoDeal(Selling), 4),
   plainWork |-> Open(Work("none"), 7, NoDeal(Selling), 4)]

MCPoolUpdates ==
    {[payouts |-> Payments(Three), external |-> 0, inputs |-> <<>>],
     [payouts |-> <<PayTo("b", 10),
                    Out(BasicPool(<<[who |-> "a", sats |-> 5]>>), 5)>>,
      external |-> 0, inputs |-> <<>>],
     [payouts |-> <<PayTo("a", 20)>>, external |-> 5, inputs |-> <<0>>]}
MCHotPayments == {<<PayTo("shop", 40), PayTo("change", 59)>>, <<PayTo("shop", 99)>>}
MCChainUpdates == {[adds |-> adds, fees |-> fees] : adds \in BOOLEAN, fees \in {0, 1}}
MCSales ==
    {[which |-> "sale", to |-> "buyer", price |-> 50, time |-> 1, extra |-> <<>>],
     [which |-> "auction", to |-> "buyer", price |-> 0, time |-> 1,
      extra |-> <<DutchAuctionData(2, 90, 50, 2)>>]}
MCPlays == LibraryPlays
=============================================================================
