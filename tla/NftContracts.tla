---------------------------- MODULE NftContracts ----------------------------
(***************************************************************************)
(* A coin that stands for a work and may be sold: plugin-example/nft, its  *)
(* sale contracts nft-sale and nft-auction and their traits.  The modules  *)
(* call each other by the handles they are given (PluginHost).             *)
(***************************************************************************)
EXTENDS ContractCoins

CONSTANTS
    Sales   \* Sell::MakeSale's arguments: [which, to, price, time, extra]

Precision == 1000000
\* Royalty is a rational <<numerator, denominator>>, rounded to Precision.
RoyaltyForArtist(data, amount) ==
    (amount * ((2 * Precision * data.royalty[1] + data.royalty[2])
                 \div (2 * data.royalty[2]))) \div Precision

SimpleNFT(data) == [is |-> "SimpleNFT", data |-> data]
NftData(owner, artist, royalty) ==
    [owner |-> owner, artist |-> artist, royalty |-> royalty]

\* What a sale transfers: the work in output 0 to the buyer, the price to the
\* owner, and a royalty of it to the artist if there is one.
SaleOuts(data, to, sats, price) ==
    LET artistGets == RoyaltyForArtist(data, price)
    IN  <<Out(SimpleNFT([data EXCEPT !.owner = to]), sats)>>
        \o (IF data.artist = "none" THEN <<PayTo(data.owner, price)>>
            ELSE <<PayTo(data.owner, price - artistGets),
                   PayTo(data.artist, artistGets)>>)
Transfer(data, to, sats, price, time) ==
    [Tx(SaleOuts(data, to, sats, price))
       EXCEPT !.brings = price, !.inputs = 1, !.lock = time]

(* nft-sale: the time of the sale is kept and not looked at.  sats is what *)
(* the contract was compiled with, the work's own sats.                    *)
SimpleNFTSale(data, to, price, time, sats) ==
    [is |-> "SimpleNFTSale", data |-> data, to |-> to, price |-> price,
     time |-> time, sats |-> sats]
SimpleNFTSaleWays(c) ==
    {Template("transfer", Trivial, Transfer(c.data, c.to, c.sats, c.price, 0))}

(* nft-auction *)
DutchAuctionData(period, start, min, updates) ==
    [period |-> period, start |-> start, min |-> min, updates |-> updates]
DeriveDefault(price) == DutchAuctionData(6, price * 10, price, (144 * 30) \div 6)
\* (mutant) every price a period too early
MutScheduleEarly(extra, startHeight) ==
    [n \in 1..extra.updates |->
       [height |-> startHeight + (n - 1) * extra.period,
        price |-> extra.start - n * ((extra.start - extra.min) \div extra.updates)]]
\* A price that would rise and a number of updates of zero panic.
CreateSchedule(extra, startHeight) ==
    LET inc == (extra.start - extra.min) \div extra.updates
    IN  IF extra.start < extra.min \/ extra.updates = 0 THEN <<>>
        ELSE [n \in 1..extra.updates |->
                [height |-> startHeight + (n - 1) * extra.period,
                 price |-> extra.start - (n - 1) * inc]]
NFTDutchAuction(extra, data, to, time, sats) ==
    [is |-> "NFTDutchAuction", extra |-> extra, data |-> data, to |-> to,
     time |-> time, sats |-> sats]
\* Versions::Exact refuses nonsense; the trait's extra is taken as it is.
ExactAuction(extra) ==
    ~(extra.start < extra.min \/ extra.period = 0 \/ extra.updates = 0)
NFTDutchAuctionWays(c) ==
    LET schedule == CreateSchedule(c.extra, c.time)
    IN  Continuation("transfer", Key(<<c.data.owner>>),
          {Transfer(c.data, c.to, c.sats, s.price, s.height) : s \in Range(schedule)})

(* nft: sell lets the sale module make a contract for the work and puts    *)
(* into it the most that any of its transactions hands on.                 *)
SaleContract(data, sale, sats) ==
    IF sale.which = "sale" THEN SimpleNFTSale(data, sale.to, sale.price, sale.time, sats)
    ELSE NFTDutchAuction(IF sale.extra = <<>> THEN DeriveDefault(sale.price)
                         ELSE sale.extra[1],
                         data, sale.to, sale.time, sats)
SaleMax(sale, sats) ==
    sats + (IF sale.which = "sale" THEN sale.price
            ELSE IF sale.extra = <<>> THEN DeriveDefault(sale.price).start
            ELSE sale.extra[1].start)
Sell(data, sale, sats) ==
    [Tx(<<Out(SaleContract(data, sale, sats), SaleMax(sale, sats))>>)
       EXCEPT !.brings = SaleMax(sale, sats) - sats, !.inputs = 1]
SimpleNFTWays(c, sats) ==
    Continuation("sell", Key(<<c.data.owner>>),
      {Sell(c.data, sale, sats) : sale \in Sales})
=============================================================================
