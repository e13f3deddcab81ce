--------------------------- MODULE PartyContracts ---------------------------
(***************************************************************************)
(* Contracts between a few parties of sapio-contrib: hodl_chicken,         *)
(* staked_signer, channel, federated_sidechain, the escrows of             *)
(* readme_contracts, basic_examples and the helloworld plugin, and         *)
(* op_return_chain.                                                        *)
(***************************************************************************)
EXTENDS ContractCoins

CONSTANTS
    ContestDelay,   \* 100 blocks: Older(100) in channel.rs
    RecoveryDelay,  \* 4725 blocks: Older(4725) in federated_sidechain.rs
    EscrowDelay,    \* ten days: use_escrow's sequence
    ChainUpdates    \* op_return_chain's arguments: [adds, fees]

ASSUME DelayAssumption == ContestDelay \in Nat /\ RecoveryDelay \in Nat

(* hodl_chicken.rs *)
HodlChicken(alice, bob, aliceDeposit, bobDeposit, winnerGets, chickenGets) ==
    [is |-> "HodlChicken", alice |-> alice, bob |-> bob,
     aliceDeposit |-> aliceDeposit, bobDeposit |-> bobDeposit,
     winnerGets |-> winnerGets, chickenGets |-> chickenGets]
ChickenChecks(c) ==
    /\ c.aliceDeposit + c.bobDeposit = c.winnerGets + c.chickenGets
    /\ c.aliceDeposit = c.bobDeposit
HodlChickenWays(c) ==
    LET Redeem(name, chicken, other) ==
          Template(name, Key(chicken.key),
            Tx(<<Out(other.winner, c.winnerGets),
                 Out(chicken.loser, c.chickenGets)>>))
    IN  {Redeem("alice_redeem", c.alice, c.bob),
         Redeem("bob_redeem", c.bob, c.alice)}

(* staked_signer.rs: state is "Operational" or "Closing". *)
Staker(state, timeout, signingKey, redeemingKey) ==
    [is |-> "Staker", state |-> state, timeout |-> timeout,
     signingKey |-> signingKey, redeemingKey |-> redeemingKey]
OpReturn == Address("op_return")
\* (mutant) who is leaving can no longer be shown to have cheated
MutCheatedOnlyOperational(c, sats) ==
    IF c.state = "Operational"
    THEN {Template("cheated", Key(c.signingKey), Tx(<<Out(OpReturn, sats)>>)),
          Template("begin_redeem", Key(c.redeemingKey),
            Tx(<<Out([c EXCEPT !.state = "Closing"], sats)>>))}
    ELSE {Finish("finish_redeem_key", And(Key(c.redeemingKey), Older(c.timeout)))}
StakerWays(c, sats) ==
    {Template("cheated", Key(c.signingKey), Tx(<<Out(OpReturn, sats)>>))}
    \cup (IF c.state = "Operational"
          THEN {Template("begin_redeem", Key(c.redeemingKey),
                  Tx(<<Out([c EXCEPT !.state = "Closing"], sats)>>))}
          ELSE {Finish("finish_redeem_key",
                  And(Key(c.redeemingKey), Older(c.timeout)))})

(* channel.rs: finish_contest waits for Older(100), but its template has   *)
(* the sequence every template has that sets none.                         *)
Channel(state, alice, bob, sats, resolution) ==
    [is |-> "Channel", state |-> state, aliceKey |-> alice, bobKey |-> bob,
     sats |-> sats, resolution |-> resolution]
ChannelWays(c) ==
    LET signed == AllOf({c.aliceKey, c.bobKey})
    IN  {Finish("signed", signed)}
        \cup Continuation("update_state_a", signed, {})
        \cup Continuation("update_state_b", signed, {})
        \cup (IF c.state = "Start"
              THEN {Template("begin_contest", Trivial,
                      Tx(<<Out([c EXCEPT !.state = "Stop"], c.sats)>>))}
              ELSE {Template("finish_contest", Older(ContestDelay),
                      Tx(<<Out(c.resolution, c.sats)>>))})

(* federated_sidechain.rs: state is "CanBeginRecovery" or "CanFinish...".  *)
FederatedPegIn(state, keys, normal, recoveryKeys, recovery, sats) ==
    [is |-> "FederatedPegIn", state |-> state, keys |-> keys,
     normal |-> normal, recoveryKeys |-> recoveryKeys, recovery |-> recovery,
     sats |-> sats]
FederatedPegInWays(c) ==
    LET recovering == Threshold(c.recovery, c.recoveryKeys)
    IN  {Finish("normal_signed", Threshold(c.normal, c.keys))}
        \cup (IF c.state = "CanBeginRecovery"
              THEN {Template("begin_recovery", recovering,
                      Tx(<<Out([c EXCEPT !.state = "CanFinishRecovery"],
                               c.sats)>>))}
              ELSE {Finish("finish_recovery",
                      And(Older(RecoveryDelay), recovering))})

(* The escrows.  Both trustless ones, of the readme and of helloworld, and *)
(* ExampleCompileIf's use_escrow pay two addresses after ten days.         *)
BasicEscrow(alice, bob, escrow) ==
    [is |-> "BasicEscrow", aliceKey |-> alice, bobKey |-> bob, escrow |-> escrow]
BasicEscrowWays(c) ==
    LET both == {c.aliceKey, c.bobKey}
    IN  {Finish("redeem",
           Or(Threshold(2, both), And(Key(c.escrow), Threshold(1, both))))}
BasicEscrow2(alice, bob, escrow) ==
    [BasicEscrow(alice, bob, escrow) EXCEPT !.is = "BasicEscrow2"]
BasicEscrow2Ways(c) ==
    LET both == {c.aliceKey, c.bobKey}
    IN  {Finish("use_escrow", And(Key(c.escrow), Threshold(2, both))),
         Finish("cooperate", AllOf(both))}
UseEscrow(c) ==
    Template("use_escrow", Trivial,
      [Tx(<<c.aliceEscrow, c.bobEscrow>>) EXCEPT !.seq = EscrowDelay])
TrustlessEscrow(alice, bob, aliceEscrow, bobEscrow) ==
    [is |-> "TrustlessEscrow", aliceKey |-> alice, bobKey |-> bob,
     aliceEscrow |-> aliceEscrow, bobEscrow |-> bobEscrow]
TrustlessEscrowWays(c) ==
    {Finish("cooperate", AllOf({c.aliceKey, c.bobKey})), UseEscrow(c)}
\* should_escrow and must_escrow: what the four conditions merge to.  The
\* contract does not compile when an error is set or both of must_escrow and
\* escrow_disable are; it always has a template, so nullable changes nothing.
ExampleCompileIf(escrow, disable, mustEscrow, failing) ==
    [is |-> "ExampleCompileIf", aliceKey |-> escrow.aliceKey,
     bobKey |-> escrow.bobKey, aliceEscrow |-> escrow.aliceEscrow,
     bobEscrow |-> escrow.bobEscrow, disable |-> disable,
     mustEscrow |-> mustEscrow, failing |-> failing]
EscrowCompiles(c) == ~c.failing /\ ~(c.disable /\ c.mustEscrow)
ExampleCompileIfWays(c) ==
    {Finish("cooperate", AllOf({c.aliceKey, c.bobKey}))}
    \cup (IF c.disable THEN {} ELSE {UseEscrow(c)})

(* basic_examples.rs *)
ExampleA(alice, bob) == [is |-> "ExampleA", aliceKey |-> alice, bobKey |-> bob]
ExampleAWays(c) ==
    {Finish("signed", AllOf({c.aliceKey, c.bobKey})),
     Finish("timeout", Older(ContestDelay))}
ExampleB(state, participants, threshold, sats) ==
    [is |-> "ExampleB", state |-> state, keys |-> participants,
     threshold |-> threshold, sats |-> sats]
GetN(c) == IF c.state = "Start" THEN Cardinality(c.keys) ELSE c.threshold
ExampleBWays(c) ==
    {Finish("all_signed", Threshold(GetN(c), c.keys))}
    \cup (IF c.state = "Start"
          THEN {Template("begin_contest", Trivial,
                  Tx(<<Out([c EXCEPT !.state = "Finish"], c.sats)>>))}
          ELSE {})
PayToPublicKey(key) == [is |-> "PayToPublicKey", key |-> key]
PayToPublicKeyWays(c) == {Finish("with_key", Key(c.key))}

(* op_return_chain.rs: the output takes all funds, so that add_fees finds  *)
(* nothing left and data can only be added without a fee.                  *)
ChainReturn(who) == [is |-> "ChainReturn", who |-> who]
NextChain(c, sats, u) ==
    IF u.adds
    THEN Tx(<<Out(OpReturn, 0)>> \o (IF sats # 0 THEN <<Out(c, sats)>> ELSE <<>>))
    ELSE Tx(<<PayTo(c.who, sats)>>)
ChainReturnWays(c, sats) ==
    Continuation("next_chain", Key(<<c.who>>),
      {NextChain(c, sats, u) : u \in {u \in ChainUpdates : u.adds => u.fees = 0}})
=============================================================================
