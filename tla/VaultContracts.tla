--------------------------- MODULE VaultContracts ---------------------------
(***************************************************************************)
(* Contracts that protect one owner's funds by letting them out slowly:    *)
(* the annuity vault of sapio-contrib (vault.rs over undo_send.rs), its    *)
(* plugin, and the two-state vault of plugin-example/jamesob-vault.        *)
(***************************************************************************)
EXTENDS SharingContracts

CONSTANTS
    HotPayments   \* spend_hot's and spend_cold's arguments: Seq(Out)

(* undo_send.rs *)
UndoSend(from, to, sats, timeout) ==
    [is |-> "UndoSend", from |-> from, to |-> to, sats |-> sats,
     timeout |-> timeout]
UndoSendWays(c) ==
    {Template("undo", Trivial, Tx(<<Out(c.from, c.sats)>>)),
     Template("complete", Trivial,
       [Tx(<<Out(c.to, c.sats)>>) EXCEPT !.seq = c.timeout])}

(* vault.rs: cold is what VaultAddress or VaultTree make of the address.   *)
Vault(cold, hot, steps, step, timeout, mature) ==
    [is |-> "Vault", cold |-> cold, hot |-> hot, steps |-> steps,
     step |-> step, timeout |-> timeout, mature |-> mature]
\* VaultTree pays cold in parts of at most max: max each, the last one too.
SplitTree(who, max, radix) ==
    [is |-> "SplitTree", who |-> who, max |-> max, radix |-> radix]
ColdStorage(cold, sats) ==
    IF cold.is = "Address" THEN cold
    ELSE TreePay([i \in 1..((sats + cold.max - 1) \div cold.max) |->
                    PayTo(cold.who, cold.max)], cold.radix)
ColdSats(cold, sats) ==
    IF cold.is = "Address" THEN sats
    ELSE cold.max * ((sats + cold.max - 1) \div cold.max)
\* (mutant) a step does not wait
MutStepAtOnce(c) ==
    Tx(<<Out(UndoSend(ColdStorage(c.cold, c.step), c.hot, c.step, c.mature), c.step)>>
       \o (IF c.steps > 1
           THEN <<Out([c EXCEPT !.steps = @ - 1], c.step * (c.steps - 1))>>
           ELSE <<>>))
VaultStep(c) ==
    LET sent == UndoSend(ColdStorage(c.cold, c.step), c.hot, c.step, c.mature)
        rest == [c EXCEPT !.steps = @ - 1]
    IN  [Tx(<<Out(sent, c.step)>>
            \o (IF c.steps > 1 THEN <<Out(rest, c.step * (c.steps - 1))>>
                ELSE <<>>))
           EXCEPT !.seq = c.timeout]
VaultToCold(c) ==
    LET sats == c.step * c.steps IN Tx(<<Out(ColdStorage(c.cold, sats), sats)>>)
VaultWays(c) ==
    {Template("step", Trivial, VaultStep(c)),
     Template("to_cold", Trivial, VaultToCold(c))}
\* The compiler goes down to the last step: every vault on the way pays cold
\* storage a step and all it has left with its own sats, which are those of the
\* steps left, and in the first what it was given.  So the parts of cold storage
\* have to come to a step exactly, if there are two or more steps.
VaultCompiles(c, sats) ==
    \A n \in 1..c.steps :
       LET funds == IF n = c.steps THEN sats ELSE c.step * n
       IN  ColdSats(c.cold, c.step) <= funds /\ ColdSats(c.cold, c.step * n) <= funds
\* With one step, and more sats than it takes, they may come to more.
ShortTree(c) ==
    c.is = "Vault" /\ c.steps = 1 /\ ColdSats(c.cold, c.step) > c.step

(* jamesob-vault: state is the type tag, "Secure" or "Redeeming"; backup   *)
(* and cpfp may be absent (the empty sequence).                            *)
JamesVault(state, timeout, hotKey, backup, backupAddr, feerate, cpfp) ==
    [is |-> "JamesVault", state |-> state, timeout |-> timeout,
     hotKey |-> hotKey, backup |-> backup, backupAddr |-> backupAddr,
     feerate |-> feerate, cpfp |-> cpfp]
BackupScript == 22 \* bytes of the backup address's script
\* What backup and begin_redeem share: the anchor, the fee, then the rest.
Swept(c, sats, to, extra) ==
    LET size == EstimateTxSize(Tx(c.cpfp)) + extra
        fees == (c.feerate * 4 * size) \div 1000
    IN  [Tx(Append(c.cpfp, Out(to, sats - OutSats(c.cpfp) - fees)))
           EXCEPT !.fees = fees]
SpendHot(c, sats) ==
    {[Tx(u) EXCEPT !.seq = c.timeout] : u \in {u \in HotPayments : OutSats(u) <= sats}}
SpendCold(sats) == {Tx(u) : u \in {u \in HotPayments : OutSats(u) <= sats}}
JamesVaultWays(c, sats) ==
    {Template("backup", Trivial, Swept(c, sats, c.backupAddr, 8 + BackupScript))}
    \cup (IF c.state = "Secure"
          THEN {Template("begin_redeem", Trivial,
                  Swept(c, sats, [c EXCEPT !.state = "Redeeming"], 8 + 35))}
          ELSE Continuation("spend_hot", And(Key(c.hotKey), Older(c.timeout)),
                            SpendHot(c, sats)))
    \cup (IF c.backup # <<>>
          THEN Continuation("spend_cold", Key(c.backup), SpendCold(sats))
          ELSE {})
=============================================================================
