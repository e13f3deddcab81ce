------------------------------ MODULE BindPsbt ------------------------------
(***************************************************************************)
(* Binding a compiled contract to a coin: the Bind command of the CLI      *)
(* (cli/src/contracts/request.rs) and Object::bind_psbt                    *)
(* (sapio/src/contract/abi/object/bind.rs) with the TxIndexLogger it links *)
(* transactions through (sapio-base/src/txindex.rs) and an emulator that   *)
(* signs them.                                                             *)
(*                                                                         *)
(* A transaction is its inputs (outpoints) and outputs; it stands for its  *)
(* own txid, which witnesses do not change.  An object is what compile     *)
(* returned: where it was compiled (root), its address, its templates in   *)
(* the order of ctv_to_tx and then suggested_txs.  Metadata, continuation  *)
(* points and the scripts themselves are left out.                         *)
(***************************************************************************)
EXTENDS Integers, Sequences

CONSTANTS
    Object,      \* object -> [root, address, max, templates, encodes]
    Template,    \* template hash -> [inputs, outs: Seq([to, amount])]
    Roots,       \* the objects a user binds
    Payable,     \* the ExtendedAddresses that are an Address
    OutputMaps,  \* hash -> one outpoint or NoOutPoint per input
    UserOutputs, \* the outputs of transactions users or the node come with
    ChangePositions  \* change_position of wallet_create_funded_psbt

IsSeq(s) == s \in Seq({s[i] : i \in DOMAIN s})

\* Templates, outputs and maps are vectors; no object is compiled at the path
\* that Bind::call lists the funding transaction under; a wallet reports -1 or
\* the place of its change among two outputs.
ASSUME BindAssumption ==
    /\ Roots \subseteq DOMAIN Object
    /\ \A o \in DOMAIN Object :
         /\ Object[o].templates \in Seq(DOMAIN Template)
         /\ Object[o].root # "funding"
    /\ \A h \in DOMAIN Template :
         /\ Template[h].inputs \in Nat \ {0}
         /\ Template[h].outs \in Seq([to : DOMAIN Object, amount : Nat])
    /\ \A m \in OutputMaps : \A h \in DOMAIN m : IsSeq(m[h])
    /\ \A outs \in UserOutputs : IsSeq(outs)
    /\ ChangePositions \subseteq {-1, 0, 1}

VARIABLES
    pc,        \* "fund", "bind", "done", "failed" or "panic"
    root,      \* the object to bind
    emulator,  \* "oracle", or "CTVAvailable" that passes psbts on
    outputMap, \* the caller's map; Bind::call passes an empty one
    mode,      \* how the coin was chosen
    funding,   \* the outpoint that holds the contract
    index,     \* TxIndexLogger.map
    stack,     \* what is left to bind, the last first: [out, obj]
    mock,      \* mock_out.vout
    visit,     \* the object being bound: [out, obj, made], or NoVisit
    program,   \* root path -> [out, txs]
    bound      \* history: every visit that was recorded

chosen == <<root, emulator, outputMap, mode, funding>>
vars == <<pc, chosen, index, stack, mock, visit, program, bound>>

Tx(ins, outs) == [ins |-> ins, outs |-> outs]
OutPoint(tx, vout) == [tx |-> tx, vout |-> vout]
Output(address, amount) == [address |-> address, amount |-> amount]
ZeroTxid == Tx(<<>>, <<>>)
MockCoin == OutPoint(Tx(<<>>, <<Output("mock", 0)>>), 0) \* create_mock_output
UserCoin == OutPoint(Tx(<<>>, <<Output("user", 0)>>), 0)
NoOutPoint == OutPoint(ZeroTxid, -1)
NoOutput == Output("none", 0)
NoVisit == [obj |-> "none"]

\* TxIndex::lookup_output(..).ok()
Lookup(op) ==
    IF op.tx \in index /\ op.vout + 1 \in DOMAIN op.tx.outs
    THEN op.tx.outs[op.vout + 1] ELSE NoOutput
----------------------------------------------------------------------------
Init ==
    /\ pc = "fund"
    /\ root \in Roots
    /\ emulator \in {"oracle", "CTVAvailable"}
    /\ outputMap \in OutputMaps
    /\ mode = "none" /\ funding = NoOutPoint
    /\ index = {} /\ stack = <<>> /\ mock = 0
    /\ visit = NoVisit /\ program = <<>> /\ bound = {}

\* The rest of Bind::call once it has a transaction and a vout: a new logger
\* that knows the transaction, and a bind_psbt that starts there.
StartAt(m, tx, vout) ==
    /\ mode' = m
    /\ funding' = OutPoint(tx, vout)
    /\ index' = {tx}
    /\ stack' = <<[out |-> OutPoint(tx, vout), obj |-> root]>>
    /\ pc' = "bind"
    /\ UNCHANGED <<root, emulator, outputMap, mock, visit, program, bound>>

Fail ==
    /\ pc' = "failed"
    /\ UNCHANGED <<chosen, index, stack, mock, visit, program, bound>>

ToRoot == Output(Object[root].address, Object[root].max)

FundWithMock ==
    /\ pc = "fund"
    /\ StartAt("mock", Tx(<<MockCoin>>, <<ToRoot>>), 0)

\* --outpoint: what get_raw_transaction says; nobody checks what it pays.
FundFromOutPoint(outs, vout) ==
    /\ pc = "fund"
    /\ StartAt("outpoint", Tx(<<UserCoin>>, outs), vout)

\* --txn: the first output to the contract's address
FundFromTxn(outs) ==
    LET paid == {i \in DOMAIN outs : outs[i].address = Object[root].address}
    IN
    /\ pc = "fund"
    /\ Object[root].address \in Payable /\ paid # {}
    /\ StartAt("txn", Tx(<<UserCoin>>, outs),
               (CHOOSE i \in paid : \A j \in paid : i <= j) - 1)

\* The wallet puts its change at the position it reports (-1: no change).
FundedOutputs(change) ==
    LET back == Output("change", 1) IN
    CASE change = -1 -> <<ToRoot>>
      [] change = 0 -> <<back, ToRoot>>
      [] OTHER -> <<ToRoot, back>>
MutVout(change) == IF change = -1 THEN 0 ELSE change   \* mutant: the change
Vout(change) == (change + 1) % Len(FundedOutputs(change))

FundFromWallet(change) ==
    /\ pc = "fund"
    /\ Object[root].address \in Payable
    /\ StartAt("wallet", Tx(<<UserCoin>>, FundedOutputs(change)),
               Vout(change))

\* No address, no output to it, a psbt that does not decode, the node's error.
FundFails == pc = "fund" /\ Fail
----------------------------------------------------------------------------
(* bind_psbt                                                               *)

PopObject ==
    /\ pc = "bind" /\ visit = NoVisit /\ stack # <<>>
    /\ LET top == stack[Len(stack)] IN
       visit' = [out |-> top.out, obj |-> top.obj, made |-> <<>>]
    /\ stack' = SubSeq(stack, 1, Len(stack) - 1)
    /\ UNCHANGED <<pc, chosen, index, mock, program, bound>>

Templates(obj) == Object[obj].templates
NextHash == Templates(visit.obj)[Len(visit.made) + 1]

\* Input 0 spends the object's coin; the others get mock outpoints, numbered
\* through the whole call, unless the output map names theirs.
MutPrevouts(h, i) ==       \* mutant: the numbering restarts for each template
    IF i = 1 THEN visit.out
    ELSE IF h \in DOMAIN outputMap /\ outputMap[h][i] # NoOutPoint
    THEN outputMap[h][i]
    ELSE OutPoint(ZeroTxid, i - 2)
Prevout(h, i) ==
    IF i = 1 THEN visit.out
    ELSE IF h \in DOMAIN outputMap /\ outputMap[h][i] # NoOutPoint
    THEN outputMap[h][i]
    ELSE OutPoint(ZeroTxid, mock + i - 2)

MapTooShort(h) ==
    h \in DOMAIN outputMap /\ Len(outputMap[h]) < Template[h].inputs
    /\ Template[h].inputs > 1

BoundTx(h) ==
    Tx([i \in 1..Template[h].inputs |-> Prevout(h, i)],
       [i \in DOMAIN Template[h].outs |->
          Output(Object[Template[h].outs[i].to].address,
                 Template[h].outs[i].amount)])

NewPsbt(tx) ==
    [tx |-> tx, signer |-> "nobody", witness |-> [i \in DOMAIN tx.ins |-> NoOutput]]
SignedPsbt(tx) ==
    [tx |-> tx, signer |-> emulator,
     witness |-> [i \in DOMAIN tx.ins |-> Lookup(tx.ins[i])]]

\* CTVEmulator::sign.  An oracle refuses a psbt with an unknown coin.
MutCanSign(p) == TRUE     \* mutant: it only looks at input 0
CanSign(p) ==
    emulator = "oracle" => \A i \in DOMAIN p.witness : p.witness[i] # NoOutput

MutPushed(h, tx) ==        \* mutant: vouts count from 1
    [i \in DOMAIN Template[h].outs |->
       [out |-> OutPoint(tx, i), obj |-> Template[h].outs[i].to]]
Pushed(h, tx) ==
    [i \in DOMAIN Template[h].outs |->
       [out |-> OutPoint(tx, i - 1), obj |-> Template[h].outs[i].to]]

MutGrown(pushed) == pushed      \* mutant: a template drops what is waiting
Grown(pushed) == stack \o pushed

Encodes(obj) == Object[obj].encodes \* it has an explicit script

AddTx(tx) == index' = index \cup {tx}

BindTemplate ==
    /\ pc = "bind" /\ visit # NoVisit
    /\ Len(visit.made) < Len(Templates(visit.obj))
    /\ LET h == NextHash
           tx == BoundTx(h)
           psbt == SignedPsbt(tx)
       IN  IF MapTooShort(h)
           THEN /\ pc' = "panic"      \* outputs[i]
                /\ UNCHANGED <<chosen, index, stack, mock, visit, program,
                               bound>>
           ELSE \/ /\ Encodes(visit.obj) /\ CanSign(psbt)
                   /\ AddTx(tx)
                   /\ mock' = mock + Template[h].inputs - 1
                   /\ stack' = Grown(Pushed(h, tx))
                   /\ visit' = [out |-> visit.out, obj |-> visit.obj,
                                 made |-> Append(visit.made, psbt)]
                   /\ UNCHANGED <<pc, chosen, program, bound>>
                \/ /\ ~Encodes(visit.obj) \/ emulator = "oracle"
                   /\ Fail   \* no script, or the emulator's error

\* result.insert(root_path, ..): one entry per root path, the last one stays.
Inserted(path, entry) ==
    [p \in DOMAIN program \cup {path} |-> IF p = path THEN entry ELSE program[p]]
RecordObject ==
    /\ pc = "bind" /\ visit # NoVisit
    /\ Len(visit.made) = Len(Templates(visit.obj))
    /\ program' = Inserted(Object[visit.obj].root,
                           [out |-> visit.out, txs |-> visit.made])
    /\ bound' = bound \cup {visit}
    /\ visit' = NoVisit
    /\ UNCHANGED <<pc, chosen, index, stack, mock>>

\* Bind::call adds the funding transaction, unless the user named the coin.
\* from_unsigned_tx refuses the transaction of a psbt that is already final.
Finish ==
    /\ pc = "bind" /\ visit = NoVisit /\ stack = <<>>
    /\ \/ mode = "txn" /\ Fail
       \/ /\ pc' = "done"
          /\ program' =
               IF mode = "outpoint" THEN program
               ELSE Inserted("funding", [out |-> funding.tx.ins[1],
                                         txs |-> <<NewPsbt(funding.tx)>>])
          /\ UNCHANGED <<chosen, index, stack, mock, visit, bound>>

Next ==
    \/ FundWithMock \/ FundFails
    \/ \E outs \in UserOutputs :
         \/ FundFromTxn(outs)
         \/ \E vout \in 0..Len(outs) : FundFromOutPoint(outs, vout)
    \/ \E change \in ChangePositions : FundFromWallet(change)
    \/ PopObject \/ BindTemplate \/ RecordObject \/ Finish

Spec == Init /\ [][Next]_vars
----------------------------------------------------------------------------
Done == pc = "done"
Outs == {v.out : v \in bound} \cup {stack[i].out : i \in DOMAIN stack}

\* What is still to bind is an object of the contract at an output of a
\* transaction the index knows, but for a coin the user named.
TypeOK ==
    /\ pc \in {"fund", "bind", "done", "failed", "panic"}
    /\ mock \in Nat
    /\ visit = NoVisit \/ Len(visit.made) <= Len(Templates(visit.obj))
    /\ \A out \in Outs :
         /\ out.tx \in index
         /\ out.vout + 1 \in DOMAIN out.tx.outs
              \/ (mode = "outpoint" /\ out = funding)

\* Each bound transaction spends the coin its parent created for it: the
\* output its psbt carries for input 0 is one to the address of the object
\* it was made for, however objects are shared and in whatever order they
\* are bound.
InputsResolve ==
    \A v \in bound : \A i \in DOMAIN v.made :
        (mode = "outpoint" /\ v.out = funding)
        \/ v.made[i].witness[1].address = Object[v.obj].address

\* All transactions of a program can be made side by side: two of them share
\* an input only as alternatives for the coin of one object (or if the output
\* map says so).  Mock inputs never collide, although every template is bound
\* with its own copy of the counter's outpoint.
Named == UNION {{outputMap[h][i] : i \in DOMAIN outputMap[h]} :
                  h \in DOMAIN outputMap}
NoConflicts ==
    \A v, w \in bound : \A i \in DOMAIN v.made, j \in DOMAIN w.made :
        LET s == v.made[i].tx.ins
            t == w.made[j].tx.ins
        IN  \A a \in DOMAIN s, b \in DOMAIN t :
              (s[a] = t[b] /\ s[a] \notin Named) =>
                \/ a = 1 /\ b = 1 /\ v.out = w.out
                \/ v = w /\ i = j /\ a = b

\* Nothing the oracles signed spends a coin nobody knows: a program is handed
\* out only when every input of every transaction has been looked up.
OraclesKnowEveryCoin ==
    (Done /\ emulator = "oracle") =>
        \A path \in DOMAIN program \ {"funding"} :
            \A i \in DOMAIN program[path].txs :
                /\ program[path].txs[i].signer = "oracle"
                /\ \A a \in DOMAIN program[path].txs[i].tx.ins :
                     program[path].txs[i].tx.ins[a].tx \in index

\* Unless the user names the coin, it is one the contract can be spent from,
\* wherever the wallet puts its change and the user the contract's output.
FundingPaysContract ==
    mode \in {"mock", "txn", "wallet"} =>
        /\ Lookup(funding).address = Object[root].address
        /\ mode # "txn" => Lookup(funding).amount = Object[root].max

\* When no two bound objects were compiled at one path, the program has an
\* entry for each coin, with all its transactions.
PathsDistinct ==
    \A v, w \in bound : Object[v.obj].root = Object[w.obj].root => v = w
ProgramComplete ==
    (Done /\ PathsDistinct) =>
        \A v \in bound :
            /\ program[Object[v.obj].root] = [out |-> v.out, txs |-> v.made]
            /\ Len(v.made) = Len(Templates(v.obj))
            /\ \A i \in DOMAIN v.made : \A n \in DOMAIN v.made[i].tx.outs :
                 \E w \in bound : w.out = OutPoint(v.made[i].tx, n - 1)
----------------------------------------------------------------------------
(* What comments of the code say and the code does not do.                 *)

\* "program contains the list of SapioStudio PSBTs": the psbts made for every
\* coin of the contract are in it.
EveryCoinListed ==
    Done => \A v \in bound : v.made = <<>> \/
        \E path \in DOMAIN program :
            program[path] = [out |-> v.out, txs |-> v.made]
=============================================================================
