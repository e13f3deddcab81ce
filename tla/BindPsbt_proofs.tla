--------------------------- MODULE BindPsbt_proofs ---------------------------
(***************************************************************************)
(* Theorems about binding, for any contract, templates and coins: the      *)
(* transactions of a program spend the coins their parents create, do not  *)
(* get into each other's way, and are signed with every coin known.        *)
(***************************************************************************)
EXTENDS BindPsbt, WellFoundedInduction, TLAPS

(* An object that waits on the stack, or is visited, has its coin: one the *)
(* user named, or one to its address in a transaction the index knows.     *)
Pays(out, obj) ==
    \/ mode = "outpoint" /\ out = funding
    \/ /\ out.vout + 1 \in DOMAIN out.tx.outs
       /\ out.tx.outs[out.vout + 1].address = Object[obj].address

Pending(out, obj) ==
    /\ obj \in DOMAIN Object
    /\ out.tx \in index
    /\ out.tx # ZeroTxid
    /\ Pays(out, obj)

(* A mock input has a number below the counter, unless the map names it.   *)
IsMock(op) == op \in Named \/ \E n \in 0..(mock - 1) : op = OutPoint(ZeroTxid, n)

PsbtOK(p, v) ==
    /\ 1 \in DOMAIN p.tx.ins
    /\ p.tx.ins[1] = v.out
    /\ \/ mode = "outpoint" /\ v.out = funding
       \/ p.witness[1].address = Object[v.obj].address
    /\ \A a \in DOMAIN p.tx.ins \ {1} : IsMock(p.tx.ins[a])

Signed(p) ==
    emulator = "oracle" =>
        /\ p.signer = "oracle"
        /\ \A a \in DOMAIN p.tx.ins : p.tx.ins[a].tx \in index

VisitOK(v) ==
    /\ Pending(v.out, v.obj)
    /\ IsSeq(v.made)
    /\ \A i \in DOMAIN v.made : PsbtOK(v.made[i], v) /\ Signed(v.made[i])

(* Two psbts have a mock input in common.                                  *)
Clash(p, q, a, b) ==
    /\ a \in DOMAIN p.tx.ins \ {1} /\ b \in DOMAIN q.tx.ins \ {1}
    /\ p.tx.ins[a] = q.tx.ins[b]
    /\ p.tx.ins[a] \notin Named

Chosen ==
    /\ root \in DOMAIN Object
    /\ outputMap \in OutputMaps
    /\ mock \in Nat
    /\ pc \in {"fund", "bind", "done", "failed", "panic"}

Fresh ==
    pc = "fund" => /\ mode = "none"
                   /\ visit = NoVisit
                   /\ bound = {}
                   /\ program = <<>>
                   /\ stack = <<>>

FundingPaid ==
    mode \in {"mock", "txn", "wallet"} =>
        /\ funding.tx \in index
        /\ funding.vout + 1 \in DOMAIN funding.tx.outs
        /\ funding.tx.outs[funding.vout + 1].address = Object[root].address
        /\ mode # "txn" =>
             funding.tx.outs[funding.vout + 1].amount = Object[root].max

StackPays ==
    /\ IsSeq(stack)
    /\ \A n \in DOMAIN stack : Pending(stack[n].out, stack[n].obj)

VisitsOK ==
    /\ \A v \in bound : VisitOK(v)
    /\ visit # NoVisit => VisitOK(visit)
    /\ visit # NoVisit => Len(visit.made) <= Len(Templates(visit.obj))

(* The visit at hand has no mock input of an earlier visit, and no psbt    *)
(* one of another.                                                         *)
Apart(v, w) ==
    \A i \in DOMAIN v.made, j \in DOMAIN w.made :
        \A a, b : ~Clash(v.made[i], w.made[j], a, b)
Orderly(v) ==
    \A i, j \in DOMAIN v.made :
        \A a, b : Clash(v.made[i], v.made[j], a, b) => i = j /\ a = b

MocksApart ==
    /\ \A v \in bound : Orderly(v) /\ \A w \in bound : v # w => Apart(v, w)
    /\ visit # NoVisit => Orderly(visit) /\ \A v \in bound : Apart(v, visit)

ProgramSigned ==
    \A path \in DOMAIN program \ {"funding"} :
        \A i \in DOMAIN program[path].txs : Signed(program[path].txs[i])

IInv == Chosen /\ Fresh /\ FundingPaid /\ StackPays /\ VisitsOK /\ MocksApart
          /\ ProgramSigned
------------------------------------------------------------------------------
(* What a caller passes in: templates and maps are sequences.              *)
LEMMA Given ==
    /\ Roots \subseteq DOMAIN Object
    /\ \A o \in DOMAIN Object : /\ Object[o].templates \in Seq(DOMAIN Template)
                               /\ Object[o].root # "funding"
    /\ \A h \in DOMAIN Template :
         /\ Template[h].inputs \in Nat \ {0}
         /\ Template[h].outs \in Seq([to : DOMAIN Object, amount : Nat])
    /\ \A m \in OutputMaps : \A h \in DOMAIN m : IsSeq(m[h])
    /\ \A outs \in UserOutputs : IsSeq(outs)
    /\ ChangePositions \subseteq {-1, 0, 1}
BY BindAssumption

LEMMA SeqDomain ==
    ASSUME NEW s, IsSeq(s)
    PROVE  Len(s) \in Nat /\ DOMAIN s = 1..Len(s)
BY DEF IsSeq

LEMMA Elements ==
    ASSUME NEW S, NEW s \in Seq(S)
    PROVE  Len(s) \in Nat /\ DOMAIN s = 1..Len(s) /\ \A i \in 1..Len(s) : s[i] \in S
OBVIOUS

LEMMA SeqFunction ==
    ASSUME NEW n \in Nat, NEW F, DOMAIN F = 1..n, F = [i \in 1..n |-> F[i]]
    PROVE  IsSeq(F) /\ Len(F) = n
BY DEF IsSeq

LEMMA SeqOf ==
    ASSUME NEW S, NEW s \in Seq(S)
    PROVE  IsSeq(s)
<1> DEFINE n == Len(s)
<1>1. n \in Nat /\ s \in [1..n -> S]
  OBVIOUS
<1>2. s \in [1..n -> {s[i] : i \in DOMAIN s}]
  BY <1>1
<1> QED
  BY <1>2, <1>1 DEF IsSeq

LEMMA AppendSeq ==
    ASSUME NEW s, IsSeq(s), NEW e
    PROVE  /\ IsSeq(Append(s, e))
           /\ DOMAIN Append(s, e) = 1..(Len(s) + 1)
           /\ Append(s, e)[Len(s) + 1] = e
           /\ \A i \in DOMAIN s : Append(s, e)[i] = s[i]
<1> DEFINE S == {s[i] : i \in DOMAIN s} \cup {e}
<1>1. s \in Seq(S) /\ e \in S
  BY DEF IsSeq
<1>2. Append(s, e) \in Seq(S)
  BY <1>1
<1>3. IsSeq(Append(s, e))
  BY <1>2, SeqOf
<1> QED
  BY <1>1, <1>3

LEMMA ConcatSeq ==
    ASSUME NEW s, IsSeq(s), NEW t, IsSeq(t)
    PROVE  /\ IsSeq(s \o t)
           /\ \A i \in DOMAIN (s \o t) :
                \/ i \in DOMAIN s /\ (s \o t)[i] = s[i]
                \/ i - Len(s) \in DOMAIN t /\ (s \o t)[i] = t[i - Len(s)]
           /\ \A i \in DOMAIN s : i \in DOMAIN (s \o t) /\ (s \o t)[i] = s[i]
           /\ \A i \in DOMAIN t : i + Len(s) \in DOMAIN (s \o t)
                                /\ (s \o t)[i + Len(s)] = t[i]
<1> DEFINE S == {s[i] : i \in DOMAIN s} \cup {t[i] : i \in DOMAIN t}
<1>1. s \in Seq(S) /\ t \in Seq(S)
  BY DEF IsSeq
<1>2. s \o t \in Seq(S)
  BY <1>1
<1>3. IsSeq(s \o t)
  BY <1>2, SeqOf
<1> QED
  BY <1>1, <1>3

LEMMA FrontSeq ==
    ASSUME NEW s, IsSeq(s), s # <<>>
    PROVE  /\ IsSeq(SubSeq(s, 1, Len(s) - 1))
           /\ Len(s) \in DOMAIN s
           /\ \A i \in DOMAIN SubSeq(s, 1, Len(s) - 1) :
                i \in DOMAIN s /\ SubSeq(s, 1, Len(s) - 1)[i] = s[i]
           /\ \A i \in DOMAIN s : i = Len(s) \/ i \in DOMAIN SubSeq(s, 1, Len(s) - 1)
<1> DEFINE S == {s[i] : i \in DOMAIN s}
<1>1. s \in Seq(S)
  BY DEF IsSeq
<1>2. SubSeq(s, 1, Len(s) - 1) \in Seq(S)
  BY <1>1
<1>3. IsSeq(SubSeq(s, 1, Len(s) - 1))
  BY <1>2, SeqOf
<1>4. Len(s) \in DOMAIN s
  BY <1>1
<1> QED
  BY <1>1, <1>3, <1>4

------------------------------------------------------------------------------
(* What holds of a visit stays true while the index and the counter grow.  *)
Grow ==
    /\ index \subseteq index'
    /\ mock \in Nat /\ mock' \in Nat /\ mock <= mock'
    /\ UNCHANGED chosen

LEMMA PendingStays ==
    ASSUME Grow, NEW out, NEW obj, Pending(out, obj)
    PROVE  Pending(out, obj)'
BY DEF Grow, Pending, Pays, chosen

LEMMA BelowGrows ==
    \A m, k \in Nat : m <= k => \A n \in 0..(m - 1) : n \in 0..(k - 1)
OBVIOUS

LEMMA MockStays ==
    ASSUME Grow, NEW op, IsMock(op)
    PROVE  IsMock(op)'
<1>1. Named' = Named
  BY DEF Grow, chosen, Named
<1>2. mock \in Nat /\ mock' \in Nat /\ mock <= mock'
  BY DEF Grow
<1>3. \A n \in 0..(mock - 1) : n \in 0..(mock' - 1)
  BY <1>2, BelowGrows
<1> QED
  BY <1>1, <1>3 DEF IsMock

LEMMA SignedStays ==
    ASSUME Grow, NEW p, Signed(p)
    PROVE  Signed(p)'
BY DEF Grow, Signed, chosen

LEMMA VisitStays ==
    ASSUME Grow, NEW v, VisitOK(v)
    PROVE  VisitOK(v)'
<1>1. Pending(v.out, v.obj)'
  BY PendingStays DEF VisitOK
<1>2. ASSUME NEW i \in DOMAIN v.made
      PROVE  PsbtOK(v.made[i], v)'
  <2>1. PsbtOK(v.made[i], v)
    BY <1>2 DEF VisitOK
  <2>2. ASSUME NEW a \in DOMAIN v.made[i].tx.ins \ {1}
        PROVE  IsMock(v.made[i].tx.ins[a])'
    BY <2>1, <2>2, MockStays DEF PsbtOK
  <2> QED
    BY <2>1, <2>2 DEF PsbtOK, Grow, chosen
<1>3. ASSUME NEW i \in DOMAIN v.made
      PROVE  Signed(v.made[i])'
  BY <1>3, SignedStays DEF VisitOK
<1> QED
  BY <1>1, <1>2, <1>3 DEF VisitOK

LEMMA ApartStays ==
    ASSUME UNCHANGED outputMap, NEW v
    PROVE  /\ Orderly(v) => Orderly(v)'
           /\ \A w : Apart(v, w) => Apart(v, w)'
<1>1. \A p, q, a, b : Clash(p, q, a, b)' <=> Clash(p, q, a, b)
  BY DEF Clash, Named
<1>2. Orderly(v) => Orderly(v)'
  BY <1>1 DEF Orderly
<1>3. \A w : Apart(v, w) => Apart(v, w)'
  BY <1>1 DEF Apart
<1> QED
  BY <1>2, <1>3

LEMMA ApartSymmetric ==
    ASSUME NEW v, NEW w, Apart(v, w)
    PROVE  Apart(w, v)
BY DEF Apart, Clash
------------------------------------------------------------------------------
(* The transaction of a template spends the visited coin, and its other    *)
(* inputs are named or get numbers the counter has not reached.            *)
LEMMA BoundInputs ==
    ASSUME Chosen, NEW h \in DOMAIN Template, ~MapTooShort(h)
    PROVE  /\ DOMAIN BoundTx(h).ins = 1..Template[h].inputs
           /\ BoundTx(h).ins[1] = visit.out
           /\ \A a \in 2..Template[h].inputs :
                \/ BoundTx(h).ins[a] \in Named
                \/ BoundTx(h).ins[a] = OutPoint(ZeroTxid, mock + a - 2)
           /\ BoundTx(h) # ZeroTxid
<1> DEFINE n == Template[h].inputs
<1>1. n \in Nat \ {0}
  BY Given
<1>2. BoundTx(h).ins = [i \in 1..n |-> Prevout(h, i)]
  BY DEF BoundTx, Tx
<1>3. BoundTx(h).ins[1] = visit.out
  BY <1>1, <1>2 DEF Prevout
<1>4. ASSUME NEW a \in 2..n
      PROVE  \/ BoundTx(h).ins[a] \in Named
             \/ BoundTx(h).ins[a] = OutPoint(ZeroTxid, mock + a - 2)
  <2>1. BoundTx(h).ins[a] = Prevout(h, a)
    BY <1>1, <1>2
  <2>2. CASE h \in DOMAIN outputMap /\ outputMap[h][a] # NoOutPoint
    <3>1. Len(outputMap[h]) \in Nat /\ DOMAIN outputMap[h] = 1..Len(outputMap[h])
      BY <2>2, Given, SeqDomain DEF Chosen
    <3>2. n <= Len(outputMap[h])
      BY <1>1, <2>2, <3>1 DEF MapTooShort
    <3>3. a \in DOMAIN outputMap[h]
      BY <1>1, <3>1, <3>2
    <3>4. Prevout(h, a) = outputMap[h][a]
      BY <2>2 DEF Prevout
    <3> QED
      BY <2>1, <2>2, <3>3, <3>4 DEF Named
  <2>3. CASE ~(h \in DOMAIN outputMap /\ outputMap[h][a] # NoOutPoint)
    BY <2>1, <2>3 DEF Prevout
  <2> QED
    BY <2>2, <2>3
<1>5. BoundTx(h) # ZeroTxid
  <2>1. 1 \in DOMAIN BoundTx(h).ins
    BY <1>1, <1>2
  <2>2. DOMAIN ZeroTxid.ins = {}
    BY DEF ZeroTxid, Tx
  <2> QED
    BY <2>1, <2>2
<1> QED
  BY <1>1, <1>2, <1>3, <1>4, <1>5

LEMMA OutPointsDiffer ==
    \A n, m : OutPoint(ZeroTxid, n) = OutPoint(ZeroTxid, m) => n = m
BY DEF OutPoint

(* A psbt is made with inputs the index resolves, the first to the address *)
(* it was meant for; and an oracle that signs it knows all of its coins.   *)
LEMMA SignedPsbtFields ==
    ASSUME NEW tx, NEW p, p = SignedPsbt(tx)
    PROVE  /\ p.tx = tx
           /\ p.signer = emulator
           /\ p.witness = [i \in DOMAIN tx.ins |-> Lookup(tx.ins[i])]
BY DEF SignedPsbt

LEMMA KnownCoins ==
    ASSUME NEW op, Lookup(op) # NoOutput
    PROVE  op.tx \in index
BY DEF Lookup

LEMMA SignedPsbtOK ==
    ASSUME Chosen, NEW h \in DOMAIN Template, ~MapTooShort(h), Grow,
           NEW v, v = visit, Pending(v.out, v.obj),
           NEW p, p = SignedPsbt(BoundTx(h)), CanSign(p),
           mock' = mock + Template[h].inputs - 1
    PROVE  PsbtOK(p, v)' /\ Signed(p)'
<1> DEFINE n == Template[h].inputs
<1>1. n \in Nat \ {0} /\ mock \in Nat
  BY Given DEF Chosen
<1>2. /\ p.tx = BoundTx(h)
      /\ p.signer = emulator
      /\ p.witness = [i \in DOMAIN p.tx.ins |-> Lookup(p.tx.ins[i])]
  BY DEF SignedPsbt
<1>3. DOMAIN p.tx.ins = 1..n /\ p.tx.ins[1] = v.out
  BY <1>2, BoundInputs
<1>4. p.witness[1] = Lookup(v.out)
  BY <1>1, <1>2, <1>3
<1>5. \/ mode = "outpoint" /\ v.out = funding
      \/ p.witness[1].address = Object[v.obj].address
  BY <1>4 DEF Pending, Pays, Lookup
<1>6. ASSUME NEW a \in 2..n
      PROVE  IsMock(p.tx.ins[a])'
  <2>1. CASE p.tx.ins[a] \in Named
    BY <2>1 DEF IsMock, Named, Grow, chosen
  <2>2. CASE p.tx.ins[a] = OutPoint(ZeroTxid, mock + a - 2)
    <3>1. mock + a - 2 \in 0..(mock' - 1)
      BY <1>1
    <3> QED
      BY <2>2, <3>1 DEF IsMock
  <2> QED
    BY <1>2, <2>1, <2>2, BoundInputs
<1>7. PsbtOK(p, v)'
  <2>1. \A a \in DOMAIN p.tx.ins \ {1} : a \in 2..n
    BY <1>1, <1>3
  <2>2. 1 \in DOMAIN p.tx.ins
    BY <1>1, <1>3
  <2> QED
    BY <1>3, <1>5, <1>6, <2>1, <2>2 DEF PsbtOK, Grow, chosen
<1>8. Signed(p)
  <2>1. SUFFICES ASSUME emulator = "oracle", NEW a \in DOMAIN p.tx.ins
                 PROVE  p.tx.ins[a].tx \in index
    BY <1>2 DEF Signed
  <2>2. p.witness[a] # NoOutput
    BY <1>2, <2>1 DEF CanSign
  <2> QED
    BY <1>2, <2>2, KnownCoins
<1> QED
  BY <1>7, <1>8, SignedStays

(* Its numbers are new, and each its own.                                  *)
LEMMA NewMocks ==
    ASSUME Chosen, NEW h \in DOMAIN Template, ~MapTooShort(h),
           NEW p, p = SignedPsbt(BoundTx(h))
    PROVE  /\ \A a, b : Clash(p, p, a, b) => a = b
           /\ \A q, a, b : (\A c \in DOMAIN q.tx.ins \ {1} : IsMock(q.tx.ins[c]))
                             => ~Clash(q, p, a, b) /\ ~Clash(p, q, b, a)
<1> DEFINE n == Template[h].inputs
<1>1. n \in Nat \ {0} /\ mock \in Nat
  BY Given DEF Chosen
<1>2. p.tx = BoundTx(h)
  BY SignedPsbtFields
<1>3. DOMAIN p.tx.ins \ {1} = 2..n
  BY <1>1, <1>2, BoundInputs
<1>4. \A a \in 2..n : \/ p.tx.ins[a] \in Named
                     \/ p.tx.ins[a] = OutPoint(ZeroTxid, mock + a - 2)
  BY <1>2, BoundInputs
<1>5. ASSUME NEW a, NEW b, Clash(p, p, a, b)
      PROVE  a = b
  <2>1. a \in 2..n /\ b \in 2..n
    BY <1>3, <1>5 DEF Clash
  <2>2. OutPoint(ZeroTxid, mock + a - 2) = OutPoint(ZeroTxid, mock + b - 2)
    BY <1>4, <1>5, <2>1 DEF Clash
  <2>3. mock + a - 2 = mock + b - 2
    BY <2>2, OutPointsDiffer
  <2> QED
    BY <1>1, <2>1, <2>3
<1>6. ASSUME NEW q, NEW a, NEW b,
             \A c \in DOMAIN q.tx.ins \ {1} : IsMock(q.tx.ins[c]),
             Clash(q, p, a, b) \/ Clash(p, q, b, a)
      PROVE  FALSE
  <2>1. b \in 2..n /\ a \in DOMAIN q.tx.ins \ {1} /\ q.tx.ins[a] = p.tx.ins[b]
        /\ p.tx.ins[b] \notin Named
    BY <1>3, <1>6 DEF Clash
  <2>2. PICK k \in 0..(mock - 1) : q.tx.ins[a] = OutPoint(ZeroTxid, k)
    BY <1>6, <2>1 DEF IsMock
  <2>3. OutPoint(ZeroTxid, k) = OutPoint(ZeroTxid, mock + b - 2)
    BY <1>4, <2>1, <2>2
  <2>4. k = mock + b - 2
    BY <2>3, OutPointsDiffer
  <2> QED
    BY <1>1, <2>1, <2>2, <2>4
<1> QED
  BY <1>5, <1>6

------------------------------------------------------------------------------
LEMMA Initially == Init => IInv
<1> SUFFICES ASSUME Init PROVE IInv
  OBVIOUS
<1>1. Chosen
  BY Given DEF Init, Chosen
<1>2. Fresh
  BY DEF Init, Fresh
<1>3. FundingPaid
  BY DEF Init, FundingPaid
<1>4. IsSeq(<<>>) /\ DOMAIN <<>> = {}
  BY DEF IsSeq
<1>5. StackPays
  BY <1>4 DEF Init, StackPays
<1>6. VisitsOK /\ MocksApart
  BY DEF Init, VisitsOK, MocksApart
<1>7. ProgramSigned
  BY <1>4 DEF Init, ProgramSigned
<1> QED
  BY <1>1, <1>2, <1>3, <1>5, <1>6, <1>7 DEF IInv

(* Bind::call has found a coin of the contract, or the user's.             *)
LEMMA Starting ==
    ASSUME IInv, pc = "fund", NEW m \in {"mock", "outpoint", "txn", "wallet"},
           NEW tx, NEW vout, StartAt(m, tx, vout),
           tx # ZeroTxid,
           m # "outpoint" =>
             /\ vout + 1 \in DOMAIN tx.outs
             /\ tx.outs[vout + 1].address = Object[root].address
             /\ m # "txn" => tx.outs[vout + 1].amount = Object[root].max
    PROVE  IInv'
<1>1. /\ mode' = m /\ funding' = OutPoint(tx, vout) /\ index' = {tx}
      /\ stack' = <<[out |-> OutPoint(tx, vout), obj |-> root]>>
      /\ pc' = "bind"
      /\ UNCHANGED <<root, emulator, outputMap, mock, visit, program, bound>>
  BY DEF StartAt
<1>2. /\ visit = NoVisit /\ bound = {} /\ program = <<>>
  BY DEF IInv, Fresh
<1>3. OutPoint(tx, vout).tx = tx /\ OutPoint(tx, vout).vout = vout
  BY DEF OutPoint
<1>4. Chosen' /\ Fresh'
  BY <1>1 DEF IInv, Chosen, Fresh
<1>5. FundingPaid'
  BY <1>1, <1>3 DEF FundingPaid
<1>6. StackPays'
  <2>1. IsSeq(stack') /\ \A n \in DOMAIN stack' :
          stack'[n] = [out |-> OutPoint(tx, vout), obj |-> root]
    BY <1>1 DEF IsSeq
  <2>2. Pending(OutPoint(tx, vout), root)'
    BY <1>1, <1>3 DEF Pending, Pays, IInv, Chosen
  <2> QED
    BY <1>1, <2>1, <2>2 DEF StackPays
<1>7. VisitsOK' /\ MocksApart'
  BY <1>1, <1>2 DEF VisitsOK, MocksApart
<1>8. ProgramSigned'
  BY <1>1, <1>2 DEF ProgramSigned
<1> QED
  BY <1>4, <1>5, <1>6, <1>7, <1>8 DEF IInv

LEMMA LeastNat ==
    ASSUME NEW S \in SUBSET Nat, S # {}
    PROVE  \E i \in S : \A j \in S : i <= j
<1>1. PICK i \in S : \A j \in S : ~ (<<j, i>> \in OpToRel(<, Nat))
  BY NatLessThanWellFounded, WFMin, Zenon
<1>2. \A j \in S : ~ (j < i)
  BY <1>1 DEF OpToRel
<1> QED
  BY <1>2

LEMMA Fetched ==
    ASSUME NEW coin, NEW outs, NEW tx, tx = Tx(<<coin>>, outs)
    PROVE  tx # ZeroTxid /\ tx.outs = outs
BY DEF Tx, ZeroTxid

LEMMA FundingKept ==
    ASSUME IInv, pc = "fund",
           \/ FundWithMock
           \/ \E outs \in UserOutputs :
                \/ FundFromTxn(outs)
                \/ \E vout \in 0..Len(outs) : FundFromOutPoint(outs, vout)
           \/ \E change \in ChangePositions : FundFromWallet(change)
    PROVE  IInv'
<1>1. CASE FundWithMock
  <2> DEFINE tx == Tx(<<MockCoin>>, <<ToRoot>>)
  <2>1. tx # ZeroTxid /\ tx.outs = <<ToRoot>>
    BY Fetched
  <2>2. ToRoot.address = Object[root].address /\ ToRoot.amount = Object[root].max
    BY DEF ToRoot, Output
  <2>3. StartAt("mock", tx, 0)
    BY <1>1 DEF FundWithMock
  <2> QED
    BY <2>1, <2>2, <2>3, Starting
<1>2. ASSUME NEW outs \in UserOutputs, FundFromTxn(outs)
      PROVE  IInv'
  <2> DEFINE tx == Tx(<<UserCoin>>, outs)
             paid == {i \in DOMAIN outs : outs[i].address = Object[root].address}
             first == CHOOSE i \in paid : \A j \in paid : i <= j
  <2>1. tx # ZeroTxid /\ tx.outs = outs
    BY Fetched
  <2>2. paid # {} /\ StartAt("txn", tx, first - 1)
    BY <1>2 DEF FundFromTxn
  <2>3. paid \subseteq Nat
    BY Given, SeqDomain
  <2>4. first \in paid
    <3> HIDE DEF paid
    <3>1. \E i \in paid : \A j \in paid : i <= j
      BY <2>2, <2>3, LeastNat
    <3> QED
      BY <3>1
  <2>5. first - 1 + 1 = first
    <3> HIDE DEF first
    <3> QED
      BY <2>3, <2>4
  <2> QED
    BY <2>1, <2>2, <2>4, <2>5, Starting
<1>3. ASSUME NEW outs \in UserOutputs, NEW vout \in 0..Len(outs),
             FundFromOutPoint(outs, vout)
      PROVE  IInv'
  BY <1>3, Fetched, Starting DEF FundFromOutPoint
<1>4. ASSUME NEW change \in ChangePositions, FundFromWallet(change)
      PROVE  IInv'
  <2> DEFINE tx == Tx(<<UserCoin>>, FundedOutputs(change))
  <2>1. tx # ZeroTxid /\ tx.outs = FundedOutputs(change)
    BY Fetched
  <2>2. /\ Vout(change) + 1 \in DOMAIN FundedOutputs(change)
        /\ FundedOutputs(change)[Vout(change) + 1] = ToRoot
    <3>1. CASE change = -1
      BY <3>1 DEF FundedOutputs, Vout
    <3>2. CASE change = 0
      BY <3>2 DEF FundedOutputs, Vout
    <3>3. CASE change = 1
      BY <3>3 DEF FundedOutputs, Vout
    <3> QED
      BY <3>1, <3>2, <3>3, Given
  <2>3. ToRoot.address = Object[root].address /\ ToRoot.amount = Object[root].max
    BY DEF ToRoot, Output
  <2>4. StartAt("wallet", tx, Vout(change))
    BY <1>4 DEF FundFromWallet
  <2> QED
    BY <2>1, <2>2, <2>3, <2>4, Starting
<1> QED
  BY <1>1, <1>2, <1>3, <1>4

------------------------------------------------------------------------------
LEMMA NoGrowth ==
    ASSUME IInv, UNCHANGED <<chosen, index, mock>>
    PROVE  Grow
BY DEF IInv, Chosen, Grow

LEMMA PopKept == ASSUME IInv, PopObject PROVE IInv'
<1> DEFINE top == stack[Len(stack)]
<1>1. /\ pc = "bind" /\ visit = NoVisit /\ stack # <<>>
      /\ visit' = [out |-> top.out, obj |-> top.obj, made |-> <<>>]
      /\ stack' = SubSeq(stack, 1, Len(stack) - 1)
      /\ UNCHANGED <<pc, chosen, index, mock, program, bound>>
  BY DEF PopObject
<1>2. PICK v : v = [out |-> top.out, obj |-> top.obj, made |-> <<>>]
  OBVIOUS
<1>3. visit' = v /\ v.out = top.out /\ v.obj = top.obj /\ v.made = <<>>
  BY <1>1, <1>2
<1>4. Grow
  BY <1>1, NoGrowth
<1>5. IsSeq(stack) /\ Len(stack) \in DOMAIN stack
  BY <1>1, FrontSeq DEF IInv, StackPays
<1>6. Chosen' /\ Fresh' /\ FundingPaid' /\ ProgramSigned'
  BY <1>1 DEF IInv, Chosen, Fresh, FundingPaid, ProgramSigned, Signed, chosen
<1>7. StackPays'
  <2>1. IsSeq(stack')
    BY <1>1, <1>5, FrontSeq
  <2>2. ASSUME NEW n \in DOMAIN stack'
        PROVE  Pending(stack[n].out, stack[n].obj)'
    <3>1. n \in DOMAIN stack /\ stack'[n] = stack[n]
      BY <1>1, <1>5, <2>2, FrontSeq
    <3>2. PICK e : e = stack[n]
      OBVIOUS
    <3>3. Pending(e.out, e.obj)
      BY <3>1, <3>2 DEF IInv, StackPays
    <3>4. Pending(e.out, e.obj)'
      BY <1>4, <3>3, PendingStays
    <3> QED
      BY <3>1, <3>2, <3>4
  <2> QED
    BY <2>1, <2>2 DEF StackPays
<1>8. IsSeq(v.made) /\ DOMAIN v.made = {} /\ Len(v.made) = 0
  BY <1>3 DEF IsSeq
<1>9. VisitOK(v)'
  <2>1. Pending(v.out, v.obj)
    BY <1>3, <1>5 DEF IInv, StackPays
  <2>2. Pending(v.out, v.obj)'
    BY <1>4, <2>1, PendingStays
  <2> QED
    BY <1>8, <2>2 DEF VisitOK
<1>10. VisitsOK'
  <2>1. \A w \in bound : VisitOK(w)'
    BY <1>4, VisitStays DEF IInv, VisitsOK
  <2>2. Len(v.made) <= Len(Templates(v.obj))
    <3>1. v.obj \in DOMAIN Object
      BY <1>3, <1>5 DEF IInv, StackPays, Pending
    <3>2. Len(Templates(v.obj)) \in Nat
      BY <3>1, Given DEF Templates
    <3> QED
      BY <1>8, <3>2
  <2> QED
    BY <1>1, <1>3, <1>9, <2>1, <2>2 DEF VisitsOK
<1>11. MocksApart'
  <2>1. Orderly(v)' /\ \A w : Apart(w, v)'
    BY <1>8 DEF Orderly, Apart
  <2>2. \A u \in bound : Orderly(u)' /\ \A w \in bound : u # w => Apart(u, w)'
    BY <1>1, ApartStays DEF chosen, IInv, MocksApart
  <2> QED
    BY <1>1, <1>3, <2>1, <2>2 DEF MocksApart
<1> QED
  BY <1>6, <1>7, <1>10, <1>11 DEF IInv

LEMMA RecordKept == ASSUME IInv, RecordObject PROVE IInv'
<1>1. /\ pc = "bind" /\ visit # NoVisit
      /\ program' = Inserted(Object[visit.obj].root,
                             [out |-> visit.out, txs |-> visit.made])
      /\ bound' = bound \cup {visit}
      /\ visit' = NoVisit
      /\ UNCHANGED <<pc, chosen, index, stack, mock>>
  BY DEF RecordObject
<1>2. Grow
  BY <1>1, NoGrowth
<1>3. Chosen' /\ Fresh' /\ FundingPaid'
  BY <1>1 DEF IInv, Chosen, Fresh, FundingPaid, chosen
<1>4. StackPays'
  BY <1>1 DEF IInv, StackPays, Pending, Pays, chosen
<1>5. VisitsOK'
  <2>1. \A w \in bound \cup {visit} : VisitOK(w)'
    BY <1>1, <1>2, VisitStays DEF IInv, VisitsOK
  <2> QED
    BY <1>1, <2>1 DEF VisitsOK
<1>6. MocksApart'
  <2>1. ASSUME NEW v \in bound \cup {visit}
        PROVE  Orderly(v)
    BY <1>1, <2>1 DEF IInv, MocksApart
  <2>2. ASSUME NEW v \in bound \cup {visit}, NEW w \in bound \cup {visit}, v # w
        PROVE  Apart(v, w)
    BY <1>1, <2>2, ApartSymmetric DEF IInv, MocksApart
  <2>3. \A v : (Orderly(v) => Orderly(v)') /\ \A w : Apart(v, w) => Apart(v, w)'
    BY <1>1, ApartStays DEF chosen
  <2> QED
    BY <1>1, <2>1, <2>2, <2>3 DEF MocksApart
<1>7. ProgramSigned'
  <2> DEFINE entry == [out |-> visit.out, txs |-> visit.made]
  <2>1. ASSUME NEW path \in DOMAIN program' \ {"funding"}
        PROVE  \/ program'[path] = entry
               \/ path \in DOMAIN program /\ program'[path] = program[path]
    BY <1>1, <2>1 DEF Inserted
  <2>2. entry.txs = visit.made
    OBVIOUS
  <2>3. \A i \in DOMAIN visit.made : Signed(visit.made[i])
    BY <1>1 DEF IInv, VisitsOK, VisitOK
  <2>4. \A p : Signed(p) => Signed(p)'
    BY <1>2, SignedStays
  <2> HIDE DEF entry
  <2>5. ASSUME NEW path \in DOMAIN program' \ {"funding"},
               NEW i \in DOMAIN program'[path].txs
        PROVE  Signed(program'[path].txs[i])
    BY <2>1, <2>2, <2>3, <2>5 DEF IInv, ProgramSigned
  <2> QED
    BY <2>4, <2>5 DEF ProgramSigned
<1> QED
  BY <1>3, <1>4, <1>5, <1>6, <1>7 DEF IInv

(* A call that ends leaves all of this alone.                              *)
LEMMA Untouched ==
    ASSUME IInv, UNCHANGED <<chosen, index, stack, mock, visit, bound>>
    PROVE  FundingPaid' /\ StackPays' /\ VisitsOK' /\ MocksApart'
<1>1. FundingPaid'
  BY DEF IInv, FundingPaid, chosen
<1>2. StackPays'
  BY DEF IInv, StackPays, Pending, Pays, chosen
<1>3. Grow
  BY NoGrowth
<1>4. VisitsOK'
  <2>1. \A v : VisitOK(v) => VisitOK(v)'
    BY <1>3, VisitStays
  <2>2. PICK v : v = visit
    OBVIOUS
  <2> QED
    BY <2>1, <2>2 DEF IInv, VisitsOK
<1>5. MocksApart'
  <2>1. \A v : (Orderly(v) => Orderly(v)') /\ \A w : Apart(v, w) => Apart(v, w)'
    BY ApartStays DEF chosen
  <2>2. PICK v : v = visit
    OBVIOUS
  <2> QED
    BY <2>1, <2>2 DEF IInv, MocksApart
<1> QED
  BY <1>1, <1>2, <1>4, <1>5

LEMMA Stopped ==
    ASSUME IInv, pc' \in {"panic", "failed", "done"},
           UNCHANGED <<chosen, index, stack, mock, visit, program, bound>>
    PROVE  IInv'
<1>1. Chosen' /\ Fresh'
  BY DEF IInv, Chosen, Fresh, chosen
<1>2. ProgramSigned'
  <2>1. \A p : Signed(p) => Signed(p)'
    BY NoGrowth, SignedStays
  <2> QED
    BY <2>1 DEF IInv, ProgramSigned
<1> QED
  BY <1>1, <1>2, Untouched DEF IInv

(* One more transaction for the coin at hand, and its outputs to bind.     *)
LEMMA PushedPending ==
    ASSUME NEW h \in DOMAIN Template, NEW tx, tx = BoundTx(h), tx # ZeroTxid,
           tx \in index'
    PROVE  /\ IsSeq(Pushed(h, tx))
           /\ \A i \in DOMAIN Pushed(h, tx) :
                Pending(Pushed(h, tx)[i].out, Pushed(h, tx)[i].obj)'
<1> DEFINE outs == Template[h].outs
           n == Len(outs)
<1>1. outs \in Seq([to : DOMAIN Object, amount : Nat])
  BY Given
<1>2. n \in Nat /\ DOMAIN outs = 1..n /\ \A i \in 1..n : outs[i].to \in DOMAIN Object
  <2>1. \A out \in [to : DOMAIN Object, amount : Nat] : out.to \in DOMAIN Object
    OBVIOUS
  <2> QED
    BY <1>1, <2>1, Elements
<1>3. /\ DOMAIN Pushed(h, tx) = 1..n
      /\ \A i \in 1..n :
           Pushed(h, tx)[i] = [out |-> OutPoint(tx, i - 1), obj |-> outs[i].to]
  BY <1>2 DEF Pushed
<1>4. IsSeq(Pushed(h, tx))
  <2>1. Pushed(h, tx) = [i \in 1..n |-> Pushed(h, tx)[i]]
    BY <1>2 DEF Pushed
  <2> QED
    BY <1>2, <1>3, <2>1, SeqFunction
<1>5. /\ DOMAIN tx.outs = 1..n
      /\ \A i \in 1..n : tx.outs[i].address = Object[outs[i].to].address
  BY <1>2 DEF BoundTx, Tx, Output
<1>6. ASSUME NEW i \in 1..n
      PROVE  Pending(OutPoint(tx, i - 1), outs[i].to)'
  <2>1. OutPoint(tx, i - 1).tx = tx /\ OutPoint(tx, i - 1).vout + 1 = i
    BY <1>2 DEF OutPoint
  <2> QED
    BY <1>2, <1>5, <2>1 DEF Pending, Pays
<1>7. ASSUME NEW i \in 1..n
      PROVE  Pending(Pushed(h, tx)[i].out, Pushed(h, tx)[i].obj)'
  <2>1. PICK e : e = [out |-> OutPoint(tx, i - 1), obj |-> outs[i].to]
    OBVIOUS
  <2>2. e.out = OutPoint(tx, i - 1) /\ e.obj = outs[i].to /\ Pushed(h, tx)[i] = e
    BY <1>3, <2>1
  <2>3. Pending(e.out, e.obj)'
    BY <1>6, <2>2
  <2> QED
    BY <2>2, <2>3
<1> QED
  BY <1>3, <1>4, <1>7

LEMMA PushedOuts ==
    ASSUME NEW h \in DOMAIN Template, NEW tx, tx = BoundTx(h)
    PROVE  /\ IsSeq(Pushed(h, tx))
           /\ DOMAIN Pushed(h, tx) = DOMAIN tx.outs
           /\ \A n \in DOMAIN tx.outs : Pushed(h, tx)[n].out = OutPoint(tx, n - 1)
<1>1. Len(Template[h].outs) \in Nat /\ DOMAIN Template[h].outs = 1..Len(Template[h].outs)
  BY Given, Elements
<1>2. Pushed(h, tx) = [i \in 1..Len(Template[h].outs) |-> Pushed(h, tx)[i]]
  BY <1>1 DEF Pushed
<1>3. IsSeq(Pushed(h, tx))
  BY <1>1, <1>2, SeqFunction
<1>4. DOMAIN Pushed(h, tx) = DOMAIN tx.outs
  BY DEF Pushed, BoundTx, Tx
<1>5. \A n \in DOMAIN tx.outs : Pushed(h, tx)[n].out = OutPoint(tx, n - 1)
  BY DEF Pushed, BoundTx, Tx
<1> QED
  BY <1>3, <1>4, <1>5

LEMMA BindKept == ASSUME IInv, BindTemplate PROVE IInv'
<1> DEFINE h == NextHash
           tx == BoundTx(h)
           psbt == SignedPsbt(tx)
<1>1. /\ pc = "bind" /\ visit # NoVisit
      /\ Len(visit.made) < Len(Templates(visit.obj))
  BY DEF BindTemplate
<1>2. Chosen /\ VisitOK(visit)
  BY <1>1 DEF IInv, VisitsOK
<1>3. /\ IsSeq(visit.made)
      /\ Len(visit.made) \in Nat /\ DOMAIN visit.made = 1..Len(visit.made)
  BY <1>2, SeqDomain DEF VisitOK
<1>4. /\ Templates(visit.obj) \in Seq(DOMAIN Template)
      /\ Len(Templates(visit.obj)) \in Nat
  BY <1>2, Given DEF VisitOK, Pending, Templates
<1>5. h \in DOMAIN Template
  BY <1>1, <1>3, <1>4 DEF NextHash
<1>6. ASSUME pc' \in {"panic", "failed"},
             UNCHANGED <<chosen, index, stack, mock, visit, program, bound>>
      PROVE  IInv'
  BY <1>6, Stopped
<1>7. ASSUME ~MapTooShort(h), CanSign(psbt),
             AddTx(tx), mock' = mock + Template[h].inputs - 1,
             stack' = Grown(Pushed(h, tx)),
             visit' = [out |-> visit.out, obj |-> visit.obj,
                       made |-> Append(visit.made, psbt)],
             UNCHANGED <<pc, chosen, program, bound>>
      PROVE  IInv'
  <2>1. Grow
    <3>1. Template[h].inputs \in Nat \ {0} /\ mock \in Nat
      BY <1>2, <1>5, Given DEF Chosen
    <3> QED
      BY <1>7, <3>1 DEF Grow, AddTx
  <2>2. PICK v, p, w : /\ v = visit /\ p = psbt
                       /\ w = [out |-> v.out, obj |-> v.obj,
                               made |-> Append(v.made, p)]
    OBVIOUS
  <2>3. /\ visit' = w /\ w.out = v.out /\ w.obj = v.obj
        /\ w.made = Append(v.made, p)
    BY <1>7, <2>2
  <2>4. /\ IsSeq(w.made)
        /\ DOMAIN w.made = DOMAIN v.made \cup {Len(v.made) + 1}
        /\ Len(w.made) = Len(v.made) + 1
        /\ w.made[Len(v.made) + 1] = p
        /\ \A i \in DOMAIN v.made : w.made[i] = v.made[i]
    <3>1. /\ IsSeq(w.made)
          /\ DOMAIN w.made = 1..(Len(v.made) + 1)
          /\ w.made[Len(v.made) + 1] = p
          /\ \A i \in DOMAIN v.made : w.made[i] = v.made[i]
      BY <1>3, <2>2, <2>3, AppendSeq
    <3>2. Len(w.made) \in Nat /\ DOMAIN w.made = 1..Len(w.made)
      BY <3>1, SeqDomain
    <3> HIDE DEF psbt, tx, h
    <3> QED
      BY <1>3, <2>2, <3>1, <3>2
  <2>5. PsbtOK(p, v)' /\ Signed(p)'
    BY <1>2, <1>5, <1>7, <2>1, <2>2, SignedPsbtOK DEF VisitOK
  <2>6. Chosen' /\ Fresh' /\ FundingPaid'
    BY <1>1, <1>7, <2>1
       DEF IInv, Chosen, Fresh, FundingPaid, Grow, AddTx, chosen
  <2>7. StackPays'
    <3>1. tx # ZeroTxid
      BY <1>2, <1>5, <1>7, BoundInputs
    <3>2. tx \in index'
      BY <1>7 DEF AddTx
    <3>3. PICK pushed : pushed = Pushed(h, tx)
      OBVIOUS
    <3>4. IsSeq(pushed)
          /\ \A i \in DOMAIN pushed : Pending(pushed[i].out, pushed[i].obj)'
      BY <1>5, <3>1, <3>2, <3>3, PushedPending
    <3>5. stack' = stack \o pushed /\ IsSeq(stack)
      BY <1>7, <3>3 DEF Grown, IInv, StackPays
    <3>6. ASSUME NEW n \in DOMAIN stack'
          PROVE  Pending(stack[n].out, stack[n].obj)'
      <4>1. CASE n \in DOMAIN stack /\ stack'[n] = stack[n]
        <5>1. PICK e : e = stack[n]
          OBVIOUS
        <5>2. Pending(e.out, e.obj)
          BY <4>1, <5>1 DEF IInv, StackPays
        <5>3. Pending(e.out, e.obj)'
          BY <2>1, <5>2, PendingStays
        <5> QED
          BY <4>1, <5>1, <5>3
      <4>2. CASE n - Len(stack) \in DOMAIN pushed
                 /\ stack'[n] = pushed[n - Len(stack)]
        BY <3>4, <4>2
      <4> QED
        BY <3>4, <3>5, <3>6, <4>1, <4>2, ConcatSeq
    <3> QED
      BY <3>4, <3>5, <3>6, ConcatSeq DEF StackPays
  <2>8. VisitOK(w)'
    <3>1. Pending(w.out, w.obj)'
      BY <1>2, <2>1, <2>2, <2>3, PendingStays DEF VisitOK
    <3>2. VisitOK(v)'
      BY <1>2, <2>1, <2>2, VisitStays
    <3>3. \A q : PsbtOK(q, v)' => PsbtOK(q, w)'
      BY <2>3 DEF PsbtOK
    <3> QED
      BY <2>4, <2>5, <3>1, <3>2, <3>3 DEF VisitOK
  <2>9. VisitsOK'
    <3>1. \A u \in bound : VisitOK(u)'
      BY <2>1, VisitStays DEF IInv, VisitsOK
    <3>2. Len(w.made) <= Len(Templates(w.obj))
      BY <1>1, <1>3, <1>4, <2>2, <2>3, <2>4
    <3> QED
      BY <1>7, <2>3, <2>8, <3>1, <3>2 DEF VisitsOK
  <2>10. MocksApart'
    <3>1. ASSUME NEW q, NEW u, PsbtOK(q, u)
          PROVE  \A a, b : ~Clash(q, p, a, b) /\ ~Clash(p, q, b, a)
      BY <1>2, <1>5, <1>7, <2>2, <3>1, NewMocks DEF PsbtOK
    <3>2. Orderly(w)
      <4>1. Orderly(v)
        BY <1>1, <2>2 DEF IInv, MocksApart
      <4>2. \A i \in DOMAIN v.made : PsbtOK(v.made[i], v)
        BY <1>2, <2>2 DEF VisitOK
      <4>3. \A a, b : Clash(p, p, a, b) => a = b
        BY <1>2, <1>5, <1>7, <2>2, NewMocks
      <4> QED
        BY <2>4, <3>1, <4>1, <4>2, <4>3 DEF Orderly
    <3>3. ASSUME NEW u \in bound
          PROVE  Apart(u, w)
      <4>1. Apart(u, v)
        BY <1>1, <2>2 DEF IInv, MocksApart
      <4>2. \A i \in DOMAIN u.made : PsbtOK(u.made[i], u)
        BY DEF IInv, VisitsOK, VisitOK
      <4> QED
        BY <2>4, <3>1, <4>1, <4>2 DEF Apart
    <3>4. \A u : (Orderly(u) => Orderly(u)') /\ \A x : Apart(u, x) => Apart(u, x)'
      BY <1>7, ApartStays DEF chosen
    <3> QED
      BY <1>7, <2>3, <3>2, <3>3, <3>4 DEF IInv, MocksApart
  <2>11. ProgramSigned'
    <3>1. \A q : Signed(q) => Signed(q)'
      BY <2>1, SignedStays
    <3> QED
      BY <1>7, <3>1 DEF IInv, ProgramSigned
  <2> QED
    BY <2>6, <2>7, <2>9, <2>10, <2>11 DEF IInv
<1> QED
  BY <1>6, <1>7 DEF BindTemplate, Fail

LEMMA FinishKept == ASSUME IInv, Finish PROVE IInv'
<1>1. CASE Fail
  BY <1>1, Stopped DEF Fail
<1>2. CASE mode = "outpoint" /\ ~Fail
  BY <1>2, Stopped DEF Finish
<1>3. CASE mode # "outpoint" /\ ~Fail
  <2>1. /\ pc' = "done"
        /\ program' = Inserted("funding", [out |-> funding.tx.ins[1],
                                           txs |-> <<NewPsbt(funding.tx)>>])
        /\ UNCHANGED <<chosen, index, stack, mock, visit, bound>>
    BY <1>3 DEF Finish
  <2>2. \A path \in DOMAIN program' \ {"funding"} :
          path \in DOMAIN program \ {"funding"} /\ program'[path] = program[path]
    BY <2>1 DEF Inserted
  <2>3. \A p : Signed(p) => Signed(p)'
    BY <2>1, NoGrowth, SignedStays
  <2>4. ProgramSigned'
    BY <2>2, <2>3 DEF IInv, ProgramSigned
  <2>5. Chosen' /\ Fresh'
    BY <2>1 DEF IInv, Chosen, Fresh, chosen
  <2> QED
    BY <2>1, <2>4, <2>5, Untouched DEF IInv
<1> QED
  BY <1>1, <1>2, <1>3

LEMMA StutterKept == ASSUME IInv, UNCHANGED vars PROVE IInv'
<1>1. Chosen' /\ Fresh' /\ ProgramSigned'
  <2>1. \A p : Signed(p) => Signed(p)'
    BY NoGrowth, SignedStays DEF vars
  <2> QED
    BY <2>1 DEF vars, IInv, Chosen, Fresh, ProgramSigned, chosen
<1> QED
  BY <1>1, Untouched DEF vars, IInv

LEMMA Inductive == IInv /\ [Next]_vars => IInv'
<1> SUFFICES ASSUME IInv, [Next]_vars PROVE IInv'
  OBVIOUS
<1>1. CASE \/ FundWithMock
           \/ \E outs \in UserOutputs :
                \/ FundFromTxn(outs)
                \/ \E vout \in 0..Len(outs) : FundFromOutPoint(outs, vout)
           \/ \E change \in ChangePositions : FundFromWallet(change)
  <2>1. pc = "fund"
    BY <1>1 DEF FundWithMock, FundFromTxn, FundFromOutPoint, FundFromWallet
  <2> QED
    BY <1>1, <2>1, FundingKept
<1>2. CASE FundFails
  BY <1>2, Stopped DEF FundFails, Fail
<1>3. CASE PopObject
  BY <1>3, PopKept
<1>4. CASE BindTemplate
  BY <1>4, BindKept
<1>5. CASE RecordObject
  BY <1>5, RecordKept
<1>6. CASE Finish
  BY <1>6, FinishKept
<1>7. CASE UNCHANGED vars
  BY <1>7, StutterKept
<1> QED
  BY <1>1, <1>2, <1>3, <1>4, <1>5, <1>6, <1>7 DEF Next

LEMMA Invariant == Spec => []IInv
BY Initially, Inductive, PTL DEF Spec
------------------------------------------------------------------------------
(* bind_psbt looks up the first input of a transaction in the index its    *)
(* parent was added to, and finds the output made for the object, however  *)
(* objects are shared and in whatever order they come off the stack.       *)
THEOREM InputsAlwaysResolve == Spec => []InputsResolve
<1>1. IInv => InputsResolve
  BY DEF IInv, VisitsOK, VisitOK, PsbtOK, InputsResolve
<1> QED
  BY <1>1, Invariant, PTL

(* The one counter of mock inputs keeps transactions that are not meant as *)
(* alternatives from spending the same input, whatever the templates.      *)
THEOREM NeverInConflict == Spec => []NoConflicts
<1>1. IInv => NoConflicts
  <2> SUFFICES ASSUME IInv, NEW v \in bound, NEW w \in bound,
                      NEW i \in DOMAIN v.made, NEW j \in DOMAIN w.made,
                      NEW a \in DOMAIN v.made[i].tx.ins,
                      NEW b \in DOMAIN w.made[j].tx.ins,
                      v.made[i].tx.ins[a] = w.made[j].tx.ins[b],
                      v.made[i].tx.ins[a] \notin Named
               PROVE  \/ a = 1 /\ b = 1 /\ v.out = w.out
                      \/ v = w /\ i = j /\ a = b
    BY DEF NoConflicts
  <2>1. PsbtOK(v.made[i], v) /\ PsbtOK(w.made[j], w)
    BY DEF IInv, VisitsOK, VisitOK
  <2>2. v.out.tx # ZeroTxid /\ w.out.tx # ZeroTxid
    BY DEF IInv, VisitsOK, VisitOK, Pending
  <2>3. ASSUME NEW op, IsMock(op), op \notin Named
        PROVE  op.tx = ZeroTxid
    BY <2>3 DEF IsMock, OutPoint
  <2>4. CASE a = 1 /\ b = 1
    BY <2>1, <2>4 DEF PsbtOK
  <2>5. CASE a = 1 /\ b # 1
    BY <2>1, <2>2, <2>3, <2>5 DEF PsbtOK
  <2>6. CASE a # 1 /\ b = 1
    BY <2>1, <2>2, <2>3, <2>6 DEF PsbtOK
  <2>7. CASE a # 1 /\ b # 1
    <3>1. Clash(v.made[i], w.made[j], a, b)
      BY <2>7 DEF Clash
    <3>2. Orderly(v) /\ (v # w => Apart(v, w))
      BY DEF IInv, MocksApart
    <3>3. v # w => FALSE
      BY <3>1, <3>2, Zenon DEF Apart
    <3>4. v = w => i = j /\ a = b
      BY <3>1, <3>2, Zenon DEF Orderly
    <3> QED
      BY <3>3, <3>4
  <2> QED
    BY <2>4, <2>5, <2>6, <2>7
<1> QED
  BY <1>1, Invariant, PTL

(* An oracle has seen the coin of every input of every transaction that a  *)
(* program hands out.                                                      *)
THEOREM OraclesAlwaysKnow == Spec => []OraclesKnowEveryCoin
<1>1. IInv => OraclesKnowEveryCoin
  BY DEF IInv, ProgramSigned, Signed, OraclesKnowEveryCoin
<1> QED
  BY <1>1, Invariant, PTL

(* Whichever way Bind::call finds a coin, but for one the user names, the  *)
(* contract it binds can be spent from it.                                 *)
THEOREM FundingAlwaysPays == Spec => []FundingPaysContract
<1>1. IInv => FundingPaysContract
  BY DEF IInv, FundingPaid, FundingPaysContract, Lookup
<1> QED
  BY <1>1, Invariant, PTL

(* Nothing is left out: whatever a bound transaction creates is on the     *)
(* stack, visited or bound, and the program has an entry for every path.   *)
HasTurn(op) ==
    \/ \E n \in DOMAIN stack : stack[n].out = op
    \/ visit # NoVisit /\ visit.out = op
    \/ \E w \in bound : w.out = op

OutputsHaveTurn(v) ==
    \A i \in DOMAIN v.made : \A n \in DOMAIN v.made[i].tx.outs :
        HasTurn(OutPoint(v.made[i].tx, n - 1))

Entered(v) ==
    /\ Len(v.made) = Len(Templates(v.obj))
    /\ Object[v.obj].root \in DOMAIN program
    /\ \E w \in bound : /\ Object[w.obj].root = Object[v.obj].root
                        /\ program[Object[v.obj].root] = [out |-> w.out, txs |-> w.made]

Complete ==
    /\ \A v \in bound : Entered(v) /\ OutputsHaveTurn(v)
    /\ visit # NoVisit => OutputsHaveTurn(visit)
    /\ pc = "done" => stack = <<>> /\ visit = NoVisit

LEMMA CompleteInitially == Init => Complete
BY DEF Init, Complete

LEMMA CompleteKept ==
    ASSUME Complete, IInv, pc' = "done" => stack' = <<>> /\ visit' = NoVisit,
           bound \subseteq bound', \A op : HasTurn(op) => HasTurn(op)',
           \A v \in bound : Entered(v)',
           \A v \in bound' \ bound : Entered(v)' /\ (\E u : u = visit /\ u = v /\ u # NoVisit),
           visit' # NoVisit => OutputsHaveTurn(visit)'
    PROVE  Complete'
<1>1. \A v : OutputsHaveTurn(v) => OutputsHaveTurn(v)'
  BY DEF OutputsHaveTurn
<1>2. \A v \in bound' \ bound : OutputsHaveTurn(v)
  BY DEF Complete
<1> QED
  BY <1>1, <1>2 DEF Complete

LEMMA PopComplete == ASSUME Complete, IInv, PopObject PROVE Complete'
<1> DEFINE top == stack[Len(stack)]
<1>1. /\ pc = "bind" /\ visit = NoVisit /\ stack # <<>>
      /\ visit' = [out |-> top.out, obj |-> top.obj, made |-> <<>>]
      /\ stack' = SubSeq(stack, 1, Len(stack) - 1)
      /\ UNCHANGED <<pc, chosen, index, mock, program, bound>>
  BY DEF PopObject
<1>2. visit' # NoVisit /\ visit'.out = top.out
  BY <1>1 DEF NoVisit
<1>3. ASSUME NEW op, HasTurn(op)
      PROVE  HasTurn(op)'
  <2>1. CASE \E n \in DOMAIN stack : stack[n].out = op
    <3>1. PICK n \in DOMAIN stack : stack[n].out = op
      BY <2>1
    <3>2. CASE n = Len(stack)
      BY <1>2, <3>1, <3>2 DEF HasTurn
    <3>3. CASE n # Len(stack)
      <4>1. n \in DOMAIN stack' /\ stack'[n] = stack[n]
        BY <1>1, <3>1, <3>3, FrontSeq DEF IInv, StackPays
      <4> QED
        BY <3>1, <4>1 DEF HasTurn
    <3> QED
      BY <3>2, <3>3
  <2> QED
    BY <1>1, <1>3, <2>1 DEF HasTurn
<1>4. OutputsHaveTurn(visit)'
  <2>1. visit'.made = <<>>
    BY <1>1
  <2> QED
    BY <2>1 DEF OutputsHaveTurn
<1>5. \A v \in bound : Entered(v)'
  BY <1>1 DEF Complete, Entered
<1> QED
  BY <1>1, <1>3, <1>4, <1>5, CompleteKept

LEMMA RecordComplete == ASSUME Complete, IInv, RecordObject PROVE Complete'
<1>1. /\ pc = "bind" /\ visit # NoVisit
      /\ Len(visit.made) = Len(Templates(visit.obj))
      /\ program' = Inserted(Object[visit.obj].root,
                             [out |-> visit.out, txs |-> visit.made])
      /\ bound' = bound \cup {visit}
      /\ visit' = NoVisit
      /\ UNCHANGED <<pc, chosen, index, stack, mock>>
  BY DEF RecordObject
<1>2. PICK u : u = visit
  OBVIOUS
<1>3. \A op : HasTurn(op) => HasTurn(op)'
  BY <1>1 DEF HasTurn
<1>4. PICK entry : entry = [out |-> u.out, txs |-> u.made]
  OBVIOUS
<1>5. /\ DOMAIN program' = DOMAIN program \cup {Object[u.obj].root}
      /\ program'[Object[u.obj].root] = entry
      /\ \A path \in DOMAIN program :
           path # Object[u.obj].root => program'[path] = program[path]
  BY <1>1, <1>2, <1>4 DEF Inserted
<1>6. Entered(u)'
  BY <1>1, <1>2, <1>4, <1>5 DEF Entered
<1>7. ASSUME NEW v \in bound
      PROVE  Entered(v)'
  <2>1. Entered(v)
    BY DEF Complete
  <2>2. CASE Object[v.obj].root = Object[u.obj].root
    BY <1>1, <1>2, <1>4, <1>5, <2>1, <2>2 DEF Entered
  <2>3. CASE Object[v.obj].root # Object[u.obj].root
    BY <1>1, <1>5, <2>1, <2>3 DEF Entered
  <2> QED
    BY <2>2, <2>3
<1> QED
  BY <1>1, <1>2, <1>3, <1>6, <1>7, CompleteKept

LEMMA StoppedComplete ==
    ASSUME Complete, IInv, pc' = "done" => stack = <<>> /\ visit = NoVisit,
           UNCHANGED <<stack, visit, bound>>,
           \A path \in DOMAIN program \ {"funding"} :
             path \in DOMAIN program' /\ program'[path] = program[path]
    PROVE  Complete'
<1>1. \A v \in bound : Entered(v)'
  <2>1. \A v \in bound : v.obj \in DOMAIN Object
    BY DEF IInv, VisitsOK, VisitOK, Pending
  <2>2. \A v \in bound : Object[v.obj].root # "funding"
    BY <2>1, Given
  <2> QED
    BY <2>2 DEF Complete, Entered
<1>2. \A op : HasTurn(op) => HasTurn(op)'
  BY DEF HasTurn
<1>3. \A v : OutputsHaveTurn(v) => OutputsHaveTurn(v)'
  BY <1>2 DEF OutputsHaveTurn
<1>4. PICK u : u = visit
  OBVIOUS
<1>5. u # NoVisit => OutputsHaveTurn(u)'
  BY <1>3, <1>4 DEF Complete
<1> QED
  BY <1>1, <1>3, <1>4, <1>5 DEF Complete

LEMMA BindComplete == ASSUME Complete, IInv, BindTemplate PROVE Complete'
<1> DEFINE h == NextHash
           tx == BoundTx(h)
           psbt == SignedPsbt(tx)
<1>1. /\ pc = "bind" /\ visit # NoVisit
      /\ Len(visit.made) < Len(Templates(visit.obj))
  BY DEF BindTemplate
<1>2. VisitOK(visit) /\ IsSeq(stack)
  BY <1>1 DEF IInv, VisitsOK, StackPays
<1>3. /\ IsSeq(visit.made)
      /\ Len(visit.made) \in Nat /\ DOMAIN visit.made = 1..Len(visit.made)
  BY <1>2, SeqDomain DEF VisitOK
<1>4. h \in DOMAIN Template
  <2>1. /\ Templates(visit.obj) \in Seq(DOMAIN Template)
        /\ Len(Templates(visit.obj)) \in Nat
    BY <1>2, Given DEF VisitOK, Pending, Templates
  <2> QED
    BY <1>1, <1>3, <2>1 DEF NextHash
<1>5. ASSUME pc' \in {"panic", "failed"},
             UNCHANGED <<chosen, index, stack, mock, visit, program, bound>>
      PROVE  Complete'
  BY <1>5, StoppedComplete
<1>6. ASSUME stack' = Grown(Pushed(h, tx)),
             visit' = [out |-> visit.out, obj |-> visit.obj,
                       made |-> Append(visit.made, psbt)],
             UNCHANGED <<pc, chosen, program, bound>>
      PROVE  Complete'
  <2>1. PICK t, p, pushed : t = tx /\ p = psbt /\ pushed = Pushed(h, t)
    OBVIOUS
  <2>2. p.tx = t
    BY <2>1, SignedPsbtFields
  <2>3. /\ IsSeq(pushed) /\ DOMAIN pushed = DOMAIN t.outs
        /\ \A n \in DOMAIN t.outs : pushed[n].out = OutPoint(t, n - 1)
    BY <1>4, <2>1, PushedOuts
  <2>4. stack' = stack \o pushed
    BY <1>6, <2>1 DEF Grown
  <2>5. visit' # NoVisit /\ visit'.out = visit.out
        /\ visit'.made = Append(visit.made, p)
    BY <1>6, <2>1 DEF NoVisit
  <2>6. ASSUME NEW op, HasTurn(op)
        PROVE  HasTurn(op)'
    BY <1>2, <1>6, <2>3, <2>4, <2>5, <2>6, ConcatSeq DEF HasTurn
  <2>7. ASSUME NEW n \in DOMAIN t.outs
        PROVE  HasTurn(OutPoint(t, n - 1))'
    <3>1. n + Len(stack) \in DOMAIN stack'
          /\ stack'[n + Len(stack)] = pushed[n]
      BY <1>2, <2>3, <2>4, <2>7, ConcatSeq
    <3>2. stack'[n + Len(stack)].out = OutPoint(t, n - 1)
      BY <2>3, <2>7, <3>1
    <3> QED
      BY <3>1, <3>2 DEF HasTurn
  <2>8. OutputsHaveTurn(visit)'
    <3>1. OutputsHaveTurn(visit)
      BY <1>1 DEF Complete
    <3>2. ASSUME NEW i \in DOMAIN visit'.made, NEW n \in DOMAIN visit'.made[i].tx.outs
          PROVE  HasTurn(OutPoint(visit.made[i].tx, n - 1))'
      <4>1. CASE i \in DOMAIN visit.made
        <5>1. visit'.made[i] = visit.made[i]
          BY <1>3, <2>5, <4>1, AppendSeq
        <5>2. PICK op : op = OutPoint(visit.made[i].tx, n - 1)
          OBVIOUS
        <5>3. HasTurn(op)'
          BY <2>6, <3>1, <3>2, <4>1, <5>1, <5>2 DEF OutputsHaveTurn
        <5> QED
          BY <5>1, <5>2, <5>3
      <4>2. CASE i = Len(visit.made) + 1
        <5>1. visit'.made[i] = p
          BY <1>3, <2>5, <4>2, AppendSeq
        <5> QED
          BY <2>2, <2>7, <3>2, <5>1
      <4> QED
        BY <1>3, <2>5, <3>2, <4>1, <4>2, AppendSeq
    <3> QED
      BY <3>2 DEF OutputsHaveTurn
  <2>9. \A v \in bound : Entered(v)'
    BY <1>6 DEF Complete, Entered
  <2> QED
    BY <1>1, <1>6, <2>6, <2>8, <2>9, CompleteKept
<1> QED
  BY <1>5, <1>6 DEF BindTemplate, Fail

LEMMA CompleteInductive == Complete /\ IInv /\ [Next]_vars => Complete'
<1> SUFFICES ASSUME Complete, IInv, [Next]_vars PROVE Complete'
  OBVIOUS
<1>1. CASE \/ FundWithMock
           \/ \E outs \in UserOutputs :
                \/ FundFromTxn(outs)
                \/ \E vout \in 0..Len(outs) : FundFromOutPoint(outs, vout)
           \/ \E change \in ChangePositions : FundFromWallet(change)
  <2>1. pc = "fund" /\ pc' = "bind" /\ UNCHANGED <<visit, bound>>
    BY <1>1 DEF FundWithMock, FundFromTxn, FundFromOutPoint, FundFromWallet, StartAt
  <2> QED
    BY <2>1 DEF IInv, Fresh, Complete
<1>2. CASE FundFails
  BY <1>2, StoppedComplete DEF FundFails, Fail
<1>3. CASE PopObject
  BY <1>3, PopComplete
<1>4. CASE BindTemplate
  BY <1>4, BindComplete
<1>5. CASE RecordObject
  BY <1>5, RecordComplete
<1>6. CASE Finish
  <2>1. \A path \in DOMAIN program \ {"funding"} :
          path \in DOMAIN program' /\ program'[path] = program[path]
    BY <1>6 DEF Finish, Fail, Inserted
  <2> QED
    BY <1>6, <2>1, StoppedComplete DEF Finish, Fail
<1>7. CASE UNCHANGED vars
  BY <1>7, StoppedComplete DEF vars, Complete
<1> QED
  BY <1>1, <1>2, <1>3, <1>4, <1>5, <1>6, <1>7 DEF Next

(* When no two objects were compiled at one path, the program has each     *)
(* coin with all its transactions, down to the last output: the walk of    *)
(* bind_psbt drops nothing of its stack.                                   *)
THEOREM ProgramAlwaysComplete == Spec => []ProgramComplete
<1>1. Complete => ProgramComplete
  <2> SUFFICES ASSUME Complete, Done, PathsDistinct, NEW v \in bound
               PROVE  /\ program[Object[v.obj].root] = [out |-> v.out, txs |-> v.made]
                      /\ Len(v.made) = Len(Templates(v.obj))
                      /\ \A i \in DOMAIN v.made :
                           \A n \in DOMAIN v.made[i].tx.outs :
                             \E w \in bound : w.out = OutPoint(v.made[i].tx, n - 1)
    BY Zenon DEF ProgramComplete
  <2>1. Entered(v) /\ OutputsHaveTurn(v)
    BY DEF Complete
  <2>2. program[Object[v.obj].root] = [out |-> v.out, txs |-> v.made]
    BY <2>1 DEF Entered, PathsDistinct
  <2>3. Len(v.made) = Len(Templates(v.obj))
    BY <2>1 DEF Entered
  <2>4. stack = <<>> /\ visit = NoVisit
    BY DEF Complete, Done
  <2>5. ASSUME NEW op, HasTurn(op)
        PROVE  \E w \in bound : w.out = op
    BY <2>4, <2>5 DEF HasTurn
  <2>6. ASSUME NEW i \in DOMAIN v.made, NEW n \in DOMAIN v.made[i].tx.outs
        PROVE  \E w \in bound : w.out = OutPoint(v.made[i].tx, n - 1)
    BY <2>1, <2>5, <2>6 DEF OutputsHaveTurn
  <2> QED
    BY <2>2, <2>3, <2>6
<1>2. Spec => []Complete
  BY CompleteInitially, CompleteInductive, Invariant, PTL DEF Spec
<1> QED
  BY <1>1, <1>2, PTL

(* Whatever waits to be bound has its coin in the index.                   *)
THEOREM TypeCorrect == Spec => []TypeOK
<1>1. IInv => TypeOK
  <2> SUFFICES ASSUME IInv PROVE TypeOK
    OBVIOUS
  <2>1. ASSUME NEW out \in Outs
        PROVE  \E obj : Pending(out, obj)
    BY <2>1 DEF Outs, IInv, VisitsOK, VisitOK, StackPays
  <2>2. \A out \in Outs :
          /\ out.tx \in index
          /\ out.vout + 1 \in DOMAIN out.tx.outs
               \/ (mode = "outpoint" /\ out = funding)
    BY <2>1 DEF Pending, Pays
  <2> QED
    BY <2>2 DEF IInv, Chosen, VisitsOK, TypeOK
<1> QED
  BY <1>1, Invariant, PTL
==============================================================================
