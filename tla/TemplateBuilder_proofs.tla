----------------------- MODULE TemplateBuilder_proofs -----------------------
(***************************************************************************)
(* The builder's guarantees for every choice of amounts, locks and bounds. *)
(***************************************************************************)
EXTENDS TemplateBuilder, WellFoundedInduction, TLAPS

(***************************************************************************)
(* Facts about TotalAmount, the sum over a sequence of outputs.  The sum   *)
(* is a recursive function; what it computes is derived here from the      *)
(* least element of a set of naturals, once, and cited by name afterwards. *)
(***************************************************************************)
\* outs is a sequence of records whose amount is a number of sats.
IsPriced(outs) ==
    /\ Len(outs) \in Nat
    /\ \A i \in 1..Len(outs) : outs[i].amount \in Nat

\* f is the table of running totals of the first n outputs.
IsSums(f, outs, n) ==
    /\ f \in [0..n -> Nat]
    /\ f[0] = 0
    /\ \A i \in 1..n : f[i] = f[i - 1] + outs[i].amount

\* Every nonempty set of naturals has a least element.
LEMMA LeastNat ==
    ASSUME NEW T \in SUBSET Nat, T # {}
    PROVE  \E m \in T : \A k \in T : m <= k
<1>1. PICK m \in T : \A k \in T : ~ (<<k, m>> \in OpToRel(<, Nat))
  BY NatLessThanWellFounded, WFMin, Zenon
<1>2. \A k \in T : ~ (k < m)
  BY <1>1 DEF OpToRel
<1>3. QED
  BY <1>2

\* A table of running totals exists for every prefix of the outputs.
LEMMA SumsExist ==
    ASSUME NEW outs, IsPriced(outs), NEW n \in 0..Len(outs)
    PROVE  \E f : IsSums(f, outs, n)
<1> DEFINE T == {m \in 0..Len(outs) : ~ \E f : IsSums(f, outs, m)}
<1>1. SUFFICES ASSUME T # {} PROVE FALSE
  OBVIOUS
<1>a. T \subseteq Nat
  BY DEF IsPriced
<1> HIDE DEF T
<1>2. PICK m \in T : \A k \in T : m <= k
  BY <1>1, <1>a, LeastNat
<1> USE DEF T
<1>3. m # 0
  <2>1. IsSums([i \in 0..0 |-> 0], outs, 0)
    BY DEF IsSums
  <2>2. QED
    BY <2>1, <1>2
<1>4. m - 1 \in 0..Len(outs) /\ m - 1 \notin T /\ m \in 1..Len(outs)
  BY <1>2, <1>3 DEF IsPriced
<1>5. PICK f : IsSums(f, outs, m - 1)
  BY <1>4
<1> DEFINE g == [i \in 0..m |-> IF i = m THEN f[m - 1] + outs[m].amount
                                        ELSE f[i]]
<1>6. IsSums(g, outs, m)
  <2>1. m \in Nat /\ outs[m].amount \in Nat /\ f[m - 1] \in Nat
    BY <1>4, <1>5 DEF IsSums, IsPriced
  <2>a. m \in Nat \ {0} /\ m - 1 \in 0..m
        /\ f \in [0..m - 1 -> Nat] /\ f[0] = 0
        /\ \A i \in 1..m - 1 : f[i] = f[i - 1] + outs[i].amount
    BY <1>4, <1>5 DEF IsSums
  <2>b. g[m] = f[m - 1] + outs[m].amount /\ \A i \in 0..m - 1 : i \in 0..m /\ g[i] = f[i]
    BY <2>a
  <2>c. \A i \in 0..m : i = m \/ i \in 0..m - 1
    BY <2>a
  <2>2. g \in [0..m -> Nat] /\ g[0] = 0
    <3>1. f[m - 1] + outs[m].amount \in Nat
      BY <2>1
    <3>2. \A i \in 0..m : g[i] \in Nat
      BY <2>a, <2>b, <2>c, <3>1
    <3>3. 0 \in 0..m - 1
      BY <2>a
    <3>4. g = [i \in 0..m |-> g[i]]
      OBVIOUS
    <3> HIDE DEF g
    <3>5. g \in [0..m -> Nat]
      BY <3>2, <3>4, Zenon
    <3>6. QED
      BY <2>a, <2>b, <3>3, <3>5
  <2>3. ASSUME NEW i \in 1..m PROVE g[i] = g[i - 1] + outs[i].amount
    <3>1. i - 1 \in 0..m - 1 /\ (i = m \/ (i \in 1..m - 1 /\ i \in 0..m - 1))
      BY <2>a
    <3> HIDE DEF g
    <3>2. QED
      BY <2>a, <2>b, <3>1
  <2>4. QED
    BY <2>2, <2>3 DEF IsSums
<1>7. QED
  BY <1>2, <1>6

\* PartialSums is that table: the recursion has a solution, and only one.
LEMMA PartialSumsCorrect ==
    ASSUME NEW outs, IsPriced(outs)
    PROVE  IsSums(PartialSums(outs), outs, Len(outs))
<1> DEFINE n == Len(outs)
           Rec(s) == [i \in 0..n |->
                        IF i = 0 THEN 0 ELSE s[i - 1] + outs[i].amount]
           g == PartialSums(outs)
<1>1. n \in Nat /\ n \in 0..n
  BY DEF IsPriced
<1>2. PICK f : IsSums(f, outs, n)
  BY <1>1, SumsExist
<1>3. f = Rec(f)
  <2>1. \A i \in 0..n : f[i] = Rec(f)[i]
    BY <1>1, <1>2 DEF IsSums
  <2>2. QED
    BY <1>2, <2>1 DEF IsSums
<1>4. g = Rec(g)
  <2>1. g = CHOOSE s : s = Rec(s)
    BY DEF PartialSums
  <2>2. QED
    BY <1>3, <2>1
<1>5. \A i \in 0..n : g[i] = f[i]
  <2> DEFINE T == {i \in 0..n : g[i] # f[i]}
  <2>1. SUFFICES ASSUME T # {} PROVE FALSE
    OBVIOUS
  <2>a. T \subseteq Nat
    BY <1>1
  <2> HIDE DEF T
  <2>2. PICK m \in T : \A k \in T : m <= k
    BY <2>1, <2>a, LeastNat
  <2> USE DEF T
  <2>3. g[0] = 0 /\ f[0] = 0
    BY <1>1, <1>2, <1>4 DEF IsSums
  <2>4. m \in 1..n /\ m - 1 \in 0..n /\ m - 1 \notin T
    BY <2>2, <2>3, <1>1
  <2>5. g[m] = g[m - 1] + outs[m].amount
    BY <1>1, <1>4, <2>4
  <2>6. f[m] = f[m - 1] + outs[m].amount
    BY <1>2, <2>4 DEF IsSums
  <2>7. QED
    BY <2>2, <2>4, <2>5, <2>6
<1>6. g = f
  <2>1. g = [i \in 0..n |-> g[i]]
    BY <1>4
  <2>2. f = [i \in 0..n |-> f[i]]
    BY <1>2 DEF IsSums
  <2>3. QED
    BY <2>1, <2>2, <1>5
<1>7. QED
  BY <1>2, <1>6

\* The total is a number of sats, zero for no output.
LEMMA TotalAmountType ==
    ASSUME NEW outs, IsPriced(outs)
    PROVE  TotalAmount(outs) \in Nat /\ (Len(outs) = 0 => TotalAmount(outs) = 0)
BY PartialSumsCorrect DEF TotalAmount, IsSums, IsPriced

\* One more output adds its amount to the total.
LEMMA TotalAmountAppend ==
    ASSUME NEW S, NEW outs \in Seq(S), IsPriced(outs),
           NEW o \in S, o.amount \in Nat
    PROVE  /\ IsPriced(Append(outs, o))
           /\ TotalAmount(Append(outs, o)) = TotalAmount(outs) + o.amount
<1> DEFINE more == Append(outs, o)
           n == Len(outs)
           f == PartialSums(outs)
           g == PartialSums(more)
<1>1. /\ n \in Nat /\ Len(more) = n + 1 /\ more[n + 1] = o
      /\ \A i \in 1..n : more[i] = outs[i]
  OBVIOUS
<1>2. IsPriced(more)
  BY <1>1 DEF IsPriced
<1>3. IsSums(f, outs, n) /\ IsSums(g, more, n + 1)
  BY <1>1, <1>2, PartialSumsCorrect
<1>4. \A i \in 0..n : g[i] = f[i]
  <2> DEFINE T == {i \in 0..n : g[i] # f[i]}
  <2>1. SUFFICES ASSUME T # {} PROVE FALSE
    OBVIOUS
  <2>a. T \subseteq Nat
    BY <1>1
  <2> HIDE DEF T
  <2>2. PICK m \in T : \A k \in T : m <= k
    BY <2>1, <2>a, LeastNat
  <2> USE DEF T
  <2>3. m # 0
    BY <2>2, <1>3 DEF IsSums
  <2>4. m \in 1..n /\ m - 1 \in 0..n /\ m - 1 \notin T
    BY <2>2, <2>3, <1>1
  <2>5. g[m] = g[m - 1] + outs[m].amount /\ f[m] = f[m - 1] + outs[m].amount
    BY <1>1, <1>3, <2>4 DEF IsSums
  <2>6. QED
    BY <2>2, <2>4, <2>5
<1>5. g[n + 1] = g[n] + o.amount
  BY <1>1, <1>3 DEF IsSums
<1>6. QED
  BY <1>1, <1>2, <1>4, <1>5 DEF TotalAmount

\* The total covers each output.
LEMMA TotalAmountCovers ==
    ASSUME NEW outs, IsPriced(outs), NEW i \in 1..Len(outs)
    PROVE  outs[i].amount <= TotalAmount(outs)
<1> DEFINE n == Len(outs)
           f == PartialSums(outs)
           T == {k \in i..n : f[k] < outs[i].amount}
<1>1. n \in Nat /\ IsSums(f, outs, n) /\ n \in i..n
  BY PartialSumsCorrect DEF IsPriced
<1>2. T = {}
  <2>1. SUFFICES ASSUME T # {} PROVE FALSE
    OBVIOUS
  <2>a. T \subseteq Nat
    BY <1>1
  <2> HIDE DEF T
  <2>2. PICK m \in T : \A k \in T : m <= k
    BY <2>1, <2>a, LeastNat
  <2> USE DEF T
  <2>b. m \in 1..n /\ m - 1 \in 0..n
    BY <1>1, <2>2
  <2>3. f[m] = f[m - 1] + outs[m].amount /\ f[m - 1] \in Nat
        /\ outs[m].amount \in Nat /\ outs[i].amount \in Nat
    BY <1>1, <2>b DEF IsSums, IsPriced
  <2>4. m # i
    BY <2>2, <2>3
  <2>5. m - 1 \in i..n /\ m - 1 \notin T
    BY <2>2, <2>4, <1>1
  <2>6. f[m] < outs[i].amount /\ ~ (f[m - 1] < outs[i].amount)
    BY <2>2, <2>5
  <2>7. QED
    BY <2>3, <2>6
<1>3. ~ (f[n] < outs[i].amount)
  <2> HIDE DEF f
  <2>1. QED
    BY <1>1, <1>2
<1>4. f[n] \in Nat /\ outs[i].amount \in Nat
  BY <1>1 DEF IsSums, IsPriced
<1>5. outs[i].amount <= f[n]
  <2> HIDE DEF f
  <2>1. QED
    BY <1>3, <1>4
<1>6. QED
  BY <1>5, Zenon DEF TotalAmount

-----------------------------------------------------------------------------
\* TypeOK alone is not enough for the theorems on money and paths: they also
\* rest on where each output's branch number comes from and on what the
\* finished template copied from the builder.
BranchesNumbered ==
    /\ taken \subseteq derived
    /\ \A i \in DOMAIN outputs :
         outputs[i].branch = i - 1 /\ i - 1 \in derived \ taken

TemplateCopied ==
    mode = "template" =>
        /\ template.max = TotalAmount(outputs) + fees
        /\ template.outputs = outputs

IInv ==
    /\ TypeOK
    /\ FundsConserved
    /\ BranchesNumbered
    /\ TemplateCopied

\* Well-typed outputs have a total.
LEMMA OutputsPriced ==
    ASSUME TypeOK
    PROVE  IsPriced(outputs) /\ TotalAmount(outputs) \in Nat
<1>1. IsPriced(outputs)
  <2>1. Len(outputs) \in Nat /\ \A i \in 1..Len(outputs) : outputs[i] \in OutputRec
    BY DEF TypeOK
  <2>2. QED
    BY <2>1 DEF OutputRec, IsPriced
<1>2. QED
  BY <1>1, TotalAmountType

\* Merging keeps a lock a lock of the kinds it belongs to.
LEMMA MergedType ==
    ASSUME NEW K, "None" \notin K, NEW old \in MaybeLock(K), NEW new \in Lock(K)
    PROVE  Merged(old, new) \in MaybeLock(K)
BY DEF Merged, MaybeLock, Lock, None, Larger

\* Every step keeps every variable in its type.
LEMMA TypeStep ==
    ASSUME TypeOK, [Next]_vars
    PROVE  TypeOK'
<1> USE AmountsAssumption, LocksAssumption
<1>1. ASSUME NEW a \in Amounts, AddOutput(a) PROVE TypeOK'
  <2>1. [amount |-> a, branch |-> Len(outputs)] \in OutputRec
    BY DEF TypeOK, OutputRec
  <2>2. outputs' \in Seq(OutputRec)
    BY <1>1, <2>1 DEF AddOutput, TypeOK
  <2>3. Len(outputs) \in Nat
    BY DEF TypeOK
  <2>4. avail' \in Nat
    BY <1>1 DEF AddOutput, TypeOK
  <2>5. derived' \subseteq Nat
    <3>1. derived' = derived \cup {Len(outputs)}
      BY <1>1 DEF AddOutput
    <3>2. QED
      BY <2>3, <3>1 DEF TypeOK
  <2>6. QED
    BY <1>1, <2>2, <2>4, <2>5
       DEF AddOutput, Building, TypeOK, ctxVars, lockVars, historyVars
<1>2. ASSUME NEW e, Open, Fail(e) PROVE TypeOK'
  BY <1>2 DEF Fail, Open, TypeOK, ctxVars, lockVars, historyVars
<1>3. ASSUME NEW a \in Amounts, AddAmount(a) PROVE TypeOK'
  BY <1>3 DEF AddAmount, TypeOK, ctxVars, lockVars, historyVars
<1>4. ASSUME NEW a \in Amounts, SpendAmount(a) PROVE TypeOK'
  BY <1>4 DEF SpendAmount, TypeOK, ctxVars, lockVars, historyVars
<1>5. ASSUME NEW a \in Amounts, AddFees(a) PROVE TypeOK'
  BY <1>5 DEF AddFees, TypeOK, ctxVars, lockVars, historyVars
<1>6. ASSUME NEW a \in Amounts, SetMinFeerate(a) PROVE TypeOK'
  BY <1>6 DEF SetMinFeerate, Smaller, Feerate, NoFeerate, TypeOK, ctxVars,
              lockVars, historyVars
<1>7. ASSUME AddSequence PROVE TypeOK'
  BY <1>7 DEF AddSequence, MaybeLock, TypeOK, ctxVars, historyVars
<1>8. ASSUME NEW ii \in Indices, NEW s \in RelLocks, SetSequence(ii, s)
      PROVE  TypeOK'
  <2>1. Merged(sequences[Position(ii)], s) \in MaybeLock({"RH", "RT"})
    BY <1>8, MergedType DEF SetSequence, TypeOK
  <2>2. sequences' \in Seq(MaybeLock({"RH", "RT"}))
        /\ Len(sequences') = Len(sequences)
    BY <1>8, <2>1 DEF SetSequence, TypeOK
  <2>3. QED
    BY <1>8, <2>2 DEF SetSequence, TypeOK, ctxVars, historyVars
<1>9. ASSUME NEW ii \in Indices, NEW p \in Protocols, AddSimpForInput(ii, p)
      PROVE  TypeOK'
  BY <1>9 DEF AddSimpForInput, TypeOK, ctxVars, historyVars
<1>10. ASSUME NEW l \in AbsLocks, SetLockTime(l) PROVE TypeOK'
  <2>1. Merged(lockTime, l) \in MaybeLock({"AH", "AT"})
    BY MergedType DEF TypeOK
  <2>2. QED
    BY <1>10, <2>1 DEF SetLockTime, TypeOK, ctxVars, historyVars
<1>11. ASSUME NEW g \in Clauses, AddGuard(g) PROVE TypeOK'
  BY <1>11 DEF AddGuard, TypeOK, ctxVars, lockVars, historyVars
<1>12. ASSUME Finish PROVE TypeOK'
  BY <1>12 DEF Finish, TypeOK, ctxVars, lockVars, historyVars
<1>13. CASE UNCHANGED vars
  BY <1>13 DEF vars, TypeOK, ctxVars, lockVars, historyVars
<1>14. ASSUME NEW a \in Amounts, AddOutputFails(a) PROVE TypeOK'
  <2>1. Open
    BY <1>14 DEF AddOutputFails, Building, Open
  <2>2. PICK e : Fail(e)
    BY <1>14, Zenon DEF AddOutputFails
  <2>3. QED
    BY <1>2, <2>1, <2>2
<1>15. ASSUME NEW a \in Amounts, DebitFails(a) PROVE TypeOK'
  BY <1>2, <1>15 DEF DebitFails
<1>16. ASSUME NEW ii \in Indices, NEW s \in RelLocks, SetSequenceFails(ii, s)
       PROVE  TypeOK'
  BY <1>2, <1>16 DEF SetSequenceFails, Building, Open
<1>17. ASSUME NEW ii \in Indices, NEW p \in Protocols,
              AddSimpForInputFails(ii, p)
       PROVE  TypeOK'
  BY <1>2, <1>17 DEF AddSimpForInputFails, Building, Open
<1>18. ASSUME NEW l \in AbsLocks, SetLockTimeFails(l) PROVE TypeOK'
  BY <1>2, <1>18 DEF SetLockTimeFails, Building, Open
<1>19. QED
  BY <1>1, <1>3, <1>4, <1>5, <1>6, <1>7, <1>8, <1>9, <1>10, <1>11, <1>12,
     <1>13, <1>14, <1>15, <1>16, <1>17, <1>18 DEF Next

\* The initial builder satisfies the whole invariant.
LEMMA InitInv ==
    ASSUME Init
    PROVE  IInv
<1> USE AmountsAssumption, LocksAssumption
<1>1. TypeOK
  BY DEF Init, TypeOK, MaybeLock, None, Feerate, NoFeerate
<1>2. TotalAmount(outputs) = 0
  BY <1>1, OutputsPriced, TotalAmountType DEF Init
<1>3. FundsConserved
  BY <1>1, <1>2 DEF Init, FundsConserved, TypeOK
<1>4. BranchesNumbered /\ TemplateCopied
  BY DEF Init, BranchesNumbered, TemplateCopied
<1>5. QED
  BY <1>1, <1>3, <1>4 DEF IInv

\* How a step can touch the money: an output, a top-up, a debit, or not.
PaysOutput ==
    /\ \E a \in Nat :
         /\ avail >= a /\ avail' = avail - a
         /\ outputs' = Append(outputs, [amount |-> a, branch |-> Len(outputs)])
         /\ Len(outputs) \notin derived
         /\ derived' = derived \cup {Len(outputs)}
    /\ UNCHANGED <<fees, spent, funded>>

TopsUp ==
    /\ \E a \in Nat : avail' = avail + a /\ funded' = funded + a
    /\ UNCHANGED <<outputs, derived, fees, spent>>

Debits ==
    /\ \E a \in Nat :
         /\ avail >= a /\ avail' = avail - a
         /\ \/ spent' = spent + a /\ UNCHANGED fees
            \/ fees' = fees + a /\ UNCHANGED spent
    /\ UNCHANGED <<outputs, derived, funded>>

LeavesMoney == UNCHANGED <<avail, outputs, derived, fees, spent, funded>>

MoneyStep == PaysOutput \/ TopsUp \/ Debits \/ LeavesMoney

\* Every step is one of those four, and none changes what was derived before
\* the builder existed.
LEMMA StepIsMoneyStep ==
    ASSUME [Next]_vars
    PROVE  MoneyStep /\ taken' = taken
<1> USE AmountsAssumption DEF MoneyStep, PaysOutput, TopsUp, Debits, LeavesMoney,
                              historyVars, ctxVars
<1>1. ASSUME NEW a \in Amounts, AddOutput(a) PROVE MoneyStep /\ taken' = taken
  BY <1>1 DEF AddOutput
<1>2. ASSUME NEW e, Fail(e) PROVE MoneyStep /\ taken' = taken
  BY <1>2 DEF Fail
<1>3. ASSUME NEW a \in Amounts, AddAmount(a) PROVE MoneyStep /\ taken' = taken
  BY <1>3 DEF AddAmount
<1>4. ASSUME NEW a \in Amounts, SpendAmount(a)
      PROVE  MoneyStep /\ taken' = taken
  BY <1>4 DEF SpendAmount
<1>5. ASSUME NEW a \in Amounts, AddFees(a) PROVE MoneyStep /\ taken' = taken
  BY <1>5 DEF AddFees
<1>6. ASSUME \/ \E a \in Amounts : SetMinFeerate(a)
             \/ AddSequence
             \/ \E ii \in Indices, s \in RelLocks : SetSequence(ii, s)
             \/ \E ii \in Indices, p \in Protocols : AddSimpForInput(ii, p)
             \/ \E l \in AbsLocks : SetLockTime(l)
             \/ \E g \in Clauses : AddGuard(g)
             \/ Finish
             \/ UNCHANGED vars
      PROVE  UNCHANGED <<avail, outputs, derived, fees, spent, funded, taken>>
  BY <1>6 DEF SetMinFeerate, AddSequence, SetSequence, AddSimpForInput,
              SetLockTime, AddGuard, Finish, vars
<1>7. ASSUME \/ \E a \in Amounts : AddOutputFails(a) \/ DebitFails(a)
             \/ \E ii \in Indices, s \in RelLocks : SetSequenceFails(ii, s)
             \/ \E ii \in Indices, p \in Protocols :
                   AddSimpForInputFails(ii, p)
             \/ \E l \in AbsLocks : SetLockTimeFails(l)
      PROVE  \E e : Fail(e)
  BY <1>7, Zenon DEF AddOutputFails, DebitFails, SetSequenceFails,
                     AddSimpForInputFails, SetLockTimeFails
<1>8. QED
  BY <1>1, <1>2, <1>3, <1>4, <1>5, <1>6, <1>7 DEF Next

\* The money a step moves leaves one pocket for another.
LEMMA ConservationStep ==
    ASSUME TypeOK, FundsConserved, MoneyStep
    PROVE  FundsConserved'
<1>1. IsPriced(outputs) /\ TotalAmount(outputs) \in Nat
  BY OutputsPriced
<1>2. avail \in Nat /\ fees \in Nat /\ spent \in Nat /\ funded \in Nat
  BY DEF TypeOK
<1>3. avail + TotalAmount(outputs) + fees + spent = funded
  BY DEF FundsConserved
<1>4. CASE PaysOutput
  <2>1. PICK a \in Nat :
          /\ avail' = avail - a
          /\ outputs' = Append(outputs, [amount |-> a, branch |-> Len(outputs)])
    BY <1>4 DEF PaysOutput
  <2>2. [amount |-> a, branch |-> Len(outputs)] \in OutputRec
        /\ outputs \in Seq(OutputRec)
    BY DEF OutputRec, TypeOK
  <2>3. TotalAmount(outputs') = TotalAmount(outputs) + a
    BY <1>1, <2>1, <2>2, TotalAmountAppend
  <2>4. fees' = fees /\ spent' = spent /\ funded' = funded
    BY <1>4 DEF PaysOutput
  <2>5. avail' + TotalAmount(outputs') + fees' + spent' = funded'
    BY <1>1, <1>2, <1>3, <2>1, <2>3, <2>4
  <2>6. QED
    BY <2>5 DEF FundsConserved
<1>5. CASE TopsUp
  <2>1. outputs' = outputs /\ fees' = fees /\ spent' = spent
        /\ \E a \in Nat : avail' = avail + a /\ funded' = funded + a
    BY <1>5 DEF TopsUp
  <2>2. avail' + TotalAmount(outputs') + fees' + spent' = funded'
    BY <1>1, <1>2, <1>3, <2>1
  <2>3. QED
    BY <2>2 DEF FundsConserved
<1>6. CASE Debits
  <2>1. outputs' = outputs /\ funded' = funded
    BY <1>6 DEF Debits
  <2>2. PICK a \in Nat :
          /\ avail' = avail - a
          /\ \/ spent' = spent + a /\ fees' = fees
             \/ fees' = fees + a /\ spent' = spent
    BY <1>6 DEF Debits
  <2>3. CASE spent' = spent + a /\ fees' = fees
    <3>1. avail' + TotalAmount(outputs') + fees' + spent' = funded'
      BY <1>1, <1>2, <1>3, <2>1, <2>2, <2>3
    <3>2. QED
      BY <3>1 DEF FundsConserved
  <2>4. CASE fees' = fees + a /\ spent' = spent
    <3>1. avail' + TotalAmount(outputs') + fees' + spent' = funded'
      BY <1>1, <1>2, <1>3, <2>1, <2>2, <2>4
    <3>2. QED
      BY <3>1 DEF FundsConserved
  <2>5. QED
    BY <2>2, <2>3, <2>4
<1>7. CASE LeavesMoney
  BY <1>3, <1>7 DEF LeavesMoney, FundsConserved
<1>8. QED
  BY <1>4, <1>5, <1>6, <1>7 DEF MoneyStep

\* A new output gets the next branch, which nobody had derived.
LEMMA BranchStep ==
    ASSUME TypeOK, BranchesNumbered, MoneyStep, taken' = taken
    PROVE  BranchesNumbered'
<1>1. CASE PaysOutput
  <2> DEFINE n == Len(outputs)
  <2>1. PICK a \in Nat :
          /\ outputs' = Append(outputs, [amount |-> a, branch |-> n])
          /\ n \notin derived /\ derived' = derived \cup {n}
    BY <1>1 DEF PaysOutput
  <2>2. n \in Nat /\ DOMAIN outputs = 1..n /\ DOMAIN outputs' = 1..(n + 1)
    BY <2>1 DEF TypeOK
  <2>3. outputs'[n + 1].branch = n
        /\ \A i \in 1..n : outputs'[i] = outputs[i]
    BY <2>1, <2>2 DEF TypeOK
  <2>4. n \notin taken
    BY <2>1 DEF BranchesNumbered
  <2>5. taken' \subseteq derived'
    BY <2>1 DEF BranchesNumbered
  <2>6. ASSUME NEW i \in 1..(n + 1)
        PROVE  outputs'[i].branch = i - 1 /\ i - 1 \in derived' \ taken
    <3>1. CASE i = n + 1
      BY <2>1, <2>2, <2>3, <2>4, <3>1
    <3>2. CASE i \in 1..n
      BY <2>1, <2>2, <2>3, <3>2 DEF BranchesNumbered
    <3>3. QED
      BY <2>2, <3>1, <3>2
  <2>7. QED
    BY <2>2, <2>5, <2>6 DEF BranchesNumbered
<1>2. CASE TopsUp \/ Debits \/ LeavesMoney
  BY <1>2 DEF TopsUp, Debits, LeavesMoney, BranchesNumbered
<1>3. QED
  BY <1>1, <1>2 DEF MoneyStep

\* Only Finish makes a template, and nothing changes the builder afterwards.
LEMMA TemplateStep ==
    ASSUME TypeOK, TemplateCopied, [Next]_vars
    PROVE  TemplateCopied'
<1>1. CASE mode = "template"
  <2>1. UNCHANGED vars
    BY <1>1, Zenon DEF Next, AddOutput, AddOutputFails, AddAmount, AddSequence,
           SetSequence, SetSequenceFails, AddSimpForInput,
           AddSimpForInputFails, SetLockTime, SetLockTimeFails, AddGuard,
           SpendAmount, AddFees, DebitFails, SetMinFeerate, Finish, Building,
           Open
  <2>2. QED
    BY <2>1 DEF vars, TemplateCopied
<1>2. CASE mode # "template" /\ ~Finish
  <2>1. mode' # "template"
    BY <1>2 DEF Next, AddOutput, AddOutputFails, AddAmount, AddSequence,
           SetSequence, SetSequenceFails, AddSimpForInput,
           AddSimpForInputFails, SetLockTime, SetLockTimeFails, AddGuard,
           SpendAmount, AddFees, DebitFails, SetMinFeerate, Fail, vars
  <2>2. QED
    BY <2>1 DEF TemplateCopied
<1>3. CASE Finish
  BY <1>3 DEF Finish, TemplateCopied
<1>4. QED
  BY <1>1, <1>2, <1>3

\* The whole invariant is inductive.
LEMMA Inductive ==
    IInv /\ [Next]_vars => IInv'
<1>1. SUFFICES ASSUME IInv, [Next]_vars PROVE IInv'
  OBVIOUS
<1>2. TypeOK'
  BY <1>1, TypeStep DEF IInv
<1>3. MoneyStep /\ taken' = taken
  BY <1>1, StepIsMoneyStep
<1>4. FundsConserved'
  BY <1>1, <1>3, ConservationStep DEF IInv
<1>5. BranchesNumbered'
  BY <1>1, <1>3, BranchStep DEF IInv
<1>6. TemplateCopied'
  BY <1>1, TemplateStep DEF IInv
<1>7. QED
  BY <1>2, <1>4, <1>5, <1>6 DEF IInv

LEMMA Invariance == Spec => []IInv
<1>1. Init => IInv
  BY InitInv
<1>2. QED
  BY <1>1, Inductive, PTL DEF Spec

\* Every reachable builder has the types of its fields.
THEOREM TypeCorrect == Spec => []TypeOK
<1>1. IInv => TypeOK
  BY DEF IInv
<1>2. QED
  BY <1>1, Invariance, PTL

\* For every set of amounts and every bound, building a template neither
\* creates nor loses a sat.
THEOREM Conservation == Spec => []FundsConserved
<1>1. IInv => FundsConserved
  BY DEF IInv
<1>2. QED
  BY <1>1, Invariance, PTL

\* A finished template never asks for more than its context held, and its max
\* covers each of its outputs.
THEOREM TemplateIsFunded == Spec => []TemplateFunded
<1>1. ASSUME IInv PROVE TemplateFunded
  <2>1. SUFFICES ASSUME mode = "template"
        PROVE  /\ template.max + avail + spent = funded
               /\ \A i \in DOMAIN outputs : outputs[i].amount <= template.max
    BY <1>1 DEF TemplateFunded, IInv, TemplateCopied
  <2>2. IsPriced(outputs) /\ TotalAmount(outputs) \in Nat
    BY <1>1, OutputsPriced DEF IInv
  <2>3. template.max = TotalAmount(outputs) + fees
    BY <1>1, <2>1 DEF IInv, TemplateCopied
  <2>4. avail \in Nat /\ fees \in Nat /\ spent \in Nat /\ funded \in Nat
        /\ avail + TotalAmount(outputs) + fees + spent = funded
    BY <1>1 DEF IInv, TypeOK, FundsConserved
  <2>5. template.max + avail + spent = funded
    BY <2>2, <2>3, <2>4
  <2>6. ASSUME NEW i \in DOMAIN outputs
        PROVE  outputs[i].amount <= template.max
    <3>1. i \in 1..Len(outputs)
      BY <1>1 DEF IInv, TypeOK
    <3>2. outputs[i].amount \in Nat /\ outputs[i].amount <= TotalAmount(outputs)
      BY <2>2, <3>1, TotalAmountCovers DEF IsPriced
    <3>3. QED
      BY <2>2, <2>3, <2>4, <3>2
  <2>7. QED
    BY <2>5, <2>6
<1>2. QED
  BY <1>1, Invariance, PTL

\* The contexts given to the outputs' contracts are never handed out twice.
THEOREM ChildPaths == Spec => []ChildPathsFresh
<1>1. ASSUME IInv PROVE ChildPathsFresh
  <2>1. DOMAIN outputs \subseteq Nat
    BY <1>1 DEF IInv, TypeOK
  <2>2. QED
    BY <1>1, <2>1 DEF IInv, BranchesNumbered, ChildPathsFresh
<1>2. QED
  BY <1>1, Invariance, PTL

\* A merge only ever extends the lock it starts from.
LEMMA MergedExtends ==
    ASSUME NEW K, NEW old \in MaybeLock(K), NEW new \in Lock(K),
           SameKind(old, new)
    PROVE  LockExtended(old, Merged(old, new))
BY DEF Merged, SameKind, LockExtended, MaybeLock, Lock, None, Larger

\* A lock left alone is extended, trivially.
LEMMA LockExtendedReflexive ==
    ASSUME NEW K, NEW l \in MaybeLock(K)
    PROVE  LockExtended(l, l)
BY DEF LockExtended, MaybeLock, Lock, None

\* No sequence of calls weakens a lock the template already carries.
THEOREM LocksExtend == Spec => LocksNeverWeaken
<1> USE LocksAssumption
<1> DEFINE Ext == /\ LockExtended(lockTime, lockTime')
                  /\ Len(sequences) <= Len(sequences')
                  /\ \A i \in DOMAIN sequences :
                       LockExtended(sequences[i], sequences'[i])
<1>1. ASSUME TypeOK, [Next]_vars PROVE Ext
  <2>1. /\ Len(sequences) \in Nat
        /\ DOMAIN sequences = 1..Len(sequences)
        /\ \A i \in DOMAIN sequences :
             sequences[i] \in MaybeLock({"RH", "RT"})
    BY <1>1 DEF TypeOK
  <2>2. ASSUME sequences' = sequences PROVE
          /\ Len(sequences) <= Len(sequences')
          /\ \A i \in DOMAIN sequences :
               LockExtended(sequences[i], sequences'[i])
    BY <2>1, <2>2, LockExtendedReflexive
  <2>3. ASSUME lockTime' = lockTime PROVE LockExtended(lockTime, lockTime')
    BY <1>1, <2>3, LockExtendedReflexive DEF TypeOK
  <2>4. CASE AddSequence
    <3>1. lockTime' = lockTime /\ sequences' = Append(sequences, None)
      BY <2>4 DEF AddSequence
    <3>2. /\ Len(sequences') = Len(sequences) + 1
          /\ \A i \in DOMAIN sequences : sequences'[i] = sequences[i]
      BY <1>1, <2>1, <3>1 DEF TypeOK
    <3>3. \A i \in DOMAIN sequences :
            LockExtended(sequences[i], sequences'[i])
      BY <2>1, <3>2, LockExtendedReflexive
    <3>4. QED
      BY <2>1, <2>3, <3>1, <3>2, <3>3
  <2>5. ASSUME NEW ii \in Indices, NEW s \in RelLocks, SetSequence(ii, s)
        PROVE  Ext
    <3> DEFINE p == Position(ii)
    <3>1. /\ p \in DOMAIN sequences /\ SameKind(sequences[p], s)
          /\ sequences' = [sequences EXCEPT ![p] = Merged(sequences[p], s)]
          /\ lockTime' = lockTime
      BY <2>5 DEF SetSequence
    <3>2. LockExtended(sequences[p], Merged(sequences[p], s))
      BY <2>1, <3>1, MergedExtends
    <3>3. Len(sequences') = Len(sequences)
      BY <1>1, <3>1 DEF TypeOK
    <3>4. ASSUME NEW i \in DOMAIN sequences
          PROVE  LockExtended(sequences[i], sequences'[i])
      BY <1>1, <2>1, <3>1, <3>2, LockExtendedReflexive DEF TypeOK
    <3>5. QED
      BY <2>1, <2>3, <3>1, <3>3, <3>4
  <2>6. ASSUME NEW l \in AbsLocks, SetLockTime(l) PROVE Ext
    <3>1. LockExtended(lockTime, Merged(lockTime, l))
      BY <1>1, <2>6, MergedExtends DEF SetLockTime, TypeOK
    <3>2. QED
      BY <2>2, <2>6, <3>1 DEF SetLockTime
  <2>7. ASSUME UNCHANGED <<sequences, lockTime>> PROVE Ext
    BY <2>2, <2>3, <2>7
  <2>8. \/ AddSequence
        \/ \E ii \in Indices, s \in RelLocks : SetSequence(ii, s)
        \/ \E l \in AbsLocks : SetLockTime(l)
        \/ UNCHANGED <<sequences, lockTime>>
    BY <1>1 DEF Next, AddOutput, AddOutputFails, AddAmount, SetSequenceFails,
           AddSimpForInput, AddSimpForInputFails, SetLockTimeFails, AddGuard,
           SpendAmount, AddFees, DebitFails, SetMinFeerate, Finish, Fail,
           lockVars, vars
  <2>9. QED
    BY <2>4, <2>5, <2>6, <2>7, <2>8
<1>2. TypeOK /\ [Next]_vars => [Ext]_vars
  BY <1>1
<1>3. QED
  BY <1>2, TypeCorrect, PTL DEF Spec, LocksNeverWeaken

\* The builder implements the purse: its initial states are a purse's, and
\* each of its steps deposits, withdraws what the purse holds, or stutters.
THEOREM RefinesPurse == Spec => PurseSpec
<1>1. ASSUME Init PROVE Purse!Init
  <2>1. IInv
    BY <1>1, InitInv
  <2>2. TotalAmount(outputs) \in Nat /\ IsPriced(outputs)
    BY <2>1, OutputsPriced DEF IInv
  <2>3. TotalAmount(outputs) = 0
    BY <1>1, <2>2, TotalAmountType DEF Init
  <2>4. QED
    BY <1>1, <2>1, <2>3 DEF Init, Purse!Init, IInv, TypeOK
<1>2. ASSUME IInv, [Next]_vars PROVE [Purse!Next]_(Purse!ledger)
  <2> DEFINE t == TotalAmount(outputs)
  <2>1. MoneyStep
    BY <1>2, StepIsMoneyStep
  <2>2. IsPriced(outputs) /\ t \in Nat
    BY <1>2, OutputsPriced DEF IInv
  <2>3. avail \in Nat /\ fees \in Nat /\ spent \in Nat /\ funded \in Nat
    BY <1>2 DEF IInv, TypeOK
  <2>4. CASE PaysOutput
    <3>1. PICK a \in Nat :
            /\ avail >= a /\ avail' = avail - a
            /\ outputs' = Append(outputs,
                                 [amount |-> a, branch |-> Len(outputs)])
      BY <2>4 DEF PaysOutput
    <3>2. [amount |-> a, branch |-> Len(outputs)] \in OutputRec
          /\ outputs \in Seq(OutputRec)
      BY <1>2 DEF OutputRec, IInv, TypeOK
    <3>3. TotalAmount(outputs') = t + a
      BY <2>2, <3>1, <3>2, TotalAmountAppend
    <3>4. fees' = fees /\ spent' = spent /\ funded' = funded
      BY <2>4 DEF PaysOutput
    <3>5. TotalAmount(outputs') + fees' + spent' = (t + fees + spent) + a
      BY <2>2, <2>3, <3>1, <3>3, <3>4
    <3>6. Purse!Withdraw
      BY <2>3, <3>1, <3>4, <3>5 DEF Purse!Withdraw
    <3>7. QED
      BY <3>6 DEF Purse!Next
  <2>5. CASE TopsUp
    <3>1. Purse!Deposit
      BY <2>3, <2>5 DEF TopsUp, Purse!Deposit
    <3>2. QED
      BY <3>1 DEF Purse!Next
  <2>6. CASE Debits
    <3>1. outputs' = outputs /\ funded' = funded
      BY <2>6 DEF Debits
    <3>2. PICK a \in Nat :
            /\ avail >= a /\ avail' = avail - a
            /\ \/ spent' = spent + a /\ fees' = fees
               \/ fees' = fees + a /\ spent' = spent
      BY <2>6 DEF Debits
    <3>3. TotalAmount(outputs') + fees' + spent' = (t + fees + spent) + a
      BY <2>2, <2>3, <3>1, <3>2
    <3>4. Purse!Withdraw
      BY <2>3, <3>1, <3>2, <3>3 DEF Purse!Withdraw
    <3>5. QED
      BY <3>4 DEF Purse!Next
  <2>7. CASE LeavesMoney
    BY <2>7 DEF LeavesMoney, Purse!ledger
  <2>8. QED
    BY <2>1, <2>4, <2>5, <2>6, <2>7 DEF MoneyStep
<1>3. QED
  BY <1>1, <1>2, Invariance, PTL DEF Spec, PurseSpec, Purse!Spec
=============================================================================
