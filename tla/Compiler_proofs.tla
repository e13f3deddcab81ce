--------------------------- MODULE Compiler_proofs ---------------------------
(***************************************************************************)
(* Theorems about compilation, for any contracts, names, conditions,       *)
(* guards, templates and effects: what a compiled descriptor lets one do,  *)
(* how conditions are merged, and that the expect()s of compile hold.      *)
(***************************************************************************)
EXTENDS Compiler, WellFoundedInduction, TLAPS

(* Whoever compiles is at work, or has a result.                           *)
Live == pc \notin {"failed", "spinning", "panic"}
InStage == pc \in {"cond", "guard", "call", "insert"}

(* A clause of guards: no way to satisfy it names a template.              *)
IsPlain(clause) == \A i \in DOMAIN clause : \A a \in clause[i] : a[1] # "ctv"

Shape ==
    /\ contract \in Contracts
    /\ IsSeq(names) /\ IsSeq(txs) /\ IsSeq(txClauses)
    /\ IsSeq(leaves) /\ IsSeq(finishLeaves) /\ IsSeq(guard) /\ IsPlain(guard)
    /\ idx \in Nat \ {0}
    /\ pc = "ensure" => idx = 1 /\ names = <<>>
    /\ pc = "name" => idx = Len(names) + 1 /\ Len(names) <= Len(contract.funcs)
    /\ InStage => Len(names) = idx /\ idx \in DOMAIN contract.funcs
    /\ pc \in {"finish", "done"} => Len(names) = Len(contract.funcs)
    /\ pc \in {"ensure", "name", "cond", "guard"} => txs = <<>>
    /\ pc \in {"ensure", "name", "cond", "guard", "call"} => txClauses = <<>>

CondCall(i) == <<"cond", i>>
Decision(i) == Assemble(answers[CondCall(i)])
IsKept(d) == d \in {"Required", "NoConstraint", "Nullable"}

(* What was answered, in either pass, and what is cached of it.            *)
AnswersOK ==
    /\ <<"ensure">> \in DOMAIN answers => answers[<<"ensure">>] \in Amounts \cup {-1}
    /\ \A i \in Functions : CondCall(i) \in DOMAIN answers =>
         answers[CondCall(i)] \in [1..Len(contract.funcs[i].conds) -> CondTypes]
    /\ \A i, e : <<"call", i, e>> \in DOMAIN answers =>
         answers[<<"call", i, e>>] \in TemplateLists
    /\ \A g \in DOMAIN cache :
         /\ contract.guardKind[g] = "Cache"
         /\ <<"guard", g, Root>> \in DOMAIN answers
         /\ answers[<<"guard", g, Root>>] = cache[g]
    /\ \A i \in Functions : Called(i) => /\ CondCall(i) \in DOMAIN answers
                                         /\ IsKept(Decision(i))

(* A way to spend that a called function gives, and one a finish gives.    *)
GuardCall(g, at) ==
    <<"guard", g, IF contract.guardKind[g] = "Cache" THEN Root ELSE at>>
GuardAt(i) == Append(ActionPath(names[i]), "Guard")
GuardKnown(i) ==
    contract.funcs[i].guards = <<>>
      \/ GuardCall(contract.funcs[i].guards[1], GuardAt(i)) \in DOMAIN answers

LicensedBy(i, way) ==
    /\ i \in DOMAIN names /\ i \in Functions /\ Called(i) /\ GuardKnown(i)
    /\ IF contract.funcs[i].kind = "then"
       THEN \E w \in Ways(GuardOf(i)), t \in Returned(i) : w \cup {CTV(t.hash)} \subseteq way
       ELSE way \in Ways(GuardOf(i))

LicensedByFinish(j, way) ==
    /\ j \in DOMAIN contract.finishes
    /\ GuardCall(contract.finishes[j], FinishCtx(j)) \in DOMAIN answers
    /\ way \in Ways(GuardAnswer(contract.finishes[j], FinishCtx(j)))

LeavesOK ==
    /\ \A l \in DOMAIN leaves : \A way \in Ways(leaves[l]) : \E i : LicensedBy(i, way)
    /\ \A l \in DOMAIN finishLeaves : \A way \in Ways(finishLeaves[l]) :
         \E j : LicensedByFinish(j, way)

(* The function at hand: its conditions keep it, its guard is what it      *)
(* answered, and what it returned is in txs until it has been inserted.    *)
InTxs(t) == \E n \in DOMAIN txs : txs[n] = t

Working ==
    /\ \A n \in DOMAIN txs : txs[n] \in Templates
    /\ pc \in {"guard", "call", "insert"} =>
         /\ CondCall(idx) \in DOMAIN answers /\ IsKept(Decision(idx))
         /\ nullable = (Decision(idx) = "Nullable")
    /\ pc \in {"call", "insert"} => GuardKnown(idx) /\ guard = GuardOf(idx)
    /\ pc = "call" =>
         /\ calls \subseteq Calls(Func, names[idx]) /\ calls # {}
         /\ 0 \in calls \/ Called(idx)
         /\ \A n \in Calls(Func, names[idx]) \ calls :
              /\ <<"call", idx, Effect(n)>> \in DOMAIN answers
              /\ \A m \in DOMAIN answers[<<"call", idx, Effect(n)>>] :
                   InTxs(answers[<<"call", idx, Effect(n)>>][m])
         /\ IsThen => txs = <<>>
    /\ pc = "insert" =>
         /\ Called(idx) /\ Asked(idx) \subseteq DOMAIN answers
         /\ IsThen =>
              /\ \A n \in DOMAIN txs : txs[n] \in Returned(idx)
              /\ \A x \in DOMAIN txClauses :
                   \E t \in Returned(idx) : CTV(t.hash) \in txClauses[x]
         /\ ~IsThen =>
              /\ txClauses = <<>>
              /\ \A t \in Returned(idx) : InTxs(t) \/ t.hash \in DOMAIN suggested

(* Committed templates and the leaves that name them.                      *)
LeafHas(a) == \E l \in DOMAIN leaves : \E way \in Ways(leaves[l]) : a \in way
ClauseHas(a) == \E x \in DOMAIN txClauses : a \in txClauses[x]

Committed ==
    /\ range.max \in Int
    /\ \A h \in DOMAIN committed :
         /\ committed[h] \in Templates /\ committed[h].hash = h
         /\ committed[h].total <= range.max
         /\ LeafHas(CTV(h)) \/ (pc = "insert" /\ ClauseHas(CTV(h)))
    /\ \A h : LeafHas(CTV(h)) \/ ClauseHas(CTV(h)) => h \in DOMAIN committed
    /\ \A l \in DOMAIN finishLeaves : IsPlain(finishLeaves[l])

(* What has become of a function that was dealt with in this pass.         *)
Processed == IF pc \in {"finish", "done"} THEN Functions ELSE 1..(idx - 1)

Outcome(i) ==
    /\ i \in Functions /\ i \in DOMAIN names
    /\ CondCall(i) \in DOMAIN answers
    /\ Decision(i) # "Fail"
    /\ IsKept(Decision(i)) => Called(i)
    /\ (Called(i) /\ contract.funcs[i].kind = "then" /\ Returned(i) = {}) =>
         Decision(i) = "Nullable"
    /\ (Called(i) /\ contract.funcs[i].kind # "then") =>
         /\ PathOf(i) \in points
         /\ Asked(i) \subseteq DOMAIN answers
         /\ \A t \in Returned(i) : t.hash \in DOMAIN suggested

Outcomes == \A i \in Processed : Outcome(i)

NamesDerived == \A name : ActionPath(name) \in derived => name \in usedNames

Sealed ==
    pc = "done" =>
        /\ compiled.points = points /\ compiled.suggested = suggested
        /\ compiled.leaves = AllLeaves
        /\ compiled.key = NUMS
             \/ <<{compiled.key}>> \in {compiled.leaves[i] : i \in DOMAIN compiled.leaves}

IInv ==
    /\ pc # "panic"
    /\ Live => Shape /\ AnswersOK /\ LeavesOK /\ Working /\ Committed
                 /\ Outcomes /\ NamesDerived /\ Sealed
------------------------------------------------------------------------------
(* Vectors.                                                                *)

LEMMA SeqDomain ==
    ASSUME NEW s, IsSeq(s)
    PROVE  Len(s) \in Nat /\ DOMAIN s = 1..Len(s)
BY DEF IsSeq

LEMMA SeqOf ==
    ASSUME NEW S, NEW s \in Seq(S)
    PROVE  IsSeq(s)
<1> DEFINE n == Len(s)
<1>1. n \in Nat /\ s \in [1..n -> S]
  OBVIOUS
<1>2. s \in [1..n -> {s[i] : i \in DOMAIN s}]
  BY <1>1
<1> QED
  BY <1>2, <1>1 DEF IsSeq

LEMMA AppendSeq ==
    ASSUME NEW s, IsSeq(s), NEW e
    PROVE  /\ IsSeq(Append(s, e))
           /\ Len(Append(s, e)) = Len(s) + 1
           /\ DOMAIN Append(s, e) = 1..(Len(s) + 1)
           /\ Append(s, e)[Len(s) + 1] = e
           /\ \A i \in DOMAIN s : i \in DOMAIN Append(s, e) /\ Append(s, e)[i] = s[i]
           /\ \A i \in DOMAIN Append(s, e) : i \in DOMAIN s \/ i = Len(s) + 1
<1> DEFINE S == {s[i] : i \in DOMAIN s} \cup {e}
<1>1. s \in Seq(S) /\ e \in S
  BY DEF IsSeq
<1>2. Append(s, e) \in Seq(S)
  BY <1>1
<1>3. IsSeq(Append(s, e))
  BY <1>2, SeqOf
<1> QED
  BY <1>1, <1>3

(* u holds the elements of s, where they were in s, and those of t.        *)
Joins(u, s, t) ==
    /\ IsSeq(u)
    /\ \A i \in DOMAIN u :
         \/ i \in DOMAIN s /\ u[i] = s[i]
         \/ \E j \in DOMAIN t : u[i] = t[j]
    /\ \A i \in DOMAIN s : i \in DOMAIN u /\ u[i] = s[i]
    /\ \A j \in DOMAIN t : \E i \in DOMAIN u : u[i] = t[j]

LEMMA ConcatSeq ==
    ASSUME NEW s, IsSeq(s), NEW t, IsSeq(t)
    PROVE  Joins(s \o t, s, t)
<1> DEFINE S == {s[i] : i \in DOMAIN s} \cup {t[i] : i \in DOMAIN t}
<1>1. s \in Seq(S) /\ t \in Seq(S)
  BY DEF IsSeq
<1>2. s \o t \in Seq(S)
  BY <1>1
<1>3. IsSeq(s \o t)
  BY <1>2, SeqOf
<1>4. \A i \in DOMAIN (s \o t) :
        \/ i \in DOMAIN s /\ (s \o t)[i] = s[i]
        \/ i - Len(s) \in DOMAIN t /\ (s \o t)[i] = t[i - Len(s)]
  BY <1>1
<1>5. \A j \in DOMAIN t : j + Len(s) \in DOMAIN (s \o t) /\ (s \o t)[j + Len(s)] = t[j]
  BY <1>1
<1>6. \A i \in DOMAIN s : i \in DOMAIN (s \o t) /\ (s \o t)[i] = s[i]
  BY <1>1
<1> QED
  BY <1>3, <1>4, <1>5, <1>6 DEF Joins

LEMMA TailSeq ==
    ASSUME NEW s, IsSeq(s), s # <<>>
    PROVE  /\ IsSeq(Tail(s)) /\ 1 \in DOMAIN s /\ Head(s) = s[1]
           /\ \A i \in DOMAIN Tail(s) : \E j \in DOMAIN s : Tail(s)[i] = s[j]
           /\ \A j \in DOMAIN s : j = 1 \/ \E i \in DOMAIN Tail(s) : Tail(s)[i] = s[j]
<1> DEFINE S == {s[i] : i \in DOMAIN s}
<1>1. s \in Seq(S)
  BY DEF IsSeq
<1>2. Tail(s) \in Seq(S)
  BY <1>1
<1>3. IsSeq(Tail(s))
  BY <1>2, SeqOf
<1>4. \A i \in DOMAIN Tail(s) : i + 1 \in DOMAIN s /\ Tail(s)[i] = s[i + 1]
  BY <1>1
<1>5. \A j \in DOMAIN s : j = 1 \/ (j - 1 \in DOMAIN Tail(s) /\ Tail(s)[j - 1] = s[j])
  BY <1>1
<1>6. 1 \in DOMAIN s /\ Head(s) = s[1]
  BY <1>1
<1> QED
  BY <1>3, <1>4, <1>5, <1>6

LEMMA MapSeq ==
    ASSUME NEW s, IsSeq(s), NEW t, DOMAIN t = DOMAIN s, t = [i \in DOMAIN s |-> t[i]]
    PROVE  IsSeq(t)
<1>1. Len(s) \in Nat /\ DOMAIN s = 1..Len(s)
  BY SeqDomain
<1> QED
  BY <1>1 DEF IsSeq
------------------------------------------------------------------------------
(* The merging of conditions: the fold computes the precedence of its      *)
(* elements, whatever their order.                                         *)

Verdict(S) ==
    IF "Fail" \in S \/ {"Never", "Required"} \subseteq S THEN "Fail"
    ELSE IF "Never" \in S THEN "Never"
    ELSE IF "Required" \in S THEN "Required"
    ELSE IF "Skippable" \in S THEN "Skippable"
    ELSE IF "Nullable" \in S THEN "Nullable" ELSE "NoConstraint"

LEMMA MergeVerdict ==
    ASSUME NEW S \in SUBSET CondTypes, NEW c \in CondTypes
    PROVE  Merge(Verdict(S), c) = Verdict(S \cup {c})
BY DEF Merge, Verdict, CondTypes

LEMMA LeastNat ==
    ASSUME NEW T \in SUBSET Nat, T # {}
    PROVE  \E m \in T : \A k \in T : m <= k
<1>1. PICK m \in T : \A k \in T : ~ (<<k, m>> \in OpToRel(<, Nat))
  BY NatLessThanWellFounded, WFMin, Zenon
<1>2. \A k \in T : ~ (k < m)
  BY <1>1 DEF OpToRel
<1> QED
  BY <1>2

LEMMA AssembleVerdict ==
    ASSUME NEW n \in Nat, NEW conds \in [1..n -> CondTypes]
    PROVE  Assemble(conds) = Verdict({conds[c] : c \in 1..n})
<1> DEFINE Seen(k) == {conds[c] : c \in 1..k}
           Rec(s) == [k \in 0..n |-> IF k = 0 THEN "NoConstraint"
                                     ELSE Merge(s[k - 1], conds[k])]
           f == [k \in 0..n |-> Verdict(Seen(k))]
           g == CHOOSE s : s = Rec(s)
<1>1. Len(conds) = n
  OBVIOUS
<1>2. f = Rec(f)
  <2>1. f[0] = "NoConstraint"
    <3>1. Seen(0) = {}
      OBVIOUS
    <3> QED
      BY <3>1 DEF Verdict
  <2>2. ASSUME NEW k \in 1..n
        PROVE  f[k] = Merge(f[k - 1], conds[k])
    <3>1. k - 1 \in 0..n /\ k \in 0..n
      OBVIOUS
    <3>2. Seen(k) = Seen(k - 1) \cup {conds[k]}
      <4>1. \A c \in 1..k : c \in 1..(k - 1) \/ c = k
        OBVIOUS
      <4>2. \A c \in 1..(k - 1) : c \in 1..k
        OBVIOUS
      <4>3. k \in 1..k
        OBVIOUS
      <4> QED
        BY <4>1, <4>2, <4>3
    <3>3. Seen(k - 1) \in SUBSET CondTypes /\ conds[k] \in CondTypes
      <4>1. \A c \in 1..(k - 1) : c \in 1..n
        OBVIOUS
      <4> QED
        BY <4>1
    <3> HIDE DEF Seen
    <3>4. Merge(Verdict(Seen(k - 1)), conds[k]) = Verdict(Seen(k))
      BY <3>2, <3>3, MergeVerdict
    <3> QED
      BY <3>1, <3>4
  <2> HIDE DEF Seen
  <2>3. \A k \in 0..n : k = 0 \/ k \in 1..n
    OBVIOUS
  <2>4. \A k \in 0..n : f[k] = Rec(f)[k]
    BY <2>1, <2>2, <2>3
  <2> QED
    BY <2>4
<1>3. g = Rec(g)
  <2> HIDE DEF f
  <2> QED
    BY <1>2
<1>4. Assemble(conds) = g[n]
  BY <1>1 DEF Assemble
<1> HIDE DEF g
<1>5. \A k \in 0..n : g[k] = f[k]
  <2> DEFINE T == {k \in 0..n : g[k] # f[k]}
  <2>1. SUFFICES ASSUME T # {} PROVE FALSE
    OBVIOUS
  <2>2. T \in SUBSET Nat
    OBVIOUS
  <2> HIDE DEF T
  <2>3. PICK m \in T : \A k \in T : m <= k
    BY <2>1, <2>2, LeastNat
  <2> USE DEF T
  <2> HIDE DEF f
  <2>4. m \in 0..n /\ 0 \in 0..n /\ g[0] = f[0]
    BY <1>2, <1>3, <2>3
  <2>5. m \in 1..n /\ m - 1 \in 0..n /\ m # 0
    BY <2>3, <2>4
  <2>6. g[m - 1] = f[m - 1]
    BY <2>3, <2>5
  <2>7. g[m] = Merge(g[m - 1], conds[m]) /\ f[m] = Merge(f[m - 1], conds[m])
    BY <1>2, <1>3, <2>4, <2>5
  <2> QED
    BY <2>3, <2>6, <2>7
<1> QED
  BY <1>4, <1>5
------------------------------------------------------------------------------
(* Answers and names only grow while a pass goes on, and what is licensed  *)
(* and done by them stays so.                                              *)
Grows ==
    /\ contract' = contract /\ effects' = effects
    /\ \A c \in DOMAIN answers : c \in DOMAIN answers' /\ answers'[c] = answers[c]
    /\ \A i \in DOMAIN names : i \in DOMAIN names' /\ names'[i] = names[i]

LEMMA Given ==
    /\ \A c \in Contracts :
         /\ IsSeq(c.funcs) /\ IsSeq(c.finishes)
         /\ \A i \in DOMAIN c.funcs : IsSeq(c.funcs[i].guards) /\ IsSeq(c.funcs[i].conds)
    /\ \A clause \in Clauses : IsSeq(clause) /\ IsPlain(clause)
    /\ \A l \in TemplateLists : IsSeq(l)
    /\ \A t \in Templates : /\ t.total \in Nat /\ t.max \in Nat /\ t.total <= t.max
                            /\ \A a \in t.guards : a[1] # "ctv"
    /\ DOMAIN EffectKeys \subseteq Nat \ {0}
    /\ Size \in Nat /\ Amounts \subseteq Nat
<1>1. \A t \in Templates : /\ t.total \in Nat /\ t.max \in Nat /\ t.total <= t.max
                           /\ \A a \in t.guards : a[1] # "ctv"
  BY ContractAssumption DEF Templates
<1>2. DOMAIN EffectKeys \subseteq Nat \ {0}
  BY ContractAssumption, SeqDomain
<1> QED
  BY <1>1, <1>2, ContractAssumption, SizeAssumption DEF IsPlain

LEMMA GuardStays ==
    ASSUME Grows, NEW i \in DOMAIN names, GuardKnown(i)
    PROVE  GuardKnown(i)' /\ GuardOf(i)' = GuardOf(i)
BY DEF Grows, GuardKnown, GuardOf, GuardAnswer, GuardCall, GuardAt

LEMMA CalledStays ==
    ASSUME Grows, NEW i, Called(i)
    PROVE  Called(i)'
BY DEF Grows, Called

LEMMA AskedStays ==
    ASSUME Grows, NEW i \in DOMAIN names, Called(i)
    PROVE  Asked(i)' = Asked(i)
<1>1. Called(i)'
  BY CalledStays
<1>2. Calls(contract.funcs[i], names[i])' = Calls(contract.funcs[i], names[i])
  BY DEF Grows, Calls, EffectsAt
<1> QED
  BY <1>1, <1>2 DEF Grows, Asked

LEMMA ReturnedStays ==
    ASSUME Grows, NEW i \in DOMAIN names, Called(i)
    PROVE  /\ Returned(i) \subseteq Returned(i)'
           /\ Asked(i) \subseteq DOMAIN answers => Returned(i)' = Returned(i)
BY AskedStays DEF Grows, Returned

LEMMA LicensedStays ==
    ASSUME Grows, NEW i, NEW way, LicensedBy(i, way)
    PROVE  LicensedBy(i, way)'
<1>1. i \in DOMAIN names /\ i \in Functions /\ Called(i) /\ GuardKnown(i)
  BY DEF LicensedBy
<1>2. GuardKnown(i)' /\ GuardOf(i)' = GuardOf(i) /\ Called(i)'
      /\ Returned(i) \subseteq Returned(i)'
  BY <1>1, GuardStays, CalledStays, ReturnedStays
<1>3. (i \in DOMAIN names)' /\ (i \in Functions)' /\ contract' = contract
  BY <1>1 DEF Grows, Functions
<1> QED
  BY <1>1, <1>2, <1>3 DEF LicensedBy

LEMMA FinishLicenseStays ==
    ASSUME Grows, NEW j, NEW way, LicensedByFinish(j, way)
    PROVE  LicensedByFinish(j, way)'
BY DEF Grows, LicensedByFinish, GuardCall, GuardAnswer

LEMMA LeavesStay ==
    ASSUME Grows, LeavesOK, UNCHANGED <<leaves, finishLeaves>>
    PROVE  LeavesOK'
BY LicensedStays, FinishLicenseStays DEF LeavesOK

LEMMA OutcomeStays ==
    ASSUME Grows, points \subseteq points', DOMAIN suggested \subseteq DOMAIN suggested',
           NEW i, Outcome(i), Called(i)' => Called(i)
    PROVE  Outcome(i)'
<1>1. /\ i \in Functions /\ i \in DOMAIN names /\ (i \in Functions)' /\ (i \in DOMAIN names)'
      /\ CondCall(i) \in DOMAIN answers /\ CondCall(i) \in DOMAIN answers'
      /\ Decision(i)' = Decision(i) /\ contract' = contract
  BY DEF Outcome, Grows, Functions, Decision
<1>2. CASE Called(i)
  <2>1. Called(i)' /\ Asked(i)' = Asked(i) /\ Returned(i) \subseteq Returned(i)'
        /\ (Asked(i) \subseteq DOMAIN answers => Returned(i)' = Returned(i))
    BY <1>1, <1>2, CalledStays, AskedStays, ReturnedStays
  <2>2. PathOf(i)' = PathOf(i)
    BY <1>1 DEF PathOf, Grows
  <2>3. DOMAIN answers \subseteq DOMAIN answers'
    BY DEF Grows
  <2> QED
    BY <1>1, <1>2, <2>1, <2>2, <2>3 DEF Outcome
<1>3. CASE ~Called(i)
  BY <1>1, <1>3 DEF Outcome
<1> QED
  BY <1>2, <1>3

LEMMA Remembered ==
    ASSUME NEW call, NEW S, NEW r \in Answers(call, S), Remember(call, r)
    PROVE  /\ \A c \in DOMAIN answers : c \in DOMAIN answers' /\ answers'[c] = answers[c]
           /\ DOMAIN answers' = DOMAIN answers \cup {call}
           /\ answers'[call] = r
           /\ IF call \in DOMAIN answers THEN r = answers[call] ELSE r \in S
BY DEF Answers, Remember, With

LEMMA AnswersAfter ==
    ASSUME AnswersOK, contract' = contract, NEW call,
           \A c \in DOMAIN answers : c \in DOMAIN answers' /\ answers'[c] = answers[c],
           DOMAIN answers' = DOMAIN answers \cup {call},
           \A g \in DOMAIN cache' :
             \/ g \in DOMAIN cache /\ cache'[g] = cache[g]
             \/ /\ contract.guardKind[g] = "Cache"
                /\ <<"guard", g, Root>> \in DOMAIN answers'
                /\ answers'[<<"guard", g, Root>>] = cache'[g],
           call = <<"ensure">> => answers'[call] \in Amounts \cup {-1},
           \A i \in Functions : call = CondCall(i) =>
             answers'[call] \in [1..Len(contract.funcs[i].conds) -> CondTypes],
           \A i, e : call = <<"call", i, e>> =>
             /\ answers'[call] \in TemplateLists
             /\ i \in Functions => CondCall(i) \in DOMAIN answers /\ IsKept(Decision(i))
    PROVE  AnswersOK'
<1>1. (<<"ensure">> \in DOMAIN answers => answers[<<"ensure">>] \in Amounts \cup {-1})'
  BY DEF AnswersOK
<1>2. \A i \in Functions' : CondCall(i) \in DOMAIN answers' =>
         answers'[CondCall(i)] \in [1..Len(contract.funcs[i].conds) -> CondTypes]
  BY DEF AnswersOK, Functions
<1>3. \A i, e : <<"call", i, e>> \in DOMAIN answers' =>
         answers'[<<"call", i, e>>] \in TemplateLists
  BY DEF AnswersOK
<1>4. ASSUME NEW g \in DOMAIN cache'
      PROVE  /\ contract.guardKind[g] = "Cache"
             /\ <<"guard", g, Root>> \in DOMAIN answers'
             /\ answers'[<<"guard", g, Root>>] = cache'[g]
  BY <1>4 DEF AnswersOK
<1>5. ASSUME NEW i \in Functions', Called(i)'
      PROVE  CondCall(i) \in DOMAIN answers' /\ IsKept(Decision(i))'
  <2>1. i \in Functions
    BY <1>5 DEF Functions
  <2>2. CondCall(i) \in DOMAIN answers /\ IsKept(Decision(i))
    BY <1>5, <2>1 DEF AnswersOK, Called
  <2>3. Decision(i)' = Decision(i)
    BY <2>2 DEF Decision
  <2> QED
    BY <2>2, <2>3 DEF IsKept
<1> QED
  BY <1>1, <1>2, <1>3, <1>4, <1>5 DEF AnswersOK

LEMMA AnswersStay ==
    ASSUME AnswersOK, contract' = contract, answers' = answers, cache' = cache
    PROVE  AnswersOK'
BY DEF AnswersOK, Functions, Called, Decision

LEMMA TrivialPlain == IsSeq(Trivial) /\ IsPlain(Trivial)
<1>1. Trivial \in Seq({{}})
  BY DEF Trivial
<1>2. \A i \in DOMAIN Trivial : Trivial[i] = {}
  BY DEF Trivial
<1> QED
  BY <1>1, <1>2, SeqOf DEF IsPlain

LEMMA NotLive ==
    ASSUME pc' \in {"failed", "spinning"}
    PROVE  IInv'
BY DEF IInv, Live

LEMMA FailKept == ASSUME Fail PROVE IInv'
BY NotLive DEF Fail

LEMMA Initially == Init => IInv
<1> SUFFICES ASSUME Init PROVE IInv
  OBVIOUS
<1>1. IsSeq(<<>>) /\ Len(<<>>) = 0 /\ DOMAIN <<>> = {}
  BY DEF IsSeq
<1>2. IsSeq(Trivial) /\ IsPlain(Trivial)
  BY TrivialPlain
<1>3. Shape
  BY <1>1, <1>2 DEF Init, Shape, InStage
<1>4. AnswersOK /\ LeavesOK /\ Working
  BY DEF Init, AnswersOK, LeavesOK, Working, Called
<1>5. Committed
  BY DEF Init, Committed, LeafHas, ClauseHas
<1>6. Outcomes /\ NamesDerived /\ Sealed
  BY DEF Init, Outcomes, Processed, NamesDerived, Sealed
<1> QED
  BY <1>3, <1>4, <1>5, <1>6 DEF IInv, Init

(* The paths of actions are three fragments long, and "Action" is the      *)
(* second.                                                                 *)
LEMMA ActionPaths ==
    ASSUME NEW name
    PROVE  /\ ActionPath(name) \in Seq({"root", "Action", name})
           /\ Len(ActionPath(name)) = 3
           /\ ActionPath(name)[2] = "Action" /\ ActionPath(name)[3] = name
BY DEF ActionPath, Root

LEMMA OtherPaths ==
    ASSUME NamesDerived, NEW paths, derived' = derived \cup paths, usedNames' = usedNames,
           \A p \in paths : Len(p) # 3 \/ p[2] # "Action"
    PROVE  NamesDerived'
BY ActionPaths DEF NamesDerived

LEMMA OutcomesStay ==
    ASSUME Grows, points \subseteq points', DOMAIN suggested \subseteq DOMAIN suggested',
           Outcomes, Processed' \subseteq Processed, \A i \in Processed : Called(i)' => Called(i)
    PROVE  Outcomes'
<1>1. ASSUME NEW i \in Processed'
      PROVE  Outcome(i)'
  <2>1. i \in Processed /\ Outcome(i) /\ (Called(i)' => Called(i))
    BY DEF Outcomes
  <2> QED
    BY <2>1, OutcomeStays
<1> QED
  BY <1>1 DEF Outcomes

LEMMA CommittedStays ==
    ASSUME Committed, UNCHANGED <<leaves, finishLeaves, committed, txClauses, range>>,
           pc # "insert" \/ pc' = "insert"
    PROVE  Committed'
BY DEF Committed, LeafHas, ClauseHas

LEMMA EnsureKept == ASSUME IInv, EnsureAmount PROVE IInv'
<1>1. PICK a \in Answers(<<"ensure">>, Amounts \cup {-1}) :
        /\ Remember(<<"ensure">>, a)
        /\ \/ a = -1 /\ Fail
           \/ /\ a # -1
              /\ Derive({Append(Root, "Cloned"), Append(Root, "Action")})
              /\ range' = UpdateRange(range, a)
              /\ pc' = "name"
              /\ UNCHANGED <<passVars, idx, nameVars, funcVars, guardVars,
                             committed, suggested, outVars>>
  BY DEF EnsureAmount
<1>2. CASE Fail
  BY <1>2, FailKept
<1>3. CASE ~Fail
  <2>1. /\ pc = "ensure" /\ pc' = "name"
        /\ UNCHANGED <<contract, effects, pass, previous, idx, usedNames, names, nullable,
                       guard, calls, txs, txClauses, cache, committed, suggested, leaves,
                       finishLeaves, points, compiled>>
        /\ range' = UpdateRange(range, a)
        /\ derived' = derived \cup {Append(Root, "Cloned"), Append(Root, "Action")}
    BY <1>1, <1>3 DEF EnsureAmount, Derive, passVars, nameVars, funcVars, guardVars, outVars
  <2>2. Shape /\ AnswersOK /\ LeavesOK /\ Working /\ Committed /\ Outcomes /\ NamesDerived
    BY <2>1 DEF IInv, Live
  <2>3. /\ \A c \in DOMAIN answers : c \in DOMAIN answers' /\ answers'[c] = answers[c]
        /\ DOMAIN answers' = DOMAIN answers \cup {<<"ensure">>}
        /\ answers'[<<"ensure">>] = a
        /\ a \in Amounts \cup {-1}
    <3>1. /\ \A c \in DOMAIN answers : c \in DOMAIN answers' /\ answers'[c] = answers[c]
          /\ DOMAIN answers' = DOMAIN answers \cup {<<"ensure">>}
          /\ answers'[<<"ensure">>] = a
          /\ IF <<"ensure">> \in DOMAIN answers THEN a = answers[<<"ensure">>]
             ELSE a \in Amounts \cup {-1}
      BY <1>1, Remembered
    <3> QED
      BY <2>2, <3>1 DEF AnswersOK
  <2>4. Grows
    BY <2>1, <2>3 DEF Grows
  <2>5. contract \in Contracts /\ Len(contract.funcs) \in Nat /\ idx = 1 /\ names = <<>>
    BY <2>1, <2>2, Given, SeqDomain DEF Shape
  <2>6. Shape'
    BY <2>1, <2>2, <2>5 DEF Shape, InStage
  <2>7. AnswersOK'
    <3>1. \A i, e : <<"ensure">> # CondCall(i) /\ <<"ensure">> # <<"call", i, e>>
      BY DEF CondCall
    <3> QED
      BY <2>1, <2>2, <2>3, <3>1, AnswersAfter
  <2>8. LeavesOK'
    BY <2>1, <2>2, <2>4, LeavesStay
  <2>9. Working'
    BY <2>1, <2>2 DEF Working
  <2>10. Committed'
    <3>1. range'.max \in Int /\ range'.max >= range.max
      BY <2>1, <2>2, <2>3, Given DEF UpdateRange, Larger, Committed
    <3>2. \A h \in DOMAIN committed : committed[h].total \in Nat
      BY <2>2, Given DEF Committed
    <3>3. \A h \in DOMAIN committed : committed[h].total <= range'.max
      BY <2>2, <3>1, <3>2 DEF Committed
    <3> QED
      BY <2>1, <2>2, <3>1, <3>3 DEF Committed, LeafHas, ClauseHas
  <2>11. Outcomes'
    BY <2>1, <2>5 DEF Outcomes, Processed
  <2>12. NamesDerived'
    <3> DEFINE paths == {Append(Root, "Cloned"), Append(Root, "Action")}
    <3>1. \A p \in paths : Len(p) # 3
      BY DEF Root
    <3> HIDE DEF paths
    <3>2. derived' = derived \cup paths /\ usedNames' = usedNames
      BY <2>1 DEF paths
    <3> QED
      BY <2>2, <3>1, <3>2, OtherPaths
  <2> QED
    BY <2>1, <2>6, <2>7, <2>8, <2>9, <2>10, <2>11, <2>12 DEF IInv, Sealed
<1> QED
  BY <1>2, <1>3

LEMMA NameKept == ASSUME IInv, NameFunction PROVE IInv'
<1> DEFINE n == GetName(Func.name)
<1>1. CASE FreeNames(Func.name) = {}
  BY <1>1, NotLive DEF NameFunction
<1>2. CASE FreeNames(Func.name) # {}
  <2>1. PICK name : name = n
    OBVIOUS
  <2> HIDE DEF n
  <2>2. /\ pc = "name" /\ idx <= Len(contract.funcs)
        /\ UNCHANGED <<contract, effects, pass, previous, answers, idx, nullable, guard,
                       calls, txs, txClauses, cache, committed, suggested, range, leaves,
                       finishLeaves, points, compiled>>
        /\ usedNames' = usedNames \cup {name} /\ names' = Append(names, name)
        /\ IF Fresh({ActionPath(name)})
           THEN Derive({ActionPath(name)}) /\ pc' = "cond"
           ELSE pc' = "panic" /\ UNCHANGED derived
    BY <1>2, <2>1 DEF NameFunction, n, passVars, funcVars, guardVars, txVars, outVars
  <2>3. Shape /\ AnswersOK /\ LeavesOK /\ Working /\ Committed /\ Outcomes /\ NamesDerived
    BY <2>2 DEF IInv, Live
  <2>4. name \notin usedNames
    BY <1>2, <2>1 DEF n, GetName, FreeNames
  <2>5. Fresh({ActionPath(name)})
    BY <2>3, <2>4 DEF NamesDerived, Fresh
  <2>6. pc' = "cond" /\ derived' = derived \cup {ActionPath(name)}
    BY <2>2, <2>5 DEF Derive
  <2>7. /\ IsSeq(names') /\ Len(names') = Len(names) + 1
        /\ \A i \in DOMAIN names : i \in DOMAIN names' /\ names'[i] = names[i]
    BY <2>2, <2>3, AppendSeq DEF Shape
  <2>8. Grows
    BY <2>2, <2>7 DEF Grows
  <2>9. IsSeq(names) /\ IsSeq(contract.funcs) /\ idx \in Nat \ {0} /\ idx = Len(names) + 1
    BY <2>2, <2>3, Given DEF Shape
  <2>10. Len(names') = idx /\ idx \in DOMAIN contract.funcs
    BY <2>2, <2>7, <2>9, SeqDomain
  <2>11. Shape'
    BY <2>2, <2>3, <2>6, <2>7, <2>10 DEF Shape, InStage
  <2>12. AnswersOK'
    BY <2>2, <2>3, AnswersStay
  <2>13. LeavesOK'
    BY <2>2, <2>3, <2>8, LeavesStay
  <2>14. Working'
    BY <2>2, <2>3, <2>6 DEF Working
  <2>15. Committed'
    BY <2>2, <2>3, CommittedStays
  <2>16. Outcomes'
    <3>1. Processed' = Processed
      BY <2>2, <2>6 DEF Processed
    <3>2. \A i : Called(i)' => Called(i)
      BY <2>2 DEF Called
    <3> QED
      BY <2>2, <2>3, <2>8, <3>1, <3>2, OutcomesStay
  <2>17. NamesDerived'
    <3>1. ASSUME NEW m, ActionPath(m) \in derived'
          PROVE  m \in usedNames'
      <4>1. CASE ActionPath(m) \in derived
        BY <2>2, <2>3, <4>1 DEF NamesDerived
      <4>2. CASE ActionPath(m) = ActionPath(name)
        <5>1. ActionPath(m)[3] = m /\ ActionPath(name)[3] = name
          BY ActionPaths
        <5>2. m = name
          BY <4>2, <5>1
        <5> QED
          BY <2>2, <5>2
      <4> QED
        BY <2>6, <3>1, <4>1, <4>2
    <3> QED
      BY <3>1 DEF NamesDerived
  <2> QED
    BY <2>6, <2>11, <2>12, <2>13, <2>14, <2>15, <2>16, <2>17 DEF IInv, Sealed
<1> QED
  BY <1>1, <1>2

LEMMA CompileIfKept == ASSUME IInv, CompileIf PROVE IInv'
<1>1. PICK r \in Answers(<<"cond", idx>>, [1..Len(Func.conds) -> CondTypes]) :
        /\ Remember(<<"cond", idx>>, r)
        /\ \/ Assemble(r) = "Fail" /\ Fail
           \/ /\ Assemble(r) \in {"Skippable", "Never"}
              /\ pc' = "name" /\ idx' = idx + 1
              /\ UNCHANGED <<passVars, derived, nameVars, funcVars,
                             guardVars, txVars, outVars>>
           \/ /\ Assemble(r) \in {"Required", "NoConstraint", "Nullable"}
              /\ pc' = "guard"
              /\ nullable' = (Assemble(r) = "Nullable")
              /\ UNCHANGED <<passVars, idx, derived, nameVars, guard, calls,
                             txs, txClauses, guardVars, txVars, outVars>>
  BY DEF CompileIf
<1>2. CASE Fail
  BY <1>2, FailKept
<1>3. CASE ~Fail
  <2> DEFINE d == Assemble(r)
  <2> HIDE DEF d
  <2>1. /\ pc = "cond"
        /\ UNCHANGED <<contract, effects, pass, previous, derived, usedNames, names, guard,
                       calls, txs, txClauses, cache, committed, suggested, range, leaves,
                       finishLeaves, points, compiled>>
        /\ \/ d \in {"Skippable", "Never"} /\ pc' = "name" /\ idx' = idx + 1
           \/ d \in {"Required", "NoConstraint", "Nullable"} /\ pc' = "guard"
              /\ nullable' = (d = "Nullable") /\ idx' = idx
    BY <1>1, <1>3 DEF CompileIf, d, passVars, nameVars, funcVars, guardVars, txVars, outVars
  <2>2. Shape /\ AnswersOK /\ LeavesOK /\ Working /\ Committed /\ Outcomes /\ NamesDerived
    BY <2>1 DEF IInv, Live
  <2>3. /\ contract \in Contracts /\ IsSeq(contract.funcs) /\ IsSeq(names)
        /\ idx \in Nat \ {0} /\ Len(names) = idx /\ idx \in Functions
        /\ idx <= Len(contract.funcs) /\ txs = <<>> /\ txClauses = <<>>
    <3>1. contract \in Contracts /\ IsSeq(names) /\ idx \in Nat \ {0} /\ Len(names) = idx
          /\ idx \in DOMAIN contract.funcs /\ txs = <<>> /\ txClauses = <<>>
      BY <2>1, <2>2 DEF Shape, InStage
    <3> QED
      BY <3>1, Given, SeqDomain DEF Functions
  <2>4. /\ \A c \in DOMAIN answers : c \in DOMAIN answers' /\ answers'[c] = answers[c]
        /\ DOMAIN answers' = DOMAIN answers \cup {CondCall(idx)}
        /\ answers'[CondCall(idx)] = r
        /\ r \in [1..Len(contract.funcs[idx].conds) -> CondTypes]
    <3> DEFINE call == <<"cond", idx>>
               S == [1..Len(Func.conds) -> CondTypes]
    <3>1. r \in Answers(call, S) /\ Remember(call, r)
      BY <1>1
    <3> HIDE DEF call, S
    <3>2. /\ \A c \in DOMAIN answers : c \in DOMAIN answers' /\ answers'[c] = answers[c]
          /\ DOMAIN answers' = DOMAIN answers \cup {call}
          /\ answers'[call] = r
          /\ IF call \in DOMAIN answers THEN r = answers[call] ELSE r \in S
      BY <3>1, Remembered
    <3>3. call = CondCall(idx) /\ S = [1..Len(contract.funcs[idx].conds) -> CondTypes]
      BY DEF call, S, CondCall, Func
    <3> QED
      BY <2>2, <2>3, <3>2, <3>3 DEF AnswersOK
  <2>5. Grows
    BY <2>1, <2>4 DEF Grows
  <2>6. Decision(idx)' = d \/ idx' # idx
    BY <2>4 DEF Decision, d
  <2>7. \A i : Called(i)' <=> Called(i)
    BY <2>4 DEF Called, CondCall
  <2>8. Shape'
    BY <2>1, <2>2, <2>3 DEF Shape, InStage
  <2>9. AnswersOK'
    <3>1. \A i \in Functions : CondCall(idx) = CondCall(i) => i = idx
      BY DEF CondCall
    <3>2. \A i, e : CondCall(idx) # <<"call", i, e>> /\ CondCall(idx) # <<"ensure">>
      BY DEF CondCall
    <3>3. \A g \in DOMAIN cache' : g \in DOMAIN cache /\ cache'[g] = cache[g]
      BY <2>1
    <3> HIDE DEF CondCall
    <3> QED
      BY <2>1, <2>2, <2>4, <3>1, <3>2, <3>3, AnswersAfter
  <2>10. LeavesOK'
    BY <2>1, <2>2, <2>5, LeavesStay
  <2>11. Working'
    <3>1. \A n \in DOMAIN txs' : txs'[n] \in Templates
      BY <2>1, <2>2 DEF Working
    <3>2. CASE pc' = "name"
      BY <3>1, <3>2 DEF Working
    <3>3. CASE pc' = "guard"
      <4>1. idx' = idx /\ nullable' = (d = "Nullable") /\ IsKept(d) /\ Decision(idx)' = d
        BY <2>1, <2>6, <3>3 DEF IsKept
      <4>2. CondCall(idx)' \in DOMAIN answers' /\ IsKept(Decision(idx)')
        BY <2>4, <4>1 DEF CondCall
      <4> QED
        BY <3>1, <3>3, <4>1, <4>2 DEF Working, IsKept
    <3> QED
      BY <2>1, <3>2, <3>3
  <2>12. Committed'
    BY <2>1, <2>2, CommittedStays
  <2>13. Outcomes'
    <3>1. \A i \in Processed : Outcome(i)'
      BY <2>1, <2>2, <2>5, <2>7, OutcomeStays DEF Outcomes
    <3>2. CASE pc' = "guard"
      BY <2>1, <3>1, <3>2 DEF Outcomes, Processed
    <3>3. CASE pc' = "name"
      <4>1. Processed' = Processed \cup {idx}
        BY <2>1, <2>3, <3>3 DEF Processed
      <4>2. d \in {"Skippable", "Never"}
        BY <2>1, <3>3
      <4>3. CondCall(idx) \in DOMAIN answers' /\ Assemble(answers'[CondCall(idx)]) = d
        BY <2>4 DEF d
      <4>4. PICK k : k = idx
        OBVIOUS
      <4>5. ~Called(k)
        <5>1. SUFFICES ASSUME Called(k) PROVE FALSE
          OBVIOUS
        <5>2. CondCall(k) \in DOMAIN answers /\ IsKept(Decision(k))
          BY <2>2, <2>3, <4>4, <5>1 DEF AnswersOK
        <5>3. Decision(k) = d
          BY <2>4, <4>3, <4>4, <5>2 DEF Decision
        <5> QED
          BY <4>2, <5>2, <5>3 DEF IsKept
      <4>6. /\ (k \in Functions)' /\ (k \in DOMAIN names)'
            /\ CondCall(k)' \in DOMAIN answers' /\ Decision(k)' = d /\ ~Called(k)'
        <5>1. k \in DOMAIN names
          BY <2>3, <4>4, SeqDomain
        <5> QED
          BY <2>1, <2>3, <2>7, <4>3, <4>4, <4>5, <5>1 DEF Functions, CondCall, Decision
      <4>7. Outcome(k)'
        BY <4>2, <4>6 DEF Outcome, IsKept
      <4> QED
        BY <3>1, <4>1, <4>4, <4>7 DEF Outcomes
    <3> QED
      BY <2>1, <3>2, <3>3
  <2>14. NamesDerived'
    BY <2>1, <2>2 DEF NamesDerived
  <2> QED
    BY <2>1, <2>8, <2>9, <2>10, <2>11, <2>12, <2>13, <2>14 DEF IInv, Sealed
<1> QED
  BY <1>2, <1>3

LEMMA GuardAnswered ==
    ASSUME AnswersOK, contract' = contract, NEW g, NEW at, NEW c \in Clauses, GetGuard(g, at, c)
    PROVE  /\ \A x \in DOMAIN answers : x \in DOMAIN answers' /\ answers'[x] = answers[x]
           /\ DOMAIN answers' = DOMAIN answers \cup {GuardCall(g, at)}
           /\ answers'[GuardCall(g, at)] = c
           /\ AnswersOK'
<1> DEFINE call == GuardCall(g, at)
           cached == contract.guardKind[g] = "Cache"
<1>1. /\ \A x \in DOMAIN answers : x \in DOMAIN answers' /\ answers'[x] = answers[x]
      /\ DOMAIN answers' = DOMAIN answers \cup {call}
      /\ answers'[call] = c
      /\ cache' = cache \/ (cached /\ cache' = With(cache, g, c))
  <2>1. CASE cached /\ g \in DOMAIN cache
    BY <2>1 DEF GetGuard, GuardCall, AnswersOK, guardVars
  <2>2. CASE ~(cached /\ g \in DOMAIN cache)
    <3>1. c \in Answers(call, Clauses) /\ Remember(call, c)
          /\ cache' = IF cached THEN With(cache, g, c) ELSE cache
      BY <2>2 DEF GetGuard, GuardCall
    <3> HIDE DEF call, cached
    <3>2. /\ \A x \in DOMAIN answers : x \in DOMAIN answers' /\ answers'[x] = answers[x]
          /\ DOMAIN answers' = DOMAIN answers \cup {call}
          /\ answers'[call] = c
      BY <3>1, Remembered
    <3> QED
      BY <3>1, <3>2
  <2> QED
    BY <2>1, <2>2
<1>2. \A h \in DOMAIN cache' :
        \/ h \in DOMAIN cache /\ cache'[h] = cache[h]
        \/ /\ contract.guardKind[h] = "Cache"
           /\ <<"guard", h, Root>> \in DOMAIN answers'
           /\ answers'[<<"guard", h, Root>>] = cache'[h]
  <2>1. CASE cache' = cache
    BY <2>1
  <2>2. CASE cached /\ cache' = With(cache, g, c)
    <3>1. call = <<"guard", g, Root>>
      BY <2>2 DEF GuardCall
    <3> HIDE DEF call
    <3> QED
      BY <1>1, <2>2, <3>1 DEF With
  <2> QED
    BY <1>1, <2>1, <2>2
<1>3. /\ \A i : call # CondCall(i)
      /\ \A i, e : call # <<"call", i, e>>
      /\ call # <<"ensure">>
  BY DEF GuardCall, CondCall
<1>4. AnswersOK'
  <2> HIDE DEF call, cached
  <2> QED
    BY <1>1, <1>2, <1>3, AnswersAfter
<1> QED
  BY <1>1, <1>4

(* Asking a guard calls no function.                                       *)
LEMMA GuardIsNoCall ==
    ASSUME NEW g, NEW at,
           DOMAIN answers' = DOMAIN answers \cup {GuardCall(g, at)}
    PROVE  \A i : Called(i)' <=> Called(i)
BY DEF Called, GuardCall

LEMMA LongPaths ==
    ASSUME NEW name, NEW x, NEW f, NEW y, NEW w
    PROVE  /\ Len(Append(ActionPath(name), x)) = 4
           /\ Len(EffectPath(f, name)) = 4
           /\ Len(Append(EffectPath(f, name), y)) = 5
           /\ Len(Append(Append(EffectPath(f, name), y), w)) = 6
<1>1. \A p, z : Len(p) = 3 /\ p \in Seq({"root", "Action", name}) =>
        /\ Len(Append(p, z)) = 4
        /\ Len(Append(Append(p, z), y)) = 5
        /\ Len(Append(Append(Append(p, z), y), w)) = 6
  <2> SUFFICES ASSUME NEW p, NEW z, Len(p) = 3, p \in Seq({"root", "Action", name})
               PROVE  /\ Len(Append(p, z)) = 4
                      /\ Len(Append(Append(p, z), y)) = 5
                      /\ Len(Append(Append(Append(p, z), y), w)) = 6
    OBVIOUS
  <2>1. IsSeq(p)
    BY SeqOf
  <2>2. IsSeq(Append(p, z)) /\ Len(Append(p, z)) = 4
    BY <2>1, AppendSeq
  <2>3. IsSeq(Append(Append(p, z), y)) /\ Len(Append(Append(p, z), y)) = 5
    BY <2>2, AppendSeq
  <2> QED
    BY <2>2, <2>3, AppendSeq
<1> QED
  BY <1>1, ActionPaths DEF EffectPath

LEMMA CreateGuardsKept == ASSUME IInv, CreateGuards PROVE IInv'
<1> DEFINE here == ActionPath(names[Len(names)])
           paths == {Append(here, "Guard"), Append(here, "Metadata"),
                     EffectPath(Func, names[Len(names)])}
           Ask(c) == guard' = c /\ GetGuard(Func.guards[1], Append(here, "Guard"), c)
<1>1. CASE pc' = "spinning"
  BY <1>1, NotLive
<1>2. CASE pc' # "spinning"
  <2>1. /\ pc = "guard" /\ pc' = "call"
        /\ UNCHANGED <<contract, effects, pass, previous, idx, usedNames, names, nullable,
                       txs, txClauses, committed, suggested, range, leaves,
                       finishLeaves, points, compiled>>
        /\ derived' = derived \cup paths
        /\ calls' = Calls(Func, names[Len(names)])
        /\ \/ /\ Func.guards = <<>> /\ guard' = Trivial
              /\ answers' = answers /\ cache' = cache
           \/ Func.guards # <<>> /\ \E c \in Clauses : Ask(c)
    BY <1>2 DEF CreateGuards, Derive, passVars, nameVars, txVars, outVars, guardVars
  <2> HIDE DEF paths, Ask
  <2>2. Shape /\ AnswersOK /\ LeavesOK /\ Working /\ Committed /\ Outcomes /\ NamesDerived
    BY <2>1 DEF IInv, Live
  <2>3. /\ contract \in Contracts /\ Len(names) = idx /\ idx \in Functions
        /\ idx \in DOMAIN names /\ txs = <<>> /\ txClauses = <<>>
    <3>1. contract \in Contracts /\ Len(names) = idx /\ idx \in DOMAIN contract.funcs
          /\ IsSeq(names) /\ idx \in Nat \ {0} /\ txs = <<>> /\ txClauses = <<>>
      BY <2>1, <2>2 DEF Shape, InStage
    <3> QED
      BY <3>1, SeqDomain DEF Functions
  <2>4. /\ \A x \in DOMAIN answers : x \in DOMAIN answers' /\ answers'[x] = answers[x]
        /\ AnswersOK'
        /\ \A i : Called(i)' <=> Called(i)
        /\ GuardKnown(idx)' /\ guard' = GuardOf(idx)'
        /\ IsSeq(guard') /\ IsPlain(guard')
    <3>1. CASE Func.guards = <<>> /\ guard' = Trivial /\ answers' = answers /\ cache' = cache
      <4>1. IsSeq(Trivial) /\ IsPlain(Trivial)
        BY TrivialPlain
      <4>2. GuardKnown(idx)' /\ guard' = GuardOf(idx)'
        BY <2>1, <3>1 DEF GuardKnown, GuardOf, Func
      <4>3. AnswersOK'
        BY <2>1, <2>2, <3>1, AnswersStay
      <4>4. \A i : Called(i)' <=> Called(i)
        BY <3>1 DEF Called
      <4> QED
        BY <3>1, <4>1, <4>2, <4>3, <4>4
    <3>2. CASE Func.guards # <<>> /\ \E c \in Clauses : Ask(c)
      <4>1. PICK c \in Clauses : Ask(c)
        BY <3>2
      <4> DEFINE g == contract.funcs[idx].guards[1]
                 at == GuardAt(idx)
      <4>2. guard' = c /\ GetGuard(g, at, c)
        BY <2>3, <4>1 DEF Ask, GuardAt, Func
      <4> HIDE DEF g, at
      <4>3. /\ \A x \in DOMAIN answers : x \in DOMAIN answers' /\ answers'[x] = answers[x]
            /\ DOMAIN answers' = DOMAIN answers \cup {GuardCall(g, at)}
            /\ answers'[GuardCall(g, at)] = c
            /\ AnswersOK'
        BY <2>1, <2>2, <4>2, GuardAnswered
      <4>4. \A i : Called(i)' <=> Called(i)
        BY <4>3, GuardIsNoCall
      <4>5. GuardKnown(idx)' /\ guard' = GuardOf(idx)'
        <5>1. contract.funcs[idx].guards # <<>>
          BY <3>2 DEF Func
        <5> QED
          BY <2>1, <4>2, <4>3, <5>1
             DEF GuardKnown, GuardOf, GuardAnswer, GuardCall, GuardAt, g, at
      <4>6. IsSeq(guard') /\ IsPlain(guard')
        BY <4>2, Given
      <4> QED
        BY <4>3, <4>4, <4>5, <4>6
    <3> QED
      BY <2>1, <3>1, <3>2
  <2>5. Grows
    BY <2>1, <2>4 DEF Grows
  <2>6. Shape'
    BY <2>1, <2>2, <2>3, <2>4 DEF Shape, InStage
  <2>7. LeavesOK'
    BY <2>1, <2>2, <2>5, LeavesStay
  <2>8. Working'
    <3>1. /\ CondCall(idx)' \in DOMAIN answers' /\ IsKept(Decision(idx))'
          /\ nullable' = (Decision(idx)' = "Nullable")
      <4>1. CondCall(idx) \in DOMAIN answers /\ IsKept(Decision(idx))
            /\ nullable = (Decision(idx) = "Nullable")
        BY <2>1, <2>2 DEF Working
      <4>2. CondCall(idx)' = CondCall(idx) /\ Decision(idx)' = Decision(idx)
        BY <2>1, <2>4, <4>1 DEF Decision, CondCall
      <4> QED
        BY <2>1, <2>4, <4>1, <4>2 DEF IsKept
    <3>2. /\ calls' \subseteq Calls(Func, names[idx])' /\ 0 \in calls'
          /\ Calls(Func, names[idx])' \ calls' = {}
      BY <2>1, <2>3 DEF Calls, EffectsAt, Func
    <3> QED
      BY <2>1, <2>3, <2>4, <3>1, <3>2 DEF Working
  <2>9. Committed'
    BY <2>1, <2>2, CommittedStays
  <2>10. Outcomes'
    <3>1. Processed' = Processed
      BY <2>1 DEF Processed
    <3> QED
      BY <2>1, <2>2, <2>4, <2>5, <3>1, OutcomesStay
  <2>11. NamesDerived'
    <3>1. \A p \in paths : Len(p) # 3
      <4>1. \A x : Len(Append(here, x)) = 4
        BY LongPaths
      <4>2. Len(EffectPath(Func, names[Len(names)])) = 4
        BY LongPaths
      <4>3. \A p \in paths : Len(p) = 4
        BY <4>1, <4>2, Zenon DEF paths
      <4> QED
        BY <4>3
    <3> QED
      BY <2>1, <2>2, <3>1, OtherPaths
  <2> QED
    BY <2>1, <2>4, <2>6, <2>7, <2>8, <2>9, <2>10, <2>11 DEF IInv, Sealed
<1> QED
  BY <1>1, <1>2

LEMMA CallKept == ASSUME IInv, CallFunction PROVE IInv'
<1> DEFINE here == EffectPath(Func, names[Len(names)])
           asked(n) == <<"call", idx, Effect(n)>>
           Now(t) == \E m \in DOMAIN txs' : txs'[m] = t
<1>1. PICK n \in calls :
        /\ NextCall(n)
        /\ Derive(CallPaths(here, n))
        /\ calls' = calls \ {n}
        /\ pc' = IF calls = {n} THEN "insert" ELSE "call"
        /\ \E r \in Answers(asked(n), TemplateLists) :
             Remember(asked(n), r) /\ txs' = txs \o r
  BY DEF CallFunction
<1>2. PICK r \in Answers(asked(n), TemplateLists) :
        Remember(asked(n), r) /\ txs' = txs \o r
  BY <1>1
<1>3. /\ pc = "call" /\ pc' = IF calls = {n} THEN "insert" ELSE "call"
      /\ UNCHANGED <<contract, effects, pass, previous, idx, usedNames, names, nullable,
                     guard, txClauses, cache, committed, suggested, range, leaves,
                     finishLeaves, points, compiled>>
      /\ calls' = calls \ {n}
      /\ derived' = derived \cup CallPaths(here, n)
  BY <1>1 DEF CallFunction, Derive, passVars, nameVars, txVars, outVars, guardVars
<1>4. Shape /\ AnswersOK /\ LeavesOK /\ Working /\ Committed /\ Outcomes /\ NamesDerived
  BY <1>3 DEF IInv, Live
<1>5. /\ contract \in Contracts /\ Len(names) = idx /\ idx \in Functions
      /\ idx \in DOMAIN names /\ IsSeq(txs) /\ txClauses = <<>>
  <2>1. contract \in Contracts /\ Len(names) = idx /\ idx \in DOMAIN contract.funcs
        /\ IsSeq(names) /\ idx \in Nat \ {0} /\ IsSeq(txs) /\ txClauses = <<>>
    BY <1>3, <1>4 DEF Shape, InStage
  <2> QED
    BY <2>1, SeqDomain DEF Functions
<1>6. /\ CondCall(idx) \in DOMAIN answers /\ IsKept(Decision(idx))
      /\ nullable = (Decision(idx) = "Nullable")
      /\ GuardKnown(idx) /\ guard = GuardOf(idx)
      /\ calls \subseteq Calls(Func, names[idx])
      /\ 0 \in calls \/ Called(idx)
      /\ \A m \in Calls(Func, names[idx]) \ calls :
           asked(m) \in DOMAIN answers /\ \A x \in DOMAIN answers[asked(m)] : InTxs(answers[asked(m)][x])
      /\ IsThen => txs = <<>>
  BY <1>3, <1>4 DEF Working
<1>7. /\ \A c \in DOMAIN answers : c \in DOMAIN answers' /\ answers'[c] = answers[c]
      /\ DOMAIN answers' = DOMAIN answers \cup {asked(n)}
      /\ answers'[asked(n)] = r
      /\ r \in TemplateLists
  <2>1. PICK call : call = asked(n)
    OBVIOUS
  <2>2. /\ \A c \in DOMAIN answers : c \in DOMAIN answers' /\ answers'[c] = answers[c]
        /\ DOMAIN answers' = DOMAIN answers \cup {call}
        /\ answers'[call] = r
        /\ IF call \in DOMAIN answers THEN r = answers[call] ELSE r \in TemplateLists
    BY <1>2, <2>1, Remembered
  <2> QED
    BY <1>4, <2>1, <2>2 DEF AnswersOK
<1>8. Grows
  BY <1>3, <1>7 DEF Grows
<1>9. \A i : i = idx \/ (Called(i)' <=> Called(i))
  BY <1>7 DEF Called
<1>10. \A i : i = idx => Called(i)'
  <2>1. CASE 0 \in calls
    <3>1. Calls(Func, names[idx]) \subseteq Nat
      BY Given DEF Calls, EffectsAt
    <3>2. n = 0
      BY <1>1, <1>6, <2>1, <3>1 DEF NextCall
    <3> QED
      BY <1>7, <3>2 DEF Called, Effect
  <2>2. CASE Called(idx)
    BY <1>7, <2>2 DEF Called
  <2> QED
    BY <1>6, <2>1, <2>2
<1>11. /\ IsSeq(r) /\ IsSeq(txs')
       /\ \A m \in DOMAIN txs' : InTxs(txs'[m]) \/ \E j \in DOMAIN r : txs'[m] = r[j]
       /\ \A t : InTxs(t) => Now(t)
       /\ \A j \in DOMAIN r : Now(r[j])
       /\ \A j \in DOMAIN r : r[j] \in Templates
  <2>1. IsSeq(r)
    BY <1>7, Given
  <2>2. Joins(txs \o r, txs, r)
    BY <1>5, <2>1, ConcatSeq
  <2>3. Joins(txs', txs, r)
    BY <1>2, <2>2
  <2>4. \A j \in DOMAIN r : r[j] \in Templates
    BY <1>7 DEF Templates
  <2> QED
    BY <2>1, <2>3, <2>4 DEF Joins, InTxs
<1>12. Shape'
  BY <1>3, <1>4, <1>5, <1>11 DEF Shape, InStage
<1>13. AnswersOK'
  <2>1. PICK call : call = asked(n)
    OBVIOUS
  <2>2. call # <<"ensure">> /\ \A i : call # CondCall(i)
    BY <2>1 DEF CondCall
  <2>3. \A i, e : call = <<"call", i, e>> => i = idx
    BY <2>1
  <2>4. \A g \in DOMAIN cache' : g \in DOMAIN cache /\ cache'[g] = cache[g]
    BY <1>3
  <2>5. DOMAIN answers' = DOMAIN answers \cup {call} /\ answers'[call] \in TemplateLists
    BY <1>7, <2>1
  <2> HIDE DEF asked
  <2> QED
    BY <1>3, <1>4, <1>6, <1>7, <2>2, <2>3, <2>4, <2>5, AnswersAfter
<1>14. LeavesOK'
  BY <1>3, <1>4, <1>8, LeavesStay
<1>15. Working'
  <2>1. \A m \in DOMAIN txs' : txs'[m] \in Templates
    BY <1>4, <1>11 DEF Working, InTxs
  <2>2. /\ CondCall(idx)' \in DOMAIN answers' /\ IsKept(Decision(idx))'
        /\ nullable' = (Decision(idx)' = "Nullable")
    <3>1. CondCall(idx)' = CondCall(idx) /\ Decision(idx)' = Decision(idx)
      BY <1>3, <1>6, <1>7 DEF Decision, CondCall
    <3> QED
      BY <1>3, <1>6, <1>7, <3>1 DEF IsKept
  <2>3. GuardKnown(idx)' /\ guard' = GuardOf(idx)'
    <3>1. PICK k : k = idx
      OBVIOUS
    <3>2. GuardKnown(k)' /\ GuardOf(k)' = GuardOf(k)
      BY <1>5, <1>6, <1>8, <3>1, GuardStays
    <3> QED
      BY <1>3, <1>6, <3>1, <3>2
  <2>4. Calls(Func, names[idx])' = Calls(Func, names[idx])
    BY <1>3 DEF Calls, EffectsAt, Func
  <2>5. \A m \in Calls(Func, names[idx]) \ calls' :
          asked(m) \in DOMAIN answers' /\ \A x \in DOMAIN answers'[asked(m)] : Now(answers'[asked(m)][x])
    <3>1. ASSUME NEW m \in Calls(Func, names[idx]) \ calls'
          PROVE  asked(m) \in DOMAIN answers'
                 /\ \A x \in DOMAIN answers'[asked(m)] : Now(answers'[asked(m)][x])
      <4>1. CASE m = n
        BY <1>7, <1>11, <4>1
      <4>2. CASE m # n
        <5>1. m \in Calls(Func, names[idx]) \ calls
          BY <1>3, <3>1, <4>2
        <5>2. asked(m) \in DOMAIN answers /\ \A x \in DOMAIN answers[asked(m)] : InTxs(answers[asked(m)][x])
          BY <1>6, <5>1
        <5> QED
          BY <1>7, <1>11, <5>2
      <4> QED
        BY <4>1, <4>2
    <3> QED
      BY <3>1
  <2>6. CASE calls # {n}
    <3>1. pc' = "call" /\ calls' # {} /\ calls' \subseteq Calls(Func, names[idx])
      BY <1>1, <1>3, <1>6, <2>6
    <3>2. Called(idx)'
      BY <1>3, <1>10
    <3>3. ~IsThen'
      <4>1. IsThen' = IsThen
        BY <1>3 DEF IsThen, Func
      <4>2. IsThen => Calls(Func, names[idx]) = {0}
        BY DEF IsThen, Calls
      <4> QED
        BY <1>1, <1>6, <2>6, <4>1, <4>2
    <3> QED
      BY <1>3, <2>1, <2>2, <2>3, <2>4, <2>5, <3>1, <3>2, <3>3 DEF Working, InTxs
  <2>7. CASE calls = {n}
    <3>1. pc' = "insert" /\ calls' = {} /\ Called(idx)'
      BY <1>3, <1>10, <2>7
    <3>2. Asked(idx)' = {asked(m) : m \in Calls(Func, names[idx])}
      <4>1. Calls(contract.funcs[idx], names[idx])' = Calls(Func, names[idx])
        BY <1>3 DEF Calls, EffectsAt, Func
      <4> QED
        BY <1>3, <3>1, <4>1 DEF Asked
    <3>3. Asked(idx)' \subseteq DOMAIN answers'
      BY <2>5, <3>1, <3>2
    <3>4. \A t \in Returned(idx)' : Now(t)
      BY <2>5, <3>1, <3>2 DEF Returned
    <3>5. ASSUME IsThen', NEW m \in DOMAIN txs'
          PROVE  txs'[m] \in Returned(idx)'
      <4>1. IsThen /\ txs = <<>>
        BY <1>3, <1>6, <3>5 DEF IsThen, Func
      <4>2. PICK j \in DOMAIN r : txs'[m] = r[j]
        BY <1>11, <3>5, <4>1 DEF InTxs
      <4>3. asked(n) \in Asked(idx)' \cap DOMAIN answers'
        BY <1>6, <1>7, <2>7, <3>2
      <4> QED
        BY <1>7, <4>2, <4>3 DEF Returned
    <3>6. txClauses' = <<>>
      BY <1>3, <1>5
    <3> QED
      BY <2>1, <2>2, <2>3, <3>1, <3>3, <3>4, <3>5, <3>6 DEF Working, InTxs
  <2> QED
    BY <2>6, <2>7
<1>16. Committed'
  BY <1>3, <1>4, CommittedStays
<1>17. Outcomes'
  <2>1. Processed' = Processed /\ idx \notin Processed
    <3>1. idx \in Nat
      BY <1>4 DEF Shape
    <3> QED
      BY <1>3, <3>1 DEF Processed
  <2> QED
    BY <1>3, <1>4, <1>8, <1>9, <2>1, OutcomesStay
<1>18. NamesDerived'
  <2>1. \A p \in CallPaths(here, n) : Len(p) # 3
    <3>1. \A y, z : /\ Len(Append(here, y)) = 5
                    /\ Len(Append(Append(here, y), z)) = 6
      BY LongPaths
    <3>2. \A p \in CallPaths(here, n) : Len(p) = 5 \/ Len(p) = 6
      BY <3>1, Zenon DEF CallPaths
    <3>3. ASSUME NEW p \in CallPaths(here, n)
          PROVE  Len(p) # 3
      <4>1. Len(p) = 5 \/ Len(p) = 6
        BY <3>2
      <4>2. 5 # 3 /\ 6 # 3
        OBVIOUS
      <4> QED
        BY <4>1, <4>2, Zenon
    <3> QED
      BY <3>3
  <2> QED
    BY <1>3, <1>4, <2>1, OtherPaths
<1> QED
  BY <1>3, <1>12, <1>13, <1>14, <1>15, <1>16, <1>17, <1>18 DEF IInv, Sealed

LEMMA OrInserted ==
    ASSUME NEW map, NEW t
    PROVE  /\ DOMAIN OrInsert(map, t) = DOMAIN map \cup {t.hash}
           /\ \A h \in DOMAIN map : OrInsert(map, t)[h] = map[h]
           /\ t.hash \notin DOMAIN map => OrInsert(map, t)[t.hash] = t
BY DEF OrInsert, With

LEMMA InsertKept == ASSUME IInv, InsertTemplate PROVE IInv'
<1> DEFINE t == Head(txs)
           map == OrInsert(IF IsThen THEN committed ELSE suggested, t)
           kept == map[t.hash]
<1>1. CASE Fail
  BY <1>1, FailKept
<1>2. CASE ~Fail
  <2>1. /\ pc = "insert" /\ pc' = "insert" /\ txs # <<>>
        /\ UNCHANGED <<contract, effects, pass, previous, answers, idx, derived, usedNames,
                       names, nullable, guard, calls, cache, leaves, finishLeaves, points,
                       compiled>>
        /\ txs' = Tail(txs)
        /\ range' = UpdateRange(range, t.max)
        /\ IF IsThen
           THEN /\ committed' = map /\ suggested' = suggested
                /\ txClauses' = Append(txClauses, kept.guards \cup {CTV(t.hash)})
           ELSE suggested' = map /\ committed' = committed /\ txClauses' = txClauses
    BY <1>2 DEF InsertTemplate, passVars, nameVars, outVars, guardVars
  <2> HIDE DEF map, kept
  <2>2. Shape /\ AnswersOK /\ LeavesOK /\ Working /\ Committed /\ Outcomes /\ NamesDerived
    BY <2>1 DEF IInv, Live
  <2>3. IsSeq(txs) /\ IsSeq(txClauses)
    BY <2>2 DEF Shape
  <2>4. /\ IsSeq(txs') /\ t = txs[1] /\ 1 \in DOMAIN txs
        /\ \A i \in DOMAIN txs' : \E j \in DOMAIN txs : txs'[i] = txs[j]
        /\ \A j \in DOMAIN txs : j = 1 \/ \E i \in DOMAIN txs' : txs'[i] = txs[j]
    BY <2>1, <2>3, TailSeq
  <2>5. PICK u : u = t
    OBVIOUS
  <2> HIDE DEF t
  <2>6. /\ u \in Templates /\ u.max \in Nat /\ u.total \in Nat /\ u.total <= u.max
    BY <2>2, <2>4, <2>5, Given DEF Working
  <2>7. /\ Called(idx) /\ Asked(idx) \subseteq DOMAIN answers
        /\ IsThen => /\ \A n \in DOMAIN txs : txs[n] \in Returned(idx)
                     /\ \A x \in DOMAIN txClauses :
                          \E v \in Returned(idx) : CTV(v.hash) \in txClauses[x]
        /\ ~IsThen => /\ txClauses = <<>>
                      /\ \A v \in Returned(idx) : InTxs(v) \/ v.hash \in DOMAIN suggested
    BY <2>1, <2>2 DEF Working
  <2>8. Grows
    BY <2>1 DEF Grows
  <2>9. /\ IsSeq(txClauses')
        /\ \A x \in DOMAIN txClauses : x \in DOMAIN txClauses' /\ txClauses'[x] = txClauses[x]
        /\ \A x \in DOMAIN txClauses' :
             \/ x \in DOMAIN txClauses
             \/ IsThen /\ txClauses'[x] = kept.guards \cup {CTV(u.hash)}
        /\ IsThen => \E x \in DOMAIN txClauses' : CTV(u.hash) \in txClauses'[x]
    <3>1. CASE IsThen
      <4> DEFINE new == kept.guards \cup {CTV(u.hash)}
      <4>1. PICK e : e = new
        OBVIOUS
      <4>2. txClauses' = Append(txClauses, e)
        BY <2>1, <2>5, <3>1, <4>1
      <4>3. CTV(u.hash) \in e
        BY <4>1
      <4> HIDE DEF new
      <4>4. /\ IsSeq(txClauses') /\ Len(txClauses) + 1 \in DOMAIN txClauses'
            /\ txClauses'[Len(txClauses) + 1] = e
            /\ \A x \in DOMAIN txClauses : x \in DOMAIN txClauses' /\ txClauses'[x] = txClauses[x]
            /\ \A x \in DOMAIN txClauses' : x \in DOMAIN txClauses \/ x = Len(txClauses) + 1
        <5>1. Len(txClauses) + 1 \in 1..(Len(txClauses) + 1)
          BY <2>3, SeqDomain
        <5> QED
          BY <2>3, <4>2, <5>1, AppendSeq
      <4>5. \A x \in DOMAIN txClauses' : x \in DOMAIN txClauses \/ txClauses'[x] = e
        BY <4>4
      <4> QED
        BY <3>1, <4>1, <4>3, <4>4, <4>5 DEF new
    <3>2. CASE ~IsThen
      BY <2>1, <2>3, <3>2
    <3> QED
      BY <3>1, <3>2
  <2>10. Shape'
    BY <2>1, <2>2, <2>4, <2>9 DEF Shape, InStage
  <2>11. AnswersOK' /\ LeavesOK'
    BY <2>1, <2>2, <2>8, AnswersStay, LeavesStay
  <2>12. /\ DOMAIN committed \subseteq DOMAIN committed'
         /\ DOMAIN suggested \subseteq DOMAIN suggested'
         /\ IsThen => /\ DOMAIN committed' = DOMAIN committed \cup {u.hash}
                      /\ \A h \in DOMAIN committed : committed'[h] = committed[h]
                      /\ u.hash \notin DOMAIN committed => committed'[u.hash] = u
                      /\ kept = committed'[u.hash]
         /\ ~IsThen => u.hash \in DOMAIN suggested' /\ committed' = committed
    <3>1. CASE IsThen
      <4>1. map = OrInsert(committed, u) /\ kept = map[u.hash] /\ committed' = map
            /\ suggested' = suggested
        BY <2>1, <2>5, <3>1 DEF map, kept
      <4> QED
        BY <3>1, <4>1, OrInserted
    <3>2. CASE ~IsThen
      <4>1. suggested' = OrInsert(suggested, u) /\ committed' = committed
        BY <2>1, <2>5, <3>2 DEF map
      <4>2. DOMAIN suggested' = DOMAIN suggested \cup {u.hash}
        BY <4>1, OrInserted
      <4> QED
        BY <3>2, <4>1, <4>2
    <3> QED
      BY <3>1, <3>2
  <2>13. /\ Returned(idx)' = Returned(idx) /\ Asked(idx)' = Asked(idx) /\ Called(idx)'
         /\ IsThen' = IsThen
    <3>1. Asked(idx)' = Asked(idx) /\ Called(idx)' = Called(idx)
      BY <2>1 DEF Asked, Called, Calls, EffectsAt
    <3> QED
      BY <2>1, <2>7, <3>1 DEF Returned, IsThen, Func
  <2>14. Working'
    <3>1. \A n \in DOMAIN txs' : txs'[n] \in Templates
      BY <2>2, <2>4 DEF Working
    <3>2. /\ CondCall(idx)' \in DOMAIN answers' /\ IsKept(Decision(idx))'
          /\ nullable' = (Decision(idx)' = "Nullable")
          /\ GuardKnown(idx)' /\ guard' = GuardOf(idx)'
      BY <2>1, <2>2
         DEF Working, CondCall, Decision, GuardKnown, GuardOf, GuardCall, GuardAt, GuardAnswer, IsKept
    <3>3. ASSUME IsThen
          PROVE  /\ \A n \in DOMAIN txs' : txs'[n] \in Returned(idx)
                 /\ \A x \in DOMAIN txClauses' :
                      \E v \in Returned(idx) : CTV(v.hash) \in txClauses'[x]
      <4>1. u \in Returned(idx)
        BY <2>4, <2>5, <2>7, <3>3
      <4> QED
        BY <2>4, <2>7, <2>9, <3>3, <4>1
    <3>4. ASSUME ~IsThen, NEW v \in Returned(idx)
          PROVE  (\E n \in DOMAIN txs' : txs'[n] = v) \/ v.hash \in DOMAIN suggested'
      <4>1. CASE InTxs(v)
        BY <2>4, <2>5, <2>12, <3>4, <4>1 DEF InTxs
      <4>2. CASE v.hash \in DOMAIN suggested
        BY <2>12, <4>2
      <4> QED
        BY <2>7, <3>4, <4>1, <4>2
    <3>5. ~IsThen => txClauses' = <<>>
      BY <2>1, <2>7
    <3> QED
      BY <2>1, <2>7, <2>13, <3>1, <3>2, <3>3, <3>4, <3>5 DEF Working, InTxs
  <2>15. Committed'
    <3>1. range'.max \in Int /\ range'.max >= range.max /\ range'.max >= u.max
      BY <2>1, <2>2, <2>5, <2>6 DEF UpdateRange, Larger, Committed
    <3>2. ASSUME NEW h \in DOMAIN committed'
          PROVE  /\ committed'[h] \in Templates /\ committed'[h].hash = h
                 /\ committed'[h].total <= range'.max
                 /\ LeafHas(CTV(h))' \/ ClauseHas(CTV(h))'
      <4>1. CASE h \in DOMAIN committed
        <5>1. /\ committed[h] \in Templates /\ committed[h].hash = h
              /\ committed[h].total <= range.max /\ committed[h].total \in Nat
              /\ LeafHas(CTV(h)) \/ ClauseHas(CTV(h))
              /\ range.max \in Int
          BY <2>2, <4>1, Given DEF Committed
        <5>2. committed'[h] = committed[h]
          BY <2>12, <4>1
        <5>3. committed[h].total <= range'.max
          BY <3>1, <5>1
        <5>4. LeafHas(CTV(h))' \/ ClauseHas(CTV(h))'
          BY <2>1, <2>9, <5>1 DEF LeafHas, ClauseHas
        <5> QED
          BY <5>1, <5>2, <5>3, <5>4
      <4>2. CASE h \notin DOMAIN committed
        <5>1. IsThen /\ h = u.hash /\ committed'[h] = u
          BY <2>12, <3>2, <4>2
        <5>2. u.total <= range'.max
          BY <2>6, <3>1
        <5> QED
          BY <2>6, <2>9, <5>1, <5>2 DEF ClauseHas
      <4> QED
        BY <4>1, <4>2
    <3>3. ASSUME NEW h, LeafHas(CTV(h))' \/ ClauseHas(CTV(h))'
          PROVE  h \in DOMAIN committed'
      <4>1. CASE LeafHas(CTV(h)) \/ ClauseHas(CTV(h))
        BY <2>2, <2>12, <4>1 DEF Committed
      <4>2. CASE IsThen /\ CTV(h) \in kept.guards \cup {CTV(u.hash)}
        <5>1. kept \in Templates
          BY <2>2, <2>6, <2>12, <4>2 DEF Committed
        <5>2. CTV(h) \notin kept.guards
          BY <5>1, Given DEF CTV
        <5>3. h = u.hash
          BY <4>2, <5>2 DEF CTV
        <5> QED
          BY <2>12, <4>2, <5>3
      <4> QED
        BY <2>1, <2>9, <3>3, <4>1, <4>2 DEF LeafHas, ClauseHas
    <3>4. \A l \in DOMAIN finishLeaves' : IsPlain(finishLeaves'[l])
      BY <2>1, <2>2 DEF Committed
    <3> QED
      BY <2>1, <3>1, <3>2, <3>3, <3>4 DEF Committed
  <2>16. Outcomes'
    <3>1. Processed' = Processed /\ \A i : Called(i)' => Called(i)
      BY <2>1 DEF Processed, Called
    <3> QED
      BY <2>1, <2>2, <2>8, <2>12, <3>1, OutcomesStay
  <2>17. NamesDerived'
    BY <2>1, <2>2 DEF NamesDerived
  <2> QED
    BY <2>1, <2>10, <2>11, <2>14, <2>15, <2>16, <2>17 DEF IInv, Sealed
<1> QED
  BY <1>1, <1>2

LEMMA DoneKept ==
    ASSUME IInv, pc = "insert", txs = <<>>, NEW new, IsSeq(new), FunctionDone(new),
           points \subseteq points', ~IsThen => PathOf(idx) \in points',
           \A l \in DOMAIN new : \A way \in Ways(new[l]) : LicensedBy(idx, way),
           \A h : ClauseHas(CTV(h)) =>
             \E l \in DOMAIN new : \E way \in Ways(new[l]) : CTV(h) \in way,
           \A h : (\E l \in DOMAIN new : \E way \in Ways(new[l]) : CTV(h) \in way) =>
             ClauseHas(CTV(h)),
           IsThen /\ Returned(idx) = {} => Decision(idx) = "Nullable"
    PROVE  IInv'
<1>1. /\ pc' = "name" /\ idx' = idx + 1 /\ leaves' = leaves \o new
      /\ guard' = Trivial /\ txClauses' = <<>>
      /\ UNCHANGED <<contract, effects, pass, previous, answers, derived, usedNames, names,
                     calls, txs, cache, committed, suggested, range, finishLeaves, compiled>>
  BY DEF FunctionDone, passVars, nameVars, guardVars, txVars
<1>2. Shape /\ AnswersOK /\ LeavesOK /\ Working /\ Committed /\ Outcomes /\ NamesDerived
  BY DEF IInv, Live
<1>3. /\ contract \in Contracts /\ IsSeq(contract.funcs) /\ IsSeq(names)
      /\ idx \in Nat \ {0} /\ Len(names) = idx /\ idx \in Functions /\ idx \in DOMAIN names
      /\ idx <= Len(contract.funcs) /\ IsSeq(leaves)
  <2>1. contract \in Contracts /\ IsSeq(names) /\ idx \in Nat \ {0} /\ Len(names) = idx
        /\ idx \in DOMAIN contract.funcs /\ IsSeq(leaves)
    BY <1>2 DEF Shape, InStage
  <2> QED
    BY <2>1, Given, SeqDomain DEF Functions
<1>4. Joins(leaves', leaves, new)
  BY <1>1, <1>3, ConcatSeq
<1>5. Grows
  BY <1>1 DEF Grows
<1>6. Shape'
  <2>1. IsSeq(Trivial) /\ IsPlain(Trivial)
    BY TrivialPlain
  <2>2. IsSeq(leaves') /\ IsSeq(txClauses')
    <3>1. IsSeq(<<>>)
      BY DEF IsSeq
    <3> QED
      BY <1>1, <1>4, <3>1 DEF Joins
  <2> QED
    BY <1>1, <1>2, <1>3, <2>1, <2>2 DEF Shape, InStage
<1>7. AnswersOK'
  BY <1>1, <1>2, AnswersStay
<1>8. LeavesOK'
  <2>1. ASSUME NEW l \in DOMAIN leaves', NEW way \in Ways(leaves'[l])
        PROVE  \E i : LicensedBy(i, way)'
    <3>1. \E i : LicensedBy(i, way)
      <4>1. CASE l \in DOMAIN leaves /\ leaves'[l] = leaves[l]
        BY <1>2, <2>1, <4>1 DEF LeavesOK
      <4>2. CASE \E j \in DOMAIN new : leaves'[l] = new[j]
        BY <2>1, <4>2
      <4> QED
        BY <1>4, <2>1, <4>1, <4>2 DEF Joins
    <3> QED
      BY <1>5, <3>1, LicensedStays
  <2>2. ASSUME NEW l \in DOMAIN finishLeaves', NEW way \in Ways(finishLeaves'[l])
        PROVE  \E j : LicensedByFinish(j, way)'
    BY <1>1, <1>2, <1>5, <2>2, FinishLicenseStays DEF LeavesOK
  <2> QED
    BY <2>1, <2>2 DEF LeavesOK
<1>9. Working'
  BY <1>1 DEF Working
<1>10. Committed'
  <2>1. \A a : LeafHas(a)' <=>
          LeafHas(a) \/ \E l \in DOMAIN new : \E way \in Ways(new[l]) : a \in way
    BY <1>4 DEF Joins, LeafHas
  <2>2. \A h : ~ClauseHas(CTV(h))'
    BY <1>1 DEF ClauseHas
  <2> QED
    BY <1>1, <1>2, <2>1, <2>2 DEF Committed
<1>11. Outcomes'
  <2>1. \A i : Called(i)' <=> Called(i)
    BY <1>1 DEF Called
  <2>2. \A i \in Processed : Outcome(i)'
    BY <1>1, <1>2, <1>5, <2>1, OutcomeStays DEF Outcomes
  <2>3. Processed' = Processed \cup {idx}
    BY <1>1, <1>3 DEF Processed
  <2>4. PICK k : k = idx
    OBVIOUS
  <2>5. Outcome(k)'
    <3>1. /\ Called(k) /\ Asked(k) \subseteq DOMAIN answers
          /\ CondCall(k) \in DOMAIN answers /\ IsKept(Decision(k))
          /\ contract.funcs[k].kind # "then" =>
               \A t \in Returned(k) : t.hash \in DOMAIN suggested
      BY <1>2, <2>4 DEF Working, InTxs, IsThen, Func
    <3>2. /\ (k \in Functions)' /\ (k \in DOMAIN names)' /\ Called(k)' /\ Asked(k)' = Asked(k)
          /\ Decision(k)' = Decision(k) /\ CondCall(k)' = CondCall(k)
          /\ Returned(k)' = Returned(k) /\ PathOf(k)' = PathOf(k)
      <4>1. Asked(k)' = Asked(k)
        BY <1>1, <2>1 DEF Asked, Calls, EffectsAt
      <4> QED
        BY <1>1, <1>3, <2>1, <2>4, <3>1, <4>1
           DEF Functions, Decision, CondCall, Returned, PathOf
    <3>3. contract.funcs[k].kind = "then" <=> IsThen
      BY <2>4 DEF IsThen, Func
    <3>4. ~IsThen => PathOf(k) \in points'
      BY <2>4
    <3>5. IsThen /\ Returned(k) = {} => Decision(k) = "Nullable"
      BY <2>4
    <3>6. Decision(k) # "Fail"
      BY <3>1 DEF IsKept
    <3> HIDE DEF IsThen
    <3> QED
      BY <1>1, <3>1, <3>2, <3>3, <3>4, <3>5, <3>6 DEF Outcome
  <2> QED
    BY <2>2, <2>3, <2>4, <2>5 DEF Outcomes
<1>12. NamesDerived'
  BY <1>1, <1>2 DEF NamesDerived
<1> QED
  BY <1>1, <1>6, <1>7, <1>8, <1>9, <1>10, <1>11, <1>12 DEF IInv, Sealed

LEMMA CombineKept == ASSUME IInv, CombineTemplates PROVE IInv'
<1>1. pc = "insert" /\ txs = <<>> /\ IsThen
  BY DEF CombineTemplates
<1>2. Shape /\ AnswersOK /\ Working /\ Committed
  BY <1>1 DEF IInv, Live
<1>3. /\ Called(idx) /\ GuardKnown(idx) /\ guard = GuardOf(idx)
      /\ nullable = (Decision(idx) = "Nullable")
      /\ \A x \in DOMAIN txClauses : \E t \in Returned(idx) : CTV(t.hash) \in txClauses[x]
  BY <1>1, <1>2 DEF Working
<1>4. IsSeq(guard) /\ IsPlain(guard) /\ IsSeq(txClauses) /\ IsSeq(<<>>)
  BY <1>2 DEF Shape, IsSeq
<1>5. idx \in Functions /\ idx \in DOMAIN names
  <2>1. idx \in DOMAIN contract.funcs /\ idx = Len(names) /\ idx \in Nat \ {0} /\ IsSeq(names)
    BY <1>1, <1>2 DEF Shape, InStage
  <2> QED
    BY <2>1, SeqDomain DEF Functions
<1>6. CASE Fail
  BY <1>6, FailKept
<1>7. CASE nullable /\ txClauses = <<>> /\ FunctionDone(<<>>) /\ UNCHANGED points
  <2>1. \A h : ~ClauseHas(CTV(h))
    BY <1>7 DEF ClauseHas
  <2>2. PICK new : new = <<>>
    OBVIOUS
  <2>3. IsSeq(new) /\ FunctionDone(new) /\ DOMAIN new = {}
    BY <1>4, <1>7, <2>2
  <2>4. Decision(idx) = "Nullable"
    BY <1>3, <1>7
  <2>5. points \subseteq points'
    BY <1>7
  <2> QED
    BY <1>1, <2>1, <2>3, <2>4, <2>5, DoneKept
<1>8. CASE txClauses # <<>> /\ guard # Unsatisfiable /\ FunctionDone(Combined) /\ UNCHANGED points
  <2>1. 1 \in DOMAIN guard /\ 1 \in DOMAIN txClauses
    BY <1>4, <1>8, TailSeq DEF Unsatisfiable
  <2>2. IsSeq(Combined)
    BY <1>4, MapSeq DEF Combined
  <2>3. \A l \in DOMAIN Combined : \A way :
          way \in Ways(Combined[l]) <=> \E j \in DOMAIN guard : way = guard[j] \cup txClauses[l]
    BY DEF Combined, Conjoin, Ways
  <2>4. DOMAIN Combined = DOMAIN txClauses
    BY DEF Combined
  <2> HIDE DEF Combined
  <2>5. ASSUME NEW l \in DOMAIN Combined, NEW way \in Ways(Combined[l])
        PROVE  LicensedBy(idx, way)
    <3>1. PICK j \in DOMAIN guard : way = guard[j] \cup txClauses[l]
      BY <2>3, <2>5
    <3>2. PICK t \in Returned(idx) : CTV(t.hash) \in txClauses[l]
      BY <1>3, <2>4
    <3>3. guard[j] \in Ways(GuardOf(idx))
      BY <1>3 DEF Ways
    <3>4. guard[j] \cup {CTV(t.hash)} \subseteq way
      BY <3>1, <3>2
    <3>5. contract.funcs[idx].kind = "then"
      BY <1>1 DEF IsThen, Func
    <3> QED
      BY <1>3, <1>5, <3>2, <3>3, <3>4, <3>5 DEF LicensedBy
  <2>6. ASSUME NEW h, ClauseHas(CTV(h))
        PROVE  \E l \in DOMAIN Combined : \E way \in Ways(Combined[l]) : CTV(h) \in way
    <3>1. PICK x \in DOMAIN txClauses : CTV(h) \in txClauses[x]
      BY <2>6 DEF ClauseHas
    <3>2. guard[1] \cup txClauses[x] \in Ways(Combined[x])
      BY <2>1, <2>3, <2>4
    <3> QED
      BY <2>4, <3>1, <3>2
  <2>7. ASSUME NEW h, NEW l \in DOMAIN Combined, NEW way \in Ways(Combined[l]), CTV(h) \in way
        PROVE  ClauseHas(CTV(h))
    <3>1. PICK j \in DOMAIN guard : way = guard[j] \cup txClauses[l]
      BY <2>3, <2>7
    <3>2. CTV(h) \notin guard[j]
      BY <1>4 DEF IsPlain, CTV
    <3> QED
      BY <2>4, <2>7, <3>1, <3>2 DEF ClauseHas
  <2>8. Returned(idx) # {}
    BY <1>3, <2>1
  <2> QED
    BY <1>1, <1>8, <2>2, <2>5, <2>6, <2>7, <2>8, DoneKept
<1> QED
  BY <1>6, <1>7, <1>8 DEF CombineTemplates

LEMMA ContinuationKept == ASSUME IInv, AddContinuation PROVE IInv'
<1>1. pc = "insert" /\ txs = <<>> /\ ~IsThen
  BY DEF AddContinuation
<1>2. Shape /\ Working
  BY <1>1 DEF IInv, Live
<1>3. /\ Called(idx) /\ GuardKnown(idx) /\ guard = GuardOf(idx) /\ txClauses = <<>>
  BY <1>1, <1>2 DEF Working
<1>4. IsSeq(guard) /\ IsPlain(guard)
  BY <1>2 DEF Shape
<1>5. idx \in Functions /\ idx \in DOMAIN names /\ idx = Len(names)
  <2>1. idx \in DOMAIN contract.funcs /\ idx = Len(names) /\ idx \in Nat \ {0} /\ IsSeq(names)
    BY <1>1, <1>2 DEF Shape, InStage
  <2> QED
    BY <2>1, SeqDomain DEF Functions
<1>6. CASE Fail
  BY <1>6, FailKept
<1>7. CASE FunctionDone(Flatten(guard))
           /\ points' = points \cup {EffectPath(Func, names[Len(names)])}
  <2> DEFINE new == Flatten(guard)
  <2>1. IsSeq(new)
    BY <1>4, MapSeq DEF Flatten
  <2>2. \A l \in DOMAIN new : l \in DOMAIN guard /\ Ways(new[l]) = {guard[l]}
    BY DEF Flatten, Ways
  <2> HIDE DEF new
  <2>3. ASSUME NEW l \in DOMAIN new, NEW way \in Ways(new[l])
        PROVE  LicensedBy(idx, way)
    <3>1. way \in Ways(GuardOf(idx))
      BY <1>3, <2>2, <2>3 DEF Ways
    <3>2. contract.funcs[idx].kind # "then"
      BY <1>1 DEF IsThen, Func
    <3> QED
      BY <1>3, <1>5, <3>1, <3>2 DEF LicensedBy
  <2>4. \A h : \A l \in DOMAIN new : \A way \in Ways(new[l]) : CTV(h) \notin way
    BY <1>4, <2>2 DEF IsPlain, CTV
  <2>5. \A h : ~ClauseHas(CTV(h))
    BY <1>3 DEF ClauseHas
  <2>6. points \subseteq points' /\ PathOf(idx) \in points'
    BY <1>5, <1>7 DEF PathOf, Func
  <2>7. FunctionDone(new)
    BY <1>7 DEF new
  <2> QED
    BY <1>1, <2>1, <2>3, <2>4, <2>5, <2>6, <2>7, DoneKept
<1> QED
  BY <1>6, <1>7 DEF AddContinuation

LEMMA FunctionsDoneKept == ASSUME IInv, FunctionsDone PROVE IInv'
<1>1. /\ pc = "name" /\ pc' = "finish" /\ idx' = 1 /\ idx > Len(contract.funcs)
      /\ derived' = derived \cup {Append(Root, "FinishFn")}
      /\ UNCHANGED <<contract, effects, pass, previous, answers, usedNames, names, nullable,
                     guard, calls, txs, txClauses, cache, committed, suggested, range, leaves,
                     finishLeaves, points, compiled>>
  BY DEF FunctionsDone, Derive, passVars, nameVars, funcVars, guardVars, txVars, outVars
<1>2. Shape /\ AnswersOK /\ LeavesOK /\ Working /\ Committed /\ Outcomes /\ NamesDerived
  BY <1>1 DEF IInv, Live
<1>3. /\ IsSeq(contract.funcs) /\ IsSeq(names) /\ idx = Len(names) + 1
      /\ Len(names) <= Len(contract.funcs)
  BY <1>1, <1>2, Given DEF Shape
<1>4. /\ Len(names) = Len(contract.funcs) /\ 1..(idx - 1) = DOMAIN contract.funcs
  BY <1>1, <1>3, SeqDomain
<1>5. Grows
  BY <1>1 DEF Grows
<1>6. Shape'
  BY <1>1, <1>2, <1>4 DEF Shape, InStage
<1>7. AnswersOK' /\ LeavesOK' /\ Committed'
  BY <1>1, <1>2, <1>5, AnswersStay, LeavesStay, CommittedStays
<1>8. Working'
  BY <1>1, <1>2 DEF Working
<1>9. Outcomes'
  <2>1. Processed' = Processed
    BY <1>1, <1>4 DEF Processed, Functions
  <2>2. \A i : Called(i)' => Called(i)
    BY <1>1 DEF Called
  <2> QED
    BY <1>1, <1>2, <1>5, <2>1, <2>2, OutcomesStay
<1>10. NamesDerived'
  <2> DEFINE paths == {Append(Root, "FinishFn")}
  <2>1. \A p \in paths : Len(p) # 3
    BY DEF Root
  <2> HIDE DEF paths
  <2>2. derived' = derived \cup paths
    BY <1>1 DEF paths
  <2> QED
    BY <1>1, <1>2, <2>1, <2>2, OtherPaths
<1> QED
  BY <1>1, <1>6, <1>7, <1>8, <1>9, <1>10 DEF IInv, Sealed

LEMMA FinishKept == ASSUME IInv, FinishFn PROVE IInv'
<1>1. PICK c \in Clauses :
        /\ GetGuard(contract.finishes[idx], FinishCtx(idx), c)
        /\ finishLeaves' = finishLeaves \o Flatten(c)
        /\ Derive({FinishCtx(idx), Append(FinishCtx(idx), "Metadata")})
        /\ idx' = idx + 1
        /\ UNCHANGED <<passVars, pc, nameVars, funcVars, txVars, leaves, points, compiled>>
  BY DEF FinishFn
<1>2. /\ pc = "finish" /\ pc' = "finish" /\ idx <= Len(contract.finishes) /\ idx' = idx + 1
      /\ UNCHANGED <<contract, effects, pass, previous, usedNames, names, nullable, guard,
                     calls, txs, txClauses, committed, suggested, range, leaves, points,
                     compiled>>
      /\ derived' = derived \cup {FinishCtx(idx), Append(FinishCtx(idx), "Metadata")}
  BY <1>1 DEF FinishFn, Derive, passVars, nameVars, funcVars, txVars
<1>3. Shape /\ AnswersOK /\ LeavesOK /\ Working /\ Committed /\ Outcomes /\ NamesDerived
  BY <1>2 DEF IInv, Live
<1>4. /\ idx \in Nat \ {0} /\ idx \in DOMAIN contract.finishes /\ IsSeq(finishLeaves)
      /\ IsSeq(c) /\ IsPlain(c)
  <2>1. idx \in Nat \ {0} /\ IsSeq(contract.finishes) /\ IsSeq(finishLeaves)
    BY <1>3, Given DEF Shape
  <2> QED
    BY <1>2, <2>1, Given, SeqDomain
<1>5. PICK k, at, g : k = idx /\ at = FinishCtx(idx) /\ g = contract.finishes[idx]
  OBVIOUS
<1>6. /\ \A x \in DOMAIN answers : x \in DOMAIN answers' /\ answers'[x] = answers[x]
      /\ DOMAIN answers' = DOMAIN answers \cup {GuardCall(g, at)}
      /\ answers'[GuardCall(g, at)] = c
      /\ AnswersOK'
  <2>1. GetGuard(g, at, c)
    BY <1>1, <1>5
  <2> QED
    BY <1>2, <1>3, <2>1, GuardAnswered
<1>7. \A i : Called(i)' <=> Called(i)
  BY <1>6, GuardIsNoCall
<1>8. Grows
  BY <1>2, <1>6 DEF Grows
<1>9. /\ Joins(finishLeaves', finishLeaves, Flatten(c))
      /\ \A l \in DOMAIN Flatten(c) : l \in DOMAIN c /\ Flatten(c)[l] = <<c[l]>>
  <2>1. IsSeq(Flatten(c))
    BY <1>4, MapSeq DEF Flatten
  <2>2. Joins(finishLeaves \o Flatten(c), finishLeaves, Flatten(c))
    BY <1>4, <2>1, ConcatSeq
  <2>3. finishLeaves' = finishLeaves \o Flatten(c)
    BY <1>1
  <2>4. \A l \in DOMAIN Flatten(c) : l \in DOMAIN c /\ Flatten(c)[l] = <<c[l]>>
    BY DEF Flatten
  <2> QED
    BY <2>2, <2>3, <2>4
<1>10. \A l \in DOMAIN finishLeaves' :
         \/ l \in DOMAIN finishLeaves /\ finishLeaves'[l] = finishLeaves[l]
         \/ \E j \in DOMAIN c : finishLeaves'[l] = <<c[j]>>
  BY <1>9 DEF Joins
<1>11. Shape'
  BY <1>2, <1>3, <1>4, <1>9 DEF Shape, InStage, Joins
<1>12. LeavesOK'
  <2>1. ASSUME NEW l \in DOMAIN leaves', NEW way \in Ways(leaves'[l])
        PROVE  \E i : LicensedBy(i, way)'
    BY <1>2, <1>3, <1>8, <2>1, LicensedStays DEF LeavesOK
  <2>2. ASSUME NEW l \in DOMAIN finishLeaves', NEW way \in Ways(finishLeaves'[l])
        PROVE  \E j : LicensedByFinish(j, way)'
    <3>1. CASE l \in DOMAIN finishLeaves /\ finishLeaves'[l] = finishLeaves[l]
      BY <1>3, <1>8, <2>2, <3>1, FinishLicenseStays DEF LeavesOK
    <3>2. CASE \E j \in DOMAIN c : finishLeaves'[l] = <<c[j]>>
      <4>1. way \in Ways(c)
        BY <2>2, <3>2 DEF Ways
      <4>2. LicensedByFinish(k, way)'
        BY <1>2, <1>4, <1>5, <1>6, <4>1 DEF LicensedByFinish, GuardCall, GuardAnswer
      <4> QED
        BY <4>2
    <3> QED
      BY <1>10, <2>2, <3>1, <3>2
  <2> QED
    BY <2>1, <2>2 DEF LeavesOK
<1>13. Working'
  BY <1>2, <1>3 DEF Working
<1>14. Committed'
  <2>1. \A l \in DOMAIN finishLeaves' : IsPlain(finishLeaves'[l])
    <3>1. \A j \in DOMAIN c : IsPlain(<<c[j]>>)
      BY <1>4 DEF IsPlain
    <3> QED
      BY <1>3, <1>10, <3>1 DEF Committed
  <2> QED
    BY <1>2, <1>3, <2>1 DEF Committed, LeafHas, ClauseHas
<1>15. Outcomes'
  <2>1. Processed' = Processed
    BY <1>2 DEF Processed, Functions
  <2> QED
    BY <1>2, <1>3, <1>7, <1>8, <2>1, OutcomesStay
<1>16. NamesDerived'
  <2> DEFINE paths == {FinishCtx(idx), Append(FinishCtx(idx), "Metadata")}
  <2>1. ASSUME NEW s
        PROVE  /\ (Root \o <<"FinishFn", s>>)[2] = "FinishFn"
               /\ Len(Append(Root \o <<"FinishFn", s>>, "Metadata")) = 4
    <3>1. PICK q : q = Root \o <<"FinishFn", s>>
      OBVIOUS
    <3>2. q \in Seq({"root", "FinishFn", s}) /\ Len(q) = 3 /\ q[2] = "FinishFn"
      BY <3>1 DEF Root
    <3>3. Len(Append(q, "Metadata")) = 4
      BY <3>2, SeqOf, AppendSeq
    <3> QED
      BY <3>1, <3>2, <3>3
  <2>2. FinishCtx(idx)[2] = "FinishFn" /\ Len(Append(FinishCtx(idx), "Metadata")) = 4
    BY <2>1 DEF FinishCtx
  <2>3. \A p \in paths : p[2] = "FinishFn" \/ Len(p) = 4
    BY <2>2, Zenon
  <2>4. derived' = derived \cup paths
    BY <1>2
  <2> HIDE DEF paths
  <2>5. \A p \in paths : Len(p) # 3 \/ p[2] # "Action"
    BY <2>3
  <2> QED
    BY <1>2, <1>3, <2>4, <2>5, OtherPaths
<1> QED
  BY <1>2, <1>6, <1>11, <1>12, <1>13, <1>14, <1>15, <1>16 DEF IInv, Sealed

(* The key of the taproot is a leaf of its own, or nobody's.               *)
LEMMA KeyIsALeaf ==
    ASSUME IsSeq(AllLeaves)
    PROVE  PickKey = NUMS \/ <<{PickKey}>> \in {AllLeaves[i] : i \in DOMAIN AllLeaves}
<1> DEFINE bare == {i \in DOMAIN AllLeaves : IsBareKey(AllLeaves[i])}
           first == CHOOSE i \in bare : \A j \in bare : i <= j
           key == CHOOSE k \in Keys : AllLeaves[first] = <<{k}>>
<1>1. PickKey = IF bare = {} THEN NUMS ELSE key
  BY DEF PickKey
<1>2. ASSUME bare # {}
      PROVE  first \in bare
  <2>1. bare \in SUBSET Nat
    BY SeqDomain
  <2> HIDE DEF bare
  <2>2. \E i \in bare : \A j \in bare : i <= j
    BY <1>2, <2>1, LeastNat
  <2> QED
    BY <2>2
<1>3. ASSUME bare # {}
      PROVE  AllLeaves[first] = <<{key}>> /\ first \in DOMAIN AllLeaves
  <2>1. \E k \in Keys : AllLeaves[first] = <<{k}>>
    BY <1>2, <1>3 DEF IsBareKey
  <2>2. first \in DOMAIN AllLeaves
    BY <1>2, <1>3
  <2> HIDE DEF first
  <2> QED
    BY <2>1, <2>2
<1> HIDE DEF bare, first, key
<1> QED
  BY <1>1, <1>3

LEMMA SealKept == ASSUME IInv, Seal PROVE IInv'
<1>1. CASE Fail
  BY <1>1, FailKept
<1>2. CASE ~Fail
  <2>1. /\ pc = "finish"
        /\ UNCHANGED <<contract, effects, pass, previous, answers, idx, usedNames, names,
                       nullable, guard, calls, txs, txClauses, cache, committed, suggested,
                       range, leaves, finishLeaves, points>>
        /\ IF \A h \in DOMAIN committed : Fees(committed[h]) >= 0
           THEN pc' = "done" /\ SealCompiled
           ELSE pc' = "panic" /\ UNCHANGED <<compiled, derived>>
    BY <1>2 DEF Seal, passVars, nameVars, funcVars, guardVars, txVars
  <2>2. Shape /\ AnswersOK /\ LeavesOK /\ Working /\ Committed /\ Outcomes /\ NamesDerived
    BY <2>1 DEF IInv, Live
  <2>3. \A h \in DOMAIN committed : Fees(committed[h]) >= 0
    <3>1. ASSUME NEW h \in DOMAIN committed
          PROVE  Fees(committed[h]) >= 0
      <4>1. committed[h].total \in Nat /\ range.max \in Int /\ committed[h].total <= range.max
        BY <2>2, Given DEF Committed
      <4> QED
        BY <4>1 DEF Fees
    <3> QED
      BY <3>1
  <2>4. pc' = "done" /\ SealCompiled
    BY <2>1, <2>3
  <2>5. Grows
    BY <2>1 DEF Grows
  <2>6. Shape'
    BY <2>1, <2>2, <2>4 DEF Shape, InStage
  <2>7. AnswersOK' /\ LeavesOK' /\ Committed'
    BY <2>1, <2>2, <2>5, AnswersStay, LeavesStay, CommittedStays
  <2>8. Working'
    BY <2>1, <2>2, <2>4 DEF Working
  <2>9. Outcomes'
    <3>1. Processed' = Processed
      BY <2>1, <2>4 DEF Processed, Functions
    <3>2. \A i : Called(i)' => Called(i)
      BY <2>1 DEF Called
    <3> QED
      BY <2>1, <2>2, <2>5, <3>1, <3>2, OutcomesStay
  <2>10. NamesDerived'
    <3> DEFINE paths == {Append(Root, "Metadata")}
    <3>1. \A p \in paths : Len(p) # 3
      BY DEF Root
    <3>2. derived' = derived \cup paths
      BY <2>4 DEF SealCompiled, Derive
    <3> HIDE DEF paths
    <3> QED
      BY <2>1, <2>2, <3>1, <3>2, OtherPaths
  <2>11. Sealed'
    <3>1. IsSeq(finishLeaves) /\ IsSeq(leaves)
      BY <2>2 DEF Shape
    <3>2. IsSeq(AllLeaves)
      BY <3>1, ConcatSeq DEF AllLeaves, Joins
    <3>3. PickKey = NUMS \/ <<{PickKey}>> \in {AllLeaves[i] : i \in DOMAIN AllLeaves}
      BY <3>2, KeyIsALeaf
    <3>4. /\ compiled'.key = PickKey /\ compiled'.leaves = AllLeaves
          /\ compiled'.points = points' /\ compiled'.suggested = suggested'
          /\ AllLeaves' = AllLeaves
      BY <2>1, <2>4 DEF SealCompiled, AllLeaves
    <3> QED
      BY <3>3, <3>4 DEF Sealed
  <2> QED
    BY <2>4, <2>6, <2>7, <2>8, <2>9, <2>10, <2>11 DEF IInv
<1> QED
  BY <1>1, <1>2

LEMMA RecompileKept == ASSUME IInv, Recompile PROVE IInv'
<1>1. /\ pc = "done" /\ pc' = "ensure" /\ idx' = 1 /\ derived' = {} /\ names' = <<>>
      /\ guard' = Trivial /\ cache' = <<>> /\ txs' = <<>> /\ txClauses' = <<>>
      /\ committed' = <<>> /\ suggested' = <<>> /\ leaves' = <<>> /\ finishLeaves' = <<>>
      /\ range' = [min |-> -1, max |-> -1]
      /\ contract' = contract /\ answers' = answers
  BY DEF Recompile
<1>2. Shape /\ AnswersOK
  BY <1>1 DEF IInv, Live
<1>3. IsSeq(<<>>) /\ Len(<<>>) = 0 /\ DOMAIN <<>> = {}
  BY DEF IsSeq
<1>4. IsSeq(Trivial) /\ IsPlain(Trivial)
  BY TrivialPlain
<1>5. Shape'
  BY <1>1, <1>2, <1>3, <1>4 DEF Shape, InStage
<1>6. AnswersOK'
  BY <1>1, <1>2, <1>3 DEF AnswersOK, Functions, Called, Decision
<1>7. LeavesOK' /\ Working'
  BY <1>1 DEF LeavesOK, Working
<1>8. Committed'
  BY <1>1 DEF Committed, LeafHas, ClauseHas
<1>9. Outcomes' /\ NamesDerived' /\ Sealed'
  BY <1>1 DEF Outcomes, Processed, NamesDerived, Sealed
<1> QED
  BY <1>1, <1>5, <1>6, <1>7, <1>8, <1>9 DEF IInv

LEMMA StutterKept == ASSUME IInv, UNCHANGED vars PROVE IInv'
<1>1. UNCHANGED <<contract, effects, pass, previous, answers, pc, idx, derived, usedNames,
                  names, nullable, guard, calls, txs, txClauses, cache, committed, suggested,
                  range, leaves, finishLeaves, points, compiled>>
  BY DEF vars, passVars, nameVars, funcVars, guardVars, txVars, outVars
<1>2. CASE Live
  <2>1. Grows
    BY <1>1 DEF Grows
  <2>2. Shape /\ AnswersOK /\ LeavesOK /\ Working /\ Committed /\ Outcomes /\ NamesDerived
        /\ Sealed
    BY <1>2 DEF IInv
  <2>3. Shape' /\ NamesDerived' /\ Sealed'
    BY <1>1, <2>2 DEF Shape, InStage, NamesDerived, Sealed, AllLeaves
  <2>6. Working'
    <3>1. /\ CondCall(idx)' = CondCall(idx) /\ Decision(idx)' = Decision(idx)
          /\ GuardKnown(idx)' = GuardKnown(idx) /\ GuardOf(idx)' = GuardOf(idx)
          /\ Calls(Func, names[idx])' = Calls(Func, names[idx])
          /\ IsThen' = IsThen
      BY <1>1 DEF CondCall, Decision, GuardKnown, GuardOf, GuardAnswer, GuardCall, GuardAt,
                  Calls, EffectsAt, Func, IsThen
    <3>2. Called(idx)' = Called(idx) /\ Asked(idx)' = Asked(idx)
      BY <1>1 DEF Called, Asked, Calls, EffectsAt
    <3>3. Returned(idx)' = Returned(idx) /\ \A t : InTxs(t)' = InTxs(t)
      BY <1>1, <3>2 DEF Returned, InTxs
    <3> QED
      BY <1>1, <2>2, <3>1, <3>2, <3>3 DEF Working, IsKept, InTxs
  <2>4. AnswersOK' /\ LeavesOK' /\ Committed'
    BY <1>1, <2>1, <2>2, AnswersStay, LeavesStay, CommittedStays
  <2>5. Outcomes'
    <3>1. Processed' = Processed /\ \A i : Called(i)' => Called(i)
      BY <1>1 DEF Processed, Functions, Called
    <3> QED
      BY <1>1, <2>1, <2>2, <3>1, OutcomesStay
  <2> QED
    BY <1>1, <2>3, <2>4, <2>5, <2>6 DEF IInv
<1>3. CASE ~Live
  BY <1>1, <1>3 DEF IInv, Live
<1> QED
  BY <1>2, <1>3
------------------------------------------------------------------------------
LEMMA Inductive == ASSUME IInv, [Next]_vars PROVE IInv'
BY EnsureKept, NameKept, CompileIfKept, CreateGuardsKept, CallKept, InsertKept, CombineKept,
   ContinuationKept, FunctionsDoneKept, FinishKept, SealKept, RecompileKept, StutterKept
   DEF Next

LEMMA Invariant == Spec => []IInv
<1>1. IInv /\ [Next]_vars => IInv'
  BY Inductive
<1> QED
  BY Initially, <1>1, PTL DEF Spec

(* The leaves are those of the finishes and those of the functions.        *)
LEMMA WaysOfLeaves ==
    ASSUME IInv, Done, NEW way
    PROVE  way \in SpendingWays <=>
             \/ \E l \in DOMAIN leaves : way \in Ways(leaves[l])
             \/ \E l \in DOMAIN finishLeaves : way \in Ways(finishLeaves[l])
<1>1. IsSeq(leaves) /\ IsSeq(finishLeaves)
  BY DEF IInv, Live, Done, Shape
<1>2. Joins(AllLeaves, finishLeaves, leaves)
  BY <1>1, ConcatSeq DEF AllLeaves
<1> QED
  BY <1>2 DEF SpendingWays, Joins

(* A leaf's way is given by a finish, or by a function; the one given by a  *)
(* function without guards is that of a continuation, and needs nothing.   *)
LEMMA LeafLicensed ==
    ASSUME IInv, Done, NEW way \in SpendingWays
    PROVE  Licensed(way) \/ (way = {} /\ UnguardedPoint)
<1>1. LeavesOK
  BY DEF IInv, Live, Done
<1>2. CASE \E l \in DOMAIN leaves : way \in Ways(leaves[l])
  <2>1. PICK i : LicensedBy(i, way)
    BY <1>1, <1>2 DEF LeavesOK
  <2>2. CASE contract.funcs[i].kind = "then"
    BY <2>1, <2>2 DEF LicensedBy, Licensed
  <2>3. CASE contract.funcs[i].kind # "then" /\ contract.funcs[i].guards # <<>>
    BY <2>1, <2>3 DEF LicensedBy, Licensed, IsPoint
  <2>4. CASE contract.funcs[i].kind # "then" /\ contract.funcs[i].guards = <<>>
    <3>1. i \in Functions /\ IsPoint(i) /\ way \in Ways(GuardOf(i))
      BY <2>1, <2>4 DEF LicensedBy, IsPoint
    <3>2. GuardOf(i) = <<{}>>
      BY <2>4 DEF GuardOf, Trivial
    <3>3. way = {}
      BY <3>1, <3>2 DEF Ways
    <3> QED
      BY <2>4, <3>1, <3>3 DEF UnguardedPoint
  <2> QED
    BY <2>2, <2>3, <2>4
<1>3. CASE \E l \in DOMAIN finishLeaves : way \in Ways(finishLeaves[l])
  <2>1. PICK j : LicensedByFinish(j, way)
    BY <1>1, <1>3 DEF LeavesOK
  <2> QED
    BY <2>1 DEF LicensedByFinish, Licensed
<1> QED
  BY <1>2, <1>3, WaysOfLeaves

(* What a compiled descriptor lets one do, through a leaf or its key, the  *)
(* contract asked for: the guard of a function that its conditions let be  *)
(* called, together with a template it returned, or a finish (compile,     *)
(* GuardCache, combine_txtmpls, pick_key_from_miniscripts).  The exception *)
(* is a continuation without guards, which anyone can spend by.            *)
THEOREM OnlyLicensed == Spec => []OnlyLicensedWays
<1>1. IInv => OnlyLicensedWays
  <2> SUFFICES ASSUME IInv, Done, NEW way \in OfferedWays
               PROVE  Licensed(way) \/ (way = {} /\ UnguardedPoint)
    BY DEF OnlyLicensedWays
  <2>1. way \in SpendingWays \/ (compiled.key # NUMS /\ way = {compiled.key})
    BY DEF OfferedWays
  <2>2. Sealed /\ pc = "done"
    BY DEF IInv, Live, Done
  <2>3. ASSUME compiled.key # NUMS, way = {compiled.key}
        PROVE  way \in SpendingWays
    <3>1. PICK l \in DOMAIN AllLeaves : <<{compiled.key}>> = AllLeaves[l]
      BY <2>2, <2>3 DEF Sealed
    <3>2. way \in Ways(AllLeaves[l])
      <4>1. PICK leaf : leaf = <<way>>
        OBVIOUS
      <4>2. 1 \in DOMAIN leaf /\ leaf[1] = way
        BY <4>1
      <4> QED
        BY <2>3, <3>1, <4>1, <4>2 DEF Ways
    <3> QED
      BY <3>1, <3>2 DEF SpendingWays
  <2> QED
    BY <2>1, <2>3, LeafLicensed
<1> QED
  BY Invariant, <1>1, PTL

(* ctv_to_tx holds exactly the templates that some leaf commits to, however *)
(* many functions return the same one.                                     *)
THEOREM CommittedEnforced == Spec => []CommittedAreEnforced
<1>1. IInv => CommittedAreEnforced
  <2> SUFFICES ASSUME IInv, Done
               PROVE  DOMAIN committed = {h \in {t.hash : t \in Templates} :
                                            \E way \in SpendingWays : CTV(h) \in way}
    BY DEF CommittedAreEnforced
  <2>1. Committed /\ pc = "done"
    BY DEF IInv, Live, Done
  <2>2. ASSUME NEW h
        PROVE  LeafHas(CTV(h)) <=> \E way \in SpendingWays : CTV(h) \in way
    <3>1. ASSUME NEW way \in SpendingWays, CTV(h) \in way
          PROVE  LeafHas(CTV(h))
      <4>1. \A l \in DOMAIN finishLeaves : way \notin Ways(finishLeaves[l])
        BY <2>1, <3>1 DEF Committed, IsPlain, Ways, CTV
      <4> QED
        BY <3>1, <4>1, WaysOfLeaves DEF LeafHas
    <3> QED
      BY <3>1, WaysOfLeaves DEF LeafHas
  <2>3. ASSUME NEW h \in DOMAIN committed
        PROVE  h \in {t.hash : t \in Templates} /\ LeafHas(CTV(h))
    BY <2>1, <2>3 DEF Committed
  <2>4. ASSUME NEW h, LeafHas(CTV(h))
        PROVE  h \in DOMAIN committed
    BY <2>1, <2>4 DEF Committed
  <2> QED
    BY <2>2, <2>3, <2>4
<1> QED
  BY Invariant, <1>1, PTL

(* The precedence of the conditions, for any number of them in any order:  *)
(* the fold of merge computes Verdict (AssembleVerdict), and compile acts  *)
(* on it.                                                                  *)
THEOREM ConditionsRespected == Spec => []CompileIfRespected
<1>1. IInv => CompileIfRespected
  <2> SUFFICES ASSUME IInv, Done, NEW i \in Functions
      PROVE  /\ "Fail" \notin Conds(i) /\ ~({"Never", "Required"} \subseteq Conds(i))
             /\ Called(i) <=> ({"Never", "Skippable"} \cap Conds(i) = {}
                               \/ "Required" \in Conds(i))
             /\ (Called(i) /\ contract.funcs[i].kind = "then" /\ Returned(i) = {})
                  => ("Nullable" \in Conds(i) /\ "Required" \notin Conds(i))
    BY Zenon DEF CompileIfRespected
  <2>1. Outcome(i) /\ AnswersOK /\ contract \in Contracts
    BY DEF IInv, Live, Done, Outcomes, Processed, Shape
  <2> DEFINE n == Len(contract.funcs[i].conds)
             r == answers[CondCall(i)]
  <2>2. n \in Nat /\ r \in [1..n -> CondTypes]
    <3>1. IsSeq(contract.funcs[i].conds)
      BY <2>1, Given DEF Functions
    <3>2. CondCall(i) \in DOMAIN answers
      BY <2>1 DEF Outcome
    <3> QED
      BY <2>1, <3>1, <3>2, SeqDomain DEF AnswersOK
  <2>3. Conds(i) = {r[c] : c \in 1..n}
    BY <2>2 DEF Conds, CondCall
  <2>4. Decision(i) = Verdict(Conds(i))
    <3> HIDE DEF n
    <3>1. Assemble(r) = Verdict({r[c] : c \in 1..n})
      BY <2>2, AssembleVerdict
    <3> QED
      BY <2>3, <3>1 DEF Decision
  <2>5. /\ Decision(i) # "Fail" /\ (IsKept(Decision(i)) <=> Called(i))
        /\ (Called(i) /\ contract.funcs[i].kind = "then" /\ Returned(i) = {}) =>
             Decision(i) = "Nullable"
    BY <2>1 DEF Outcome, AnswersOK
  <2>6. Conds(i) \subseteq CondTypes
    BY <2>2, <2>3
  <2> HIDE DEF n, r
  <2>7. PICK cs : cs = Conds(i)
    OBVIOUS
  <2>8. "Fail" \notin cs /\ ~({"Never", "Required"} \subseteq cs)
    BY <2>4, <2>5, <2>7 DEF Verdict
  <2>9. IsKept(Decision(i)) <=> ({"Never", "Skippable"} \cap cs = {} \/ "Required" \in cs)
    BY <2>4, <2>6, <2>7, <2>8 DEF Verdict, IsKept, CondTypes
  <2>10. Decision(i) = "Nullable" => "Nullable" \in cs /\ "Required" \notin cs
    BY <2>4, <2>7, <2>8 DEF Verdict
  <2> QED
    BY <2>5, <2>7, <2>8, <2>9, <2>10
<1> QED
  BY Invariant, <1>1, PTL

(* Neither the paths that a compilation derives nor its fee estimates can   *)
(* make it panic, in the first compilation and in the second.              *)
THEOREM CompilationNeverPanics == Spec => []NeverPanics
<1>1. IInv => NeverPanics
  BY DEF IInv, NeverPanics
<1> QED
  BY Invariant, <1>1, PTL
------------------------------------------------------------------------------
(* Types.  A continuation point has been derived before it is reported.    *)
TypeInv ==
    /\ TypeOK
    /\ pc \in {"call", "insert"} => EffectPath(Func, names[Len(names)]) \in derived

LEMMA InitTyped == Init => TypeInv
<1> SUFFICES ASSUME Init PROVE TypeInv
  OBVIOUS
<1>1. /\ pc = "ensure" /\ contract \in Contracts /\ pass = 1 /\ nullable = FALSE
      /\ guard = Trivial /\ cache = <<>> /\ committed = <<>> /\ suggested = <<>>
      /\ points = {}
  BY DEF Init
<1>2. range.max = -1
  BY DEF Init
<1> QED
  <2>1. DOMAIN cache = {} /\ \A map \in {committed, suggested} : DOMAIN map = {}
    BY <1>1
  <2>2. pass \in 1..2 /\ nullable \in BOOLEAN
    <3>1. nullable \in BOOLEAN
      BY <1>1, Zenon
    <3>2. pass \in 1..2
      BY <1>1, SMT
    <3> QED
      BY <3>1, <3>2
  <2>3. range.max \in Maybe(Nat)
    BY <1>2, Zenon DEF Maybe
  <2> QED
    BY <1>1, <2>1, <2>2, <2>3 DEF TypeInv, TypeOK

(* The parts of TypeOK that most steps leave alone.                        *)
LEMMA TypesStay ==
    ASSUME TypeInv,
           UNCHANGED <<contract, pass, cache, committed, suggested>>,
           nullable' \in BOOLEAN, guard' \in Clauses \cup {Trivial},
           range'.max \in Maybe(Nat), points' \subseteq derived',
           pc' \in {"ensure", "name", "cond", "guard", "call", "insert", "finish", "done",
                    "failed", "spinning", "panic"},
           pc' \in {"call", "insert"} =>
             EffectPath(Func, names[Len(names)])' \in derived'
    PROVE  TypeInv'
BY DEF TypeInv, TypeOK

LEMMA FailTyped == ASSUME TypeInv, Fail PROVE TypeInv'
<1>1. /\ UNCHANGED <<contract, pass, cache, committed, suggested, nullable, guard, range,
                     points, derived>>
      /\ pc' = "failed"
  BY DEF Fail, passVars, funcVars, guardVars, txVars, outVars
<1>2. nullable \in BOOLEAN /\ guard \in Clauses \cup {Trivial} /\ range.max \in Maybe(Nat)
      /\ points \subseteq derived
  BY DEF TypeInv, TypeOK
<1> QED
  BY <1>1, <1>2, TypesStay

LEMMA EnsureTyped == ASSUME IInv, TypeInv, EnsureAmount PROVE TypeInv'
<1>1. PICK a \in Answers(<<"ensure">>, Amounts \cup {-1}) :
        \/ a = -1 /\ Fail
        \/ /\ a # -1 /\ pc' = "name"
           /\ Derive({Append(Root, "Cloned"), Append(Root, "Action")})
           /\ range' = UpdateRange(range, a)
           /\ UNCHANGED <<passVars, idx, nameVars, funcVars, guardVars,
                          committed, suggested, outVars>>
  BY DEF EnsureAmount
<1>2. CASE Fail
  BY <1>2, FailTyped
<1>3. CASE ~Fail
  <2>1. /\ a # -1 /\ pc' = "name" /\ derived \subseteq derived'
        /\ UNCHANGED <<contract, pass, cache, committed, suggested, nullable, guard, points>>
        /\ range' = UpdateRange(range, a)
    BY <1>1, <1>3 DEF Derive, passVars, funcVars, guardVars, outVars
  <2>2. nullable \in BOOLEAN /\ guard \in Clauses \cup {Trivial} /\ range.max \in Maybe(Nat)
        /\ points \subseteq derived
    BY DEF TypeInv, TypeOK
  <2>3. AnswersOK
    BY DEF IInv, Live, EnsureAmount
  <2>4. a \in Amounts \cup {-1}
    BY <2>3 DEF Answers, AnswersOK
  <2>5. range'.max \in Maybe(Nat)
    BY <2>1, <2>2, <2>4, Given DEF UpdateRange, Larger, Maybe
  <2> QED
    BY <2>1, <2>2, <2>5, TypesStay
<1> QED
  BY <1>2, <1>3

LEMMA NameTyped == ASSUME TypeInv, NameFunction PROVE TypeInv'
<1>1. /\ pc' \in {"spinning", "cond", "panic"} /\ derived \subseteq derived'
      /\ UNCHANGED <<contract, pass, cache, committed, suggested, nullable, guard, range,
                     points>>
  BY DEF NameFunction, Derive, passVars, funcVars, guardVars, txVars, outVars
<1>2. nullable \in BOOLEAN /\ guard \in Clauses \cup {Trivial} /\ range.max \in Maybe(Nat)
      /\ points \subseteq derived
  BY DEF TypeInv, TypeOK
<1> QED
  BY <1>1, <1>2, TypesStay

LEMMA CompileIfTyped == ASSUME TypeInv, CompileIf PROVE TypeInv'
<1>1. CASE Fail
  BY <1>1, FailTyped
<1>2. CASE ~Fail
  <2>1. /\ pc' \in {"name", "guard"}
        /\ nullable' = nullable \/ nullable' \in BOOLEAN
        /\ UNCHANGED <<contract, pass, cache, committed, suggested, derived, guard, range,
                       points>>
    BY <1>2 DEF CompileIf, passVars, funcVars, guardVars, txVars, outVars
  <2>2. nullable \in BOOLEAN /\ guard \in Clauses \cup {Trivial} /\ range.max \in Maybe(Nat)
        /\ points \subseteq derived
    BY DEF TypeInv, TypeOK
  <2> QED
    BY <2>1, <2>2, TypesStay
<1> QED
  BY <1>1, <1>2

LEMMA CacheTyped ==
    ASSUME \A g \in DOMAIN cache : cache[g] \in Clauses /\ contract.guardKind[g] = "Cache",
           cache' = cache \/ \E g, at : \E c \in Clauses : GetGuard(g, at, c)
    PROVE  \A g \in DOMAIN cache' : cache'[g] \in Clauses /\ contract.guardKind[g] = "Cache"
<1>1. CASE cache' = cache
  BY <1>1
<1>2. CASE \E g, at : \E c \in Clauses : GetGuard(g, at, c)
  <2>1. PICK g, at : \E c \in Clauses : GetGuard(g, at, c)
    BY <1>2
  <2>2. PICK c \in Clauses : GetGuard(g, at, c)
    BY <2>1
  <2> DEFINE cached == contract.guardKind[g] = "Cache"
  <2>3. cache' = cache \/ (cached /\ cache' = With(cache, g, c))
    BY <2>2 DEF GetGuard, guardVars
  <2> QED
    BY <2>3 DEF With
<1> QED
  BY <1>1, <1>2

LEMMA GuardsTyped == ASSUME TypeInv, CreateGuards PROVE TypeInv'
<1>1. /\ pc' \in {"spinning", "call"} /\ derived \subseteq derived'
      /\ EffectPath(Func, names[Len(names)]) \in derived'
      /\ UNCHANGED <<contract, pass, committed, suggested, nullable, range, points, idx,
                     names>>
      /\ \/ guard' = guard \/ guard' \in Clauses \cup {Trivial}
      /\ \/ cache' = cache
         \/ \E g, at : \E c \in Clauses : GetGuard(g, at, c)
  BY Zenon DEF CreateGuards, Derive, passVars, nameVars, guardVars, txVars, outVars
<1>2. /\ contract \in Contracts /\ pass \in 1..2
      /\ nullable \in BOOLEAN /\ guard \in Clauses \cup {Trivial} /\ range.max \in Maybe(Nat)
      /\ points \subseteq derived
      /\ \A g \in DOMAIN cache : cache[g] \in Clauses /\ contract.guardKind[g] = "Cache"
      /\ \A map \in {committed, suggested} : \A h \in DOMAIN map :
           map[h] \in Templates /\ map[h].hash = h
  BY DEF TypeInv, TypeOK
<1>3. \A g \in DOMAIN cache' : cache'[g] \in Clauses /\ contract.guardKind[g] = "Cache"
  BY <1>1, <1>2, CacheTyped
<1>4. EffectPath(Func, names[Len(names)])' = EffectPath(Func, names[Len(names)])
  BY <1>1 DEF Func
<1> QED
  BY <1>1, <1>2, <1>3, <1>4 DEF TypeInv, TypeOK

LEMMA CallTyped == ASSUME TypeInv, CallFunction PROVE TypeInv'
<1>1. /\ pc = "call" /\ pc' \in {"call", "insert"} /\ derived \subseteq derived'
      /\ UNCHANGED <<contract, pass, cache, committed, suggested, nullable, guard, range,
                     points, idx, names>>
  BY DEF CallFunction, Derive, passVars, nameVars, guardVars, txVars, outVars
<1>2. nullable \in BOOLEAN /\ guard \in Clauses \cup {Trivial} /\ range.max \in Maybe(Nat)
      /\ points \subseteq derived /\ EffectPath(Func, names[Len(names)]) \in derived
  BY <1>1 DEF TypeInv, TypeOK
<1>3. EffectPath(Func, names[Len(names)])' = EffectPath(Func, names[Len(names)])
  BY <1>1 DEF Func
<1> QED
  BY <1>1, <1>2, <1>3, TypesStay

LEMMA InsertTyped == ASSUME IInv, TypeInv, InsertTemplate PROVE TypeInv'
<1> DEFINE t == Head(txs)
<1>1. CASE Fail
  BY <1>1, FailTyped
<1>2. CASE ~Fail
  <2>1. /\ pc = "insert" /\ pc' = "insert" /\ txs # <<>>
        /\ UNCHANGED <<contract, pass, cache, nullable, guard, points, derived, idx, names>>
        /\ range' = UpdateRange(range, t.max)
        /\ committed' \in {committed, OrInsert(committed, t)}
        /\ suggested' \in {suggested, OrInsert(suggested, t)}
    BY <1>2 DEF InsertTemplate, passVars, nameVars, guardVars, outVars
  <2>2. /\ contract \in Contracts /\ pass \in 1..2
        /\ nullable \in BOOLEAN /\ guard \in Clauses \cup {Trivial}
        /\ range.max \in Maybe(Nat) /\ points \subseteq derived
        /\ EffectPath(Func, names[Len(names)]) \in derived
        /\ \A g \in DOMAIN cache : cache[g] \in Clauses /\ contract.guardKind[g] = "Cache"
        /\ \A map \in {committed, suggested} : \A h \in DOMAIN map :
             map[h] \in Templates /\ map[h].hash = h
    BY <2>1 DEF TypeInv, TypeOK
  <2>3. t \in Templates /\ t.max \in Nat
    <3>1. IsSeq(txs) /\ \A n \in DOMAIN txs : txs[n] \in Templates
      BY <2>1 DEF IInv, Live, Shape, Working
    <3>2. t = txs[1] /\ 1 \in DOMAIN txs
      BY <2>1, <3>1, TailSeq
    <3> HIDE DEF t
    <3> QED
      BY <3>1, <3>2, Given
  <2>4. PICK u : u = t
    OBVIOUS
  <2> HIDE DEF t
  <2>5. range'.max \in Maybe(Nat)
    BY <2>1, <2>2, <2>3 DEF UpdateRange, Larger, Maybe
  <2>6. ASSUME NEW map, \A h \in DOMAIN map : map[h] \in Templates /\ map[h].hash = h,
               NEW h \in DOMAIN OrInsert(map, u)
        PROVE  OrInsert(map, u)[h] \in Templates /\ OrInsert(map, u)[h].hash = h
    <3> DEFINE after == OrInsert(map, u)
    <3>1. /\ DOMAIN after = DOMAIN map \cup {u.hash}
          /\ \A k \in DOMAIN map : after[k] = map[k]
          /\ u.hash \notin DOMAIN map => after[u.hash] = u
      BY OrInserted
    <3>2. h \in DOMAIN after
      BY <2>6
    <3> SUFFICES after[h] \in Templates /\ after[h].hash = h
      OBVIOUS
    <3> HIDE DEF after
    <3>3. CASE h \in DOMAIN map
      BY <2>6, <3>1, <3>3
    <3>4. CASE h \notin DOMAIN map
      <4>1. h = u.hash /\ after[h] = u
        BY <3>1, <3>2, <3>4
      <4> QED
        BY <2>3, <2>4, <4>1
    <3> QED
      BY <3>3, <3>4
  <2>7. \A h \in DOMAIN committed' : committed'[h] \in Templates /\ committed'[h].hash = h
    <3>1. \A h \in DOMAIN committed : committed[h] \in Templates /\ committed[h].hash = h
      BY <2>2
    <3> QED
      BY <2>1, <2>4, <2>6, <3>1
  <2>8. \A h \in DOMAIN suggested' : suggested'[h] \in Templates /\ suggested'[h].hash = h
    <3>1. \A h \in DOMAIN suggested : suggested[h] \in Templates /\ suggested[h].hash = h
      BY <2>2
    <3> QED
      BY <2>1, <2>4, <2>6, <3>1
  <2>9. EffectPath(Func, names[Len(names)])' = EffectPath(Func, names[Len(names)])
    BY <2>1 DEF Func
  <2> QED
    BY <2>1, <2>2, <2>5, <2>7, <2>8, <2>9 DEF TypeInv, TypeOK
<1> QED
  BY <1>1, <1>2

LEMMA FunctionTyped == ASSUME TypeInv, CombineTemplates \/ AddContinuation PROVE TypeInv'
<1>1. CASE Fail
  BY <1>1, FailTyped
<1>2. CASE ~Fail
  <2>1. /\ pc = "insert"
        /\ \E new : FunctionDone(new)
        /\ points' \in {points, points \cup {EffectPath(Func, names[Len(names)])}}
    BY <1>2 DEF CombineTemplates, AddContinuation
  <2>2. /\ pc' = "name" /\ nullable' = FALSE /\ guard' = Trivial
        /\ UNCHANGED <<contract, pass, cache, committed, suggested, range, derived>>
    BY <2>1 DEF FunctionDone, passVars, guardVars, txVars
  <2>3. range.max \in Maybe(Nat) /\ points \subseteq derived
        /\ EffectPath(Func, names[Len(names)]) \in derived
    BY <2>1 DEF TypeInv, TypeOK
  <2>4. points' \subseteq derived'
    BY <2>1, <2>2, <2>3
  <2> QED
    BY <2>2, <2>3, <2>4, TypesStay
<1> QED
  BY <1>1, <1>2

LEMMA FunctionsDoneTyped == ASSUME TypeInv, FunctionsDone PROVE TypeInv'
<1>1. /\ pc' = "finish" /\ derived \subseteq derived'
      /\ UNCHANGED <<contract, pass, cache, committed, suggested, nullable, guard, range,
                     points>>
  BY DEF FunctionsDone, Derive, passVars, funcVars, guardVars, txVars, outVars
<1>2. nullable \in BOOLEAN /\ guard \in Clauses \cup {Trivial} /\ range.max \in Maybe(Nat)
      /\ points \subseteq derived
  BY DEF TypeInv, TypeOK
<1> QED
  BY <1>1, <1>2, TypesStay

LEMMA FinishTyped == ASSUME TypeInv, FinishFn PROVE TypeInv'
<1>1. /\ pc' = "finish" /\ derived \subseteq derived'
      /\ UNCHANGED <<contract, pass, committed, suggested, nullable, guard, range, points>>
      /\ \E g, at : \E c \in Clauses : GetGuard(g, at, c)
  BY Zenon DEF FinishFn, Derive, passVars, funcVars, txVars, outVars
<1>2. /\ contract \in Contracts /\ pass \in 1..2
      /\ nullable \in BOOLEAN /\ guard \in Clauses \cup {Trivial} /\ range.max \in Maybe(Nat)
      /\ points \subseteq derived
      /\ \A g \in DOMAIN cache : cache[g] \in Clauses /\ contract.guardKind[g] = "Cache"
      /\ \A map \in {committed, suggested} : \A h \in DOMAIN map :
           map[h] \in Templates /\ map[h].hash = h
  BY DEF TypeInv, TypeOK
<1>3. \A g \in DOMAIN cache' : cache'[g] \in Clauses /\ contract.guardKind[g] = "Cache"
  BY <1>1, <1>2, CacheTyped
<1> QED
  BY <1>1, <1>2, <1>3 DEF TypeInv, TypeOK

LEMMA SealTyped == ASSUME TypeInv, Seal PROVE TypeInv'
<1>1. CASE Fail
  BY <1>1, FailTyped
<1>2. CASE ~Fail
  <2>1. /\ pc' \in {"done", "panic"} /\ derived \subseteq derived'
        /\ UNCHANGED <<contract, pass, cache, committed, suggested, nullable, guard, range,
                       points>>
    BY <1>2 DEF Seal, SealCompiled, Derive, passVars, funcVars, guardVars, txVars
  <2>2. nullable \in BOOLEAN /\ guard \in Clauses \cup {Trivial} /\ range.max \in Maybe(Nat)
        /\ points \subseteq derived
    BY DEF TypeInv, TypeOK
  <2> QED
    BY <2>1, <2>2, TypesStay
<1> QED
  BY <1>1, <1>2

LEMMA RecompileTyped == ASSUME TypeInv, Recompile PROVE TypeInv'
<1>1. /\ pc' = "ensure" /\ pass' = 2 /\ contract' = contract /\ nullable' = FALSE
      /\ guard' = Trivial /\ cache' = <<>> /\ committed' = <<>> /\ suggested' = <<>>
      /\ range'.max = -1 /\ points' = {}
  BY DEF Recompile
<1>2. contract \in Contracts
  BY DEF TypeInv, TypeOK
<1> QED
  <2>1. DOMAIN cache' = {} /\ \A map \in {committed', suggested'} : DOMAIN map = {}
    BY <1>1
  <2>2. pass' \in 1..2 /\ nullable' \in BOOLEAN
    <3>1. nullable' \in BOOLEAN
      BY <1>1, Zenon
    <3>2. pass' \in 1..2
      BY <1>1, SMT
    <3> QED
      BY <3>1, <3>2
  <2>3. range'.max \in Maybe(Nat)
    BY <1>1, Zenon DEF Maybe
  <2> QED
    BY <1>1, <1>2, <2>1, <2>2, <2>3 DEF TypeInv, TypeOK

LEMMA StutterTyped == ASSUME TypeInv, UNCHANGED vars PROVE TypeInv'
<1>1. UNCHANGED <<contract, pass, pc, idx, derived, names, nullable, guard, cache, committed,
                  suggested, range, points>>
  BY DEF vars, passVars, nameVars, funcVars, guardVars, txVars, outVars
<1>2. EffectPath(Func, names[Len(names)])' = EffectPath(Func, names[Len(names)])
  BY <1>1 DEF Func
<1> QED
  BY <1>1, <1>2 DEF TypeInv, TypeOK

(* Every variable keeps the type of the local it stands for.               *)
THEOREM CompilerTypes == Spec => []TypeOK
<1>1. IInv /\ TypeInv /\ [Next]_vars => TypeInv'
  BY EnsureTyped, NameTyped, CompileIfTyped, GuardsTyped, CallTyped, InsertTyped,
     FunctionTyped, FunctionsDoneTyped, FinishTyped, SealTyped, RecompileTyped, StutterTyped
     DEF Next
<1>2. TypeInv => TypeOK
  BY DEF TypeInv
<1> QED
  BY InitTyped, Invariant, <1>1, <1>2, PTL DEF Spec
------------------------------------------------------------------------------
(* A recompilation with effects repeats the first pass.  What a pass comes  *)
(* to is said by the names and the answers of the contract's functions, in  *)
(* a way that two results of the same answers have to agree on.  The place  *)
(* of a template is its function and its number in what that returned.      *)

List(i) == answers[<<"call", i, "DefaultEffect">>]
Place(i, k) ==
    /\ i \in Functions /\ Called(i) /\ contract.funcs[i].kind = "then"
    /\ k \in DOMAIN List(i)
Suggests(i, k) ==
    /\ i \in Functions /\ Called(i) /\ contract.funcs[i].kind # "then"
    /\ k \in DOMAIN List(i)
Before(i, k, j, l) == i < j \/ (i = j /\ k < l)
First(i, k) ==
    \A j, l : Place(j, l) /\ Before(j, l, i, k) => List(j)[l].hash # List(i)[k].hash

(* M is the map of committed templates of the places before one.           *)
MapMade(M, e, f) ==
    /\ M = [h \in DOMAIN M |-> M[h]]
    /\ \A i, k : Place(i, k) /\ Before(i, k, e, f) => List(i)[k].hash \in DOMAIN M
    /\ \A h \in DOMAIN M : \E i, k :
         /\ Place(i, k) /\ Before(i, k, e, f) /\ First(i, k)
         /\ List(i)[k].hash = h /\ M[h] = List(i)[k]

(* N are the names of the first n functions.                               *)
NameBy(N, i) ==
    IF contract.funcs[i].name \in {N[j] : j \in 1..(i - 1)}
    THEN Renamed(contract.funcs[i].name) ELSE contract.funcs[i].name
Naming(N, n) == \A i \in 1..n : N[i] = NameBy(N, i)

(* L are the leaves after each of the first n functions, by their names and *)
(* the map M; F those after each of the first m finishes.                   *)
GuardPlace(N, i) == Append(ActionPath(N[i]), "Guard")
GuardKnownBy(N, i) ==
    contract.funcs[i].guards = <<>>
      \/ GuardCall(contract.funcs[i].guards[1], GuardPlace(N, i)) \in DOMAIN answers
GuardBy(N, i) ==
    IF contract.funcs[i].guards = <<>> THEN Trivial
    ELSE GuardAnswer(contract.funcs[i].guards[1], GuardPlace(N, i))
ClauseAt(M, i, k) == M[List(i)[k].hash].guards \cup {CTV(List(i)[k].hash)}
Own(N, M, i) ==
    IF contract.funcs[i].kind = "then"
    THEN [k \in DOMAIN List(i) |-> Conjoin(GuardBy(N, i), ClauseAt(M, i, k))]
    ELSE Flatten(GuardBy(N, i))
LeavesMade(N, M, L, n) ==
    /\ L[0] = <<>>
    /\ \A i \in 1..n :
         /\ Called(i) => GuardKnownBy(N, i)
         /\ L[i] = IF Called(i) THEN L[i - 1] \o Own(N, M, i) ELSE L[i - 1]
FinishMade(F, m) ==
    /\ F[0] = <<>>
    /\ \A j \in 1..m :
         /\ GuardCall(contract.finishes[j], FinishCtx(j)) \in DOMAIN answers
         /\ F[j] = F[j - 1] \o Flatten(GuardAnswer(contract.finishes[j], FinishCtx(j)))
PointsMade(N, n) ==
    {EffectPath(contract.funcs[i], N[i]) :
       i \in {j \in 1..n : Called(j) /\ contract.funcs[j].kind # "then"}}

(* pick_key, of any leaves.                                                *)
KeyOf(all) ==
    LET bare == {i \in DOMAIN all : IsBareKey(all[i])}
    IN  IF bare = {} THEN NUMS
        ELSE LET first == CHOOSE i \in bare : \A j \in bare : i <= j
             IN  CHOOSE k \in Keys : all[first] = <<{k}>>

(* A whole result.                                                         *)
Comes(r, N, M, L, F) ==
    /\ Naming(N, Len(contract.funcs))
    /\ MapMade(M, Len(contract.funcs) + 1, 1)
    /\ LeavesMade(N, M, L, Len(contract.funcs))
    /\ FinishMade(F, Len(contract.finishes))
    /\ r.root = Root /\ r.committed = M
    /\ r.leaves = F[Len(contract.finishes)] \o L[Len(contract.funcs)]
    /\ r.key = KeyOf(r.leaves)
    /\ r.points = PointsMade(N, Len(contract.funcs))

LEMMA PlaceNumbers ==
    ASSUME AnswersOK, NEW i, NEW k, Place(i, k) \/ Suggests(i, k)
    PROVE  i \in Functions /\ k \in Nat \ {0} /\ List(i) \in TemplateLists /\ IsSeq(List(i))
<1>1. Called(i) /\ k \in DOMAIN List(i) /\ i \in Functions
  BY DEF Place, Suggests
<1>2. List(i) \in TemplateLists
  BY <1>1 DEF AnswersOK, Called, List
<1>3. IsSeq(List(i))
  BY <1>2, Given
<1> QED
  BY <1>1, <1>2, <1>3, SeqDomain

LEMMA FunctionNumbers ==
    ASSUME contract \in Contracts
    PROVE  /\ Len(contract.funcs) \in Nat /\ Functions = 1..Len(contract.funcs)
           /\ Len(contract.finishes) \in Nat
           /\ DOMAIN contract.finishes = 1..Len(contract.finishes)
BY Given, SeqDomain DEF Functions

(* Two results of the same answers agree.                                  *)
LEMMA NamesUnique ==
    ASSUME NEW n \in Nat, NEW N, NEW O, Naming(N, n), Naming(O, n)
    PROVE  \A i \in 1..n : N[i] = O[i]
<1> DEFINE T == {i \in 1..n : N[i] # O[i]}
<1>1. SUFFICES ASSUME T # {} PROVE FALSE
  OBVIOUS
<1>2. T \in SUBSET Nat
  OBVIOUS
<1> HIDE DEF T
<1>3. PICK i \in T : \A j \in T : i <= j
  BY <1>1, <1>2, LeastNat
<1> USE DEF T
<1>4. i \in 1..n /\ \A j \in 1..(i - 1) : N[j] = O[j]
  BY <1>3
<1>5. {N[j] : j \in 1..(i - 1)} = {O[j] : j \in 1..(i - 1)}
  BY <1>4
<1>6. NameBy(N, i) = NameBy(O, i)
  BY <1>5 DEF NameBy
<1>7. N[i] = O[i]
  BY <1>4, <1>6 DEF Naming
<1> QED
  BY <1>3, <1>7

LEMMA MapUnique ==
    ASSUME AnswersOK, contract \in Contracts,
           NEW e, NEW f, NEW M, NEW K, MapMade(M, e, f), MapMade(K, e, f)
    PROVE  M = K
<1>1. ASSUME NEW h \in DOMAIN M
      PROVE  h \in DOMAIN K /\ K[h] = M[h]
  <2>1. PICK i, k : /\ Place(i, k) /\ Before(i, k, e, f) /\ First(i, k)
                    /\ List(i)[k].hash = h /\ M[h] = List(i)[k]
    BY DEF MapMade
  <2>2. h \in DOMAIN K
    BY <2>1 DEF MapMade
  <2>3. PICK j, l : /\ Place(j, l) /\ Before(j, l, e, f) /\ First(j, l)
                    /\ List(j)[l].hash = h /\ K[h] = List(j)[l]
    BY <2>2 DEF MapMade
  <2>4. ~Before(i, k, j, l) /\ ~Before(j, l, i, k)
    BY <2>1, <2>3 DEF First
  <2>5. i \in Nat /\ j \in Nat /\ k \in Nat /\ l \in Nat
    BY <2>1, <2>3, PlaceNumbers, FunctionNumbers
  <2>6. i = j /\ k = l
    BY <2>4, <2>5 DEF Before
  <2> QED
    BY <2>1, <2>2, <2>3, <2>6
<1>2. ASSUME NEW h \in DOMAIN K
      PROVE  h \in DOMAIN M
  BY <1>2 DEF MapMade
<1>3. DOMAIN M = DOMAIN K
  BY <1>1, <1>2
<1>4. M = [h \in DOMAIN M |-> M[h]] /\ K = [h \in DOMAIN K |-> K[h]]
  BY DEF MapMade
<1> QED
  BY <1>1, <1>3, <1>4, Zenon

LEMMA LeavesUnique ==
    ASSUME NEW n \in Nat, NEW N, NEW O, NEW M, NEW L, NEW K,
           \A i \in 1..n : N[i] = O[i], LeavesMade(N, M, L, n), LeavesMade(O, M, K, n)
    PROVE  L[n] = K[n]
<1> DEFINE T == {i \in 0..n : L[i] # K[i]}
<1>1. SUFFICES ASSUME T # {} PROVE FALSE
  OBVIOUS
<1>2. T \in SUBSET Nat
  OBVIOUS
<1> HIDE DEF T
<1>3. PICK i \in T : \A j \in T : i <= j
  BY <1>1, <1>2, LeastNat
<1> USE DEF T
<1>4. i \in 0..n /\ L[i] # K[i]
  BY <1>3
<1>5. L[0] = <<>> /\ K[0] = <<>>
  BY DEF LeavesMade
<1>6. i # 0
  BY <1>4, <1>5
<1>7. i \in 1..n /\ i - 1 \in 0..n
  BY <1>4, <1>6
<1>8. L[i - 1] = K[i - 1]
  BY <1>3, <1>7
<1>9. Own(N, M, i) = Own(O, M, i)
  BY <1>7 DEF Own, GuardBy, GuardPlace
<1>10. /\ L[i] = IF Called(i) THEN L[i - 1] \o Own(N, M, i) ELSE L[i - 1]
       /\ K[i] = IF Called(i) THEN K[i - 1] \o Own(O, M, i) ELSE K[i - 1]
  BY <1>7 DEF LeavesMade
<1>11. CASE Called(i)
  BY <1>4, <1>8, <1>9, <1>10, <1>11
<1>12. CASE ~Called(i)
  BY <1>4, <1>8, <1>10, <1>12
<1> QED
  BY <1>11, <1>12

LEMMA FinishUnique ==
    ASSUME NEW m \in Nat, NEW F, NEW G, FinishMade(F, m), FinishMade(G, m)
    PROVE  F[m] = G[m]
<1> DEFINE T == {i \in 0..m : F[i] # G[i]}
<1>1. SUFFICES ASSUME T # {} PROVE FALSE
  OBVIOUS
<1>2. T \in SUBSET Nat
  OBVIOUS
<1> HIDE DEF T
<1>3. PICK i \in T : \A j \in T : i <= j
  BY <1>1, <1>2, LeastNat
<1> USE DEF T
<1>4. i \in 0..m /\ F[i] # G[i]
  BY <1>3
<1>5. F[0] = <<>> /\ G[0] = <<>>
  BY DEF FinishMade
<1>6. i # 0
  BY <1>4, <1>5
<1>7. i \in 1..m /\ i - 1 \in 0..m
  BY <1>4, <1>6
<1>8. F[i - 1] = G[i - 1]
  BY <1>3, <1>7
<1>9. PICK own : own = Flatten(GuardAnswer(contract.finishes[i], FinishCtx(i)))
  OBVIOUS
<1>10. F[i] = F[i - 1] \o own /\ G[i] = G[i - 1] \o own
  BY <1>7, <1>9 DEF FinishMade
<1> QED
  BY <1>4, <1>8, <1>10, Zenon

LEMMA ResultUnique ==
    ASSUME AnswersOK, contract \in Contracts, NEW r, NEW s,
           \E N, M, L, F : Comes(r, N, M, L, F), \E N, M, L, F : Comes(s, N, M, L, F)
    PROVE  /\ r.root = s.root /\ r.key = s.key /\ r.leaves = s.leaves
           /\ r.committed = s.committed /\ r.points = s.points
<1>1. PICK N, M, L, F : Comes(r, N, M, L, F)
  OBVIOUS
<1>2. PICK O, H, K, G : Comes(s, O, H, K, G)
  OBVIOUS
<1>3. PICK n : n = Len(contract.funcs)
  OBVIOUS
<1>4. PICK m : m = Len(contract.finishes)
  OBVIOUS
<1>5. n \in Nat /\ m \in Nat
  BY <1>3, <1>4, FunctionNumbers
<1>6. /\ Naming(N, n) /\ MapMade(M, n + 1, 1) /\ LeavesMade(N, M, L, n) /\ FinishMade(F, m)
      /\ r.root = Root /\ r.committed = M /\ r.leaves = F[m] \o L[n]
      /\ r.key = KeyOf(r.leaves) /\ r.points = PointsMade(N, n)
  BY <1>1, <1>3, <1>4 DEF Comes
<1>7. /\ Naming(O, n) /\ MapMade(H, n + 1, 1) /\ LeavesMade(O, H, K, n) /\ FinishMade(G, m)
      /\ s.root = Root /\ s.committed = H /\ s.leaves = G[m] \o K[n]
      /\ s.key = KeyOf(s.leaves) /\ s.points = PointsMade(O, n)
  BY <1>2, <1>3, <1>4 DEF Comes
<1>8. \A i \in 1..n : N[i] = O[i]
  BY <1>5, <1>6, <1>7, NamesUnique
<1>9. M = H
  BY <1>6, <1>7, MapUnique
<1>10. L[n] = K[n]
  BY <1>5, <1>6, <1>7, <1>8, <1>9, LeavesUnique
<1>11. F[m] = G[m]
  BY <1>5, <1>6, <1>7, FinishUnique
<1>12. r.leaves = s.leaves
  BY <1>6, <1>7, <1>10, <1>11
<1>13. PointsMade(N, n) = PointsMade(O, n)
  BY <1>8 DEF PointsMade
<1> QED
  BY <1>6, <1>7, <1>9, <1>12, <1>13

(* The function and the finish at hand, and what stands before them.       *)
Fn == IF pc \in {"finish", "done"} THEN Len(contract.funcs) + 1 ELSE idx
Fin == IF pc \in {"finish", "done"} THEN idx - 1 ELSE 0

NamesAre ==
    Naming(names, Len(names)) /\ usedNames = {names[j] : j \in DOMAIN names}
MapIs == MapMade(committed, Fn, Len(txClauses) + 1)
LeavesAre == \E L : LeavesMade(names, committed, L, Fn - 1) /\ leaves = L[Fn - 1]
FinishAre == \E F : FinishMade(F, Fin) /\ finishLeaves = F[Fin]
PointsAre == points = PointsMade(names, Fn - 1)

(* The templates of the function at hand, in their order.                  *)
AtWork ==
    /\ pc = "call" /\ 0 \in calls => txs = <<>>
    /\ pc \in {"finish", "done"} =>
         /\ txClauses = <<>> /\ Fin \in 0..Len(contract.finishes)
         /\ pc = "done" => Fin = Len(contract.finishes)
    /\ pc = "insert" /\ IsThen =>
         /\ Len(List(idx)) = Len(txClauses) + Len(txs)
         /\ \A x \in DOMAIN txs : txs[x] = List(idx)[Len(txClauses) + x]
         /\ \A x \in DOMAIN txClauses : txClauses[x] = ClauseAt(committed, idx, x)

(* The most the contract may pay: at least what the answers so far name,   *)
(* and in the first pass no more.                                          *)
Returns(i, k) == Place(i, k) \/ Suggests(i, k)
Reckoned ==
    pc = "insert" => \A k \in DOMAIN List(idx) :
      InTxs(List(idx)[k]) \/ List(idx)[k].max <= range.max
RangeIs ==
    /\ range.max \in Int /\ -1 <= range.max
    /\ pc # "ensure" => /\ <<"ensure">> \in DOMAIN answers
                        /\ answers[<<"ensure">>] <= range.max
    /\ \A i, k : Returns(i, k) /\ i < Fn => List(i)[k].max <= range.max
    /\ Reckoned
Attained(m) ==
    \/ m = -1
    \/ <<"ensure">> \in DOMAIN answers /\ m = answers[<<"ensure">>]
    \/ \E i, k : Returns(i, k) /\ m = List(i)[k].max
SuggestedBy(S) == \A h \in DOMAIN S : \E i, k : Suggests(i, k) /\ List(i)[k].hash = h

DefaultOnly == \A x \in DOMAIN txs : \E k \in DOMAIN List(idx) : txs[x] = List(idx)[k]
FirstPass ==
    pass = 1 =>
        /\ effects = {} /\ Attained(range.max) /\ SuggestedBy(suggested)
        /\ pc = "insert" => DefaultOnly
Decided ==
    \A i \in Functions : CondCall(i) \in DOMAIN answers /\ (IsKept(Decision(i)) => Called(i))
CameTo(r) ==
    /\ \E N, M, L, F : Comes(r, N, M, L, F)
    /\ Attained(r.max) /\ SuggestedBy(r.suggested)
SecondPass == pass = 2 => Decided /\ CameTo(previous)
SealedAs ==
    pc = "done" =>
        /\ compiled.root = Root /\ compiled.key = KeyOf(compiled.leaves)
        /\ compiled.leaves = finishLeaves \o leaves
        /\ compiled.committed = committed /\ compiled.suggested = suggested
        /\ compiled.points = points /\ compiled.max = range.max

Replay ==
    Live => /\ NamesAre /\ MapIs /\ LeavesAre /\ FinishAre /\ PointsAre /\ AtWork
            /\ RangeIs /\ FirstPass /\ SecondPass /\ SealedAs

(* What the answers say stays so while they grow.                          *)
Extends ==
    /\ contract' = contract
    /\ \A c \in DOMAIN answers : c \in DOMAIN answers' /\ answers'[c] = answers[c]

LEMMA ListStays ==
    ASSUME Extends, NEW i, Called(i)
    PROVE  Called(i)' /\ List(i)' = List(i)
BY DEF Extends, Called, List

LEMMA PlaceStays ==
    ASSUME Extends, NEW i, NEW k
    PROVE  /\ Place(i, k) => Place(i, k)' /\ List(i)' = List(i)
           /\ Suggests(i, k) => Suggests(i, k)' /\ List(i)' = List(i)
           /\ Called(i) /\ Place(i, k)' => Place(i, k)
           /\ Called(i) /\ Suggests(i, k)' => Suggests(i, k)
<1>1. contract' = contract /\ Functions' = Functions
  BY DEF Extends, Functions
<1>2. Called(i) => Called(i)' /\ List(i)' = List(i)
  BY ListStays
<1> QED
  BY <1>1, <1>2 DEF Place, Suggests

LEMMA BeforeTrans ==
    ASSUME NEW i \in Int, NEW k \in Int, NEW j \in Int, NEW l \in Int, NEW e \in Int, NEW f \in Int,
           Before(i, k, j, l), Before(j, l, e, f)
    PROVE  Before(i, k, e, f)
BY DEF Before

LEMMA MapStays ==
    ASSUME Extends, AnswersOK, AnswersOK', contract \in Contracts,
           NEW e \in Int, NEW f \in Int, NEW M, MapMade(M, e, f),
           \A i, k : Place(i, k)' /\ Before(i, k, e, f) => Called(i)
    PROVE  MapMade(M, e, f)'
<1>1. \A i, k : Place(i, k)' /\ Before(i, k, e, f) => Place(i, k) /\ List(i)' = List(i)
  BY PlaceStays
<1>2. \A i, k : Place(i, k) => Place(i, k)' /\ List(i)' = List(i)
  BY PlaceStays
<1>3. contract' \in Contracts
  BY DEF Extends
<1>4. \A i, k : Place(i, k) \/ Place(i, k)' => i \in Int /\ k \in Int
  <2>1. \A i, k : Place(i, k) => i \in Int /\ k \in Int
    BY PlaceNumbers, FunctionNumbers
  <2>2. Functions' = Functions
    BY DEF Extends, Functions
  <2>3. \A i, k : Place(i, k)' => k \in Int
    <3>1. \A i, k : (Place(i, k) \/ Suggests(i, k))' => k \in Nat \ {0}
      <4> SUFFICES ASSUME NEW i, NEW k, (Place(i, k) \/ Suggests(i, k))'
                   PROVE  k \in Nat \ {0}
        OBVIOUS
      <4>1. Called(i)' /\ k \in DOMAIN List(i)'
        BY DEF Place, Suggests
      <4>2. List(i)' \in TemplateLists
        BY <4>1 DEF AnswersOK, Called, List
      <4> QED
        BY <4>1, <4>2, Given, SeqDomain
    <3> QED
      BY <3>1
  <2>4. \A i, k : Place(i, k)' => i \in Int
    BY <2>2, FunctionNumbers DEF Place
  <2> QED
    BY <2>1, <2>3, <2>4
<1>5. ASSUME NEW i, NEW k, Place(i, k), Before(i, k, e, f), First(i, k)
      PROVE  First(i, k)'
  <2>1. ASSUME NEW j, NEW l, Place(j, l)', Before(j, l, i, k)
        PROVE  List(j)'[l].hash # List(i)'[k].hash
    <3>1. Before(j, l, e, f)
      BY <1>4, <1>5, <2>1, BeforeTrans
    <3> QED
      BY <1>1, <1>2, <1>5, <2>1, <3>1 DEF First
  <2> QED
    BY <2>1 DEF First, Before
<1>6. ASSUME NEW i, NEW k, Place(i, k)', Before(i, k, e, f)
      PROVE  List(i)'[k].hash \in DOMAIN M
  BY <1>1, <1>6 DEF MapMade
<1>7. ASSUME NEW h \in DOMAIN M
      PROVE  \E i, k : /\ Place(i, k)' /\ Before(i, k, e, f) /\ First(i, k)'
                       /\ List(i)'[k].hash = h /\ M[h] = List(i)'[k]
  <2>1. PICK i, k : /\ Place(i, k) /\ Before(i, k, e, f) /\ First(i, k)
                    /\ List(i)[k].hash = h /\ M[h] = List(i)[k]
    BY DEF MapMade
  <2> QED
    BY <1>2, <1>5, <2>1
<1>8. M = [h \in DOMAIN M |-> M[h]]
  BY DEF MapMade
<1> QED
  BY <1>6, <1>7, <1>8 DEF MapMade, Before

LEMMA GuardByStays ==
    ASSUME Extends, NEW N, NEW i, GuardKnownBy(N, i)
    PROVE  GuardKnownBy(N, i)' /\ GuardBy(N, i)' = GuardBy(N, i)
BY DEF Extends, GuardKnownBy, GuardBy, GuardAnswer, GuardCall, GuardPlace

LEMMA LeavesMadeStay ==
    ASSUME Extends, NEW N, NEW M, NEW L, NEW n \in Int, LeavesMade(N, M, L, n),
           \A i \in 1..n : Called(i)' => Called(i)
    PROVE  LeavesMade(N, M, L, n)'
<1>1. L[0] = <<>>
  BY DEF LeavesMade
<1>2. ASSUME NEW i \in 1..n
      PROVE  /\ Called(i)' => GuardKnownBy(N, i)'
             /\ L[i] = IF Called(i)' THEN L[i - 1] \o Own(N, M, i)' ELSE L[i - 1]
  <2>1. CASE Called(i)
    <3>1. GuardKnownBy(N, i) /\ L[i] = L[i - 1] \o Own(N, M, i)
      BY <2>1 DEF LeavesMade
    <3>2. Called(i)' /\ List(i)' = List(i) /\ contract' = contract
      BY <2>1, ListStays DEF Extends
    <3>3. GuardKnownBy(N, i)' /\ GuardBy(N, i)' = GuardBy(N, i)
      BY <3>1, GuardByStays
    <3>4. Own(N, M, i)' = Own(N, M, i)
      BY <3>2, <3>3 DEF Own, ClauseAt
    <3> QED
      BY <3>1, <3>2, <3>3, <3>4
  <2>2. CASE ~Called(i)
    BY <2>2 DEF LeavesMade
  <2> QED
    BY <2>1, <2>2
<1> QED
  BY <1>1, <1>2 DEF LeavesMade

LEMMA LeavesMadeFrom ==
    ASSUME NEW N, NEW O, NEW M, NEW K, NEW L, NEW n \in Int, LeavesMade(N, M, L, n),
           \A i \in 1..n : N[i] = O[i] /\ i \in Functions,
           \A i, k : Place(i, k) /\ i \in 1..n => M[List(i)[k].hash] = K[List(i)[k].hash]
    PROVE  LeavesMade(O, K, L, n)
<1>1. L[0] = <<>>
  BY DEF LeavesMade
<1>2. ASSUME NEW i \in 1..n
      PROVE  /\ Called(i) => GuardKnownBy(O, i)
             /\ L[i] = IF Called(i) THEN L[i - 1] \o Own(O, K, i) ELSE L[i - 1]
  <2>1. CASE Called(i)
    <3>1. GuardKnownBy(N, i) /\ L[i] = L[i - 1] \o Own(N, M, i)
      BY <2>1 DEF LeavesMade
    <3>2. GuardBy(O, i) = GuardBy(N, i) /\ GuardKnownBy(O, i)
      BY <3>1 DEF GuardBy, GuardKnownBy, GuardPlace
    <3>3. contract.funcs[i].kind = "then" =>
            \A k \in DOMAIN List(i) : ClauseAt(M, i, k) = ClauseAt(K, i, k)
      BY <2>1 DEF ClauseAt, Place
    <3>4. Own(O, K, i) = Own(N, M, i)
      BY <3>2, <3>3 DEF Own
    <3> QED
      BY <2>1, <3>1, <3>2, <3>4
  <2>2. CASE ~Called(i)
    BY <2>2 DEF LeavesMade
  <2> QED
    BY <2>1, <2>2
<1> QED
  BY <1>1, <1>2 DEF LeavesMade

LEMMA FinishMadeStays ==
    ASSUME Extends, NEW F, NEW m \in Int, FinishMade(F, m)
    PROVE  FinishMade(F, m)'
<1>1. F[0] = <<>>
  BY DEF FinishMade
<1>2. ASSUME NEW j \in 1..m
      PROVE  /\ (GuardCall(contract.finishes[j], FinishCtx(j)) \in DOMAIN answers)'
             /\ F[j] = F[j - 1] \o Flatten(GuardAnswer(contract.finishes[j], FinishCtx(j)))'
  <2>1. /\ GuardCall(contract.finishes[j], FinishCtx(j)) \in DOMAIN answers
        /\ F[j] = F[j - 1] \o Flatten(GuardAnswer(contract.finishes[j], FinishCtx(j)))
    BY DEF FinishMade
  <2>2. GuardAnswer(contract.finishes[j], FinishCtx(j))'
          = GuardAnswer(contract.finishes[j], FinishCtx(j))
    BY <2>1 DEF Extends, GuardAnswer, GuardCall
  <2> QED
    BY <2>1, <2>2 DEF Extends, GuardCall
<1> QED
  BY <1>1, <1>2 DEF FinishMade

LEMMA PointsMadeStay ==
    ASSUME Extends, NEW N, NEW n \in Int, \A i \in 1..n : Called(i)' => Called(i)
    PROVE  PointsMade(N, n)' = PointsMade(N, n)
<1>1. \A i \in 1..n : Called(i)' <=> Called(i)
  BY ListStays
<1> QED
  BY <1>1 DEF PointsMade, Extends

LEMMA AttainedStays ==
    ASSUME Extends, NEW m, Attained(m)
    PROVE  Attained(m)'
<1>1. CASE m = -1
  BY <1>1 DEF Attained
<1>2. CASE <<"ensure">> \in DOMAIN answers /\ m = answers[<<"ensure">>]
  BY <1>2 DEF Attained, Extends
<1>3. CASE \E i, k : Returns(i, k) /\ m = List(i)[k].max
  <2>1. PICK i, k : Returns(i, k) /\ m = List(i)[k].max
    BY <1>3
  <2>2. Returns(i, k)' /\ List(i)' = List(i)
    BY <2>1, PlaceStays DEF Returns
  <2> QED
    BY <2>1, <2>2 DEF Attained
<1> QED
  BY <1>1, <1>2, <1>3 DEF Attained

LEMMA SuggestedByStays ==
    ASSUME Extends, NEW S, SuggestedBy(S)
    PROVE  SuggestedBy(S)'
<1>1. ASSUME NEW h \in DOMAIN S
      PROVE  \E i, k : Suggests(i, k)' /\ List(i)'[k].hash = h
  <2>1. PICK i, k : Suggests(i, k) /\ List(i)[k].hash = h
    BY DEF SuggestedBy
  <2>2. Suggests(i, k)' /\ List(i)' = List(i)
    BY <2>1, PlaceStays
  <2> QED
    BY <2>1, <2>2
<1> QED
  BY <1>1 DEF SuggestedBy

LEMMA ComesStays ==
    ASSUME Extends, AnswersOK, AnswersOK', contract \in Contracts,
           \A i \in Functions : Called(i)' => Called(i),
           NEW r, NEW N, NEW M, NEW L, NEW F, Comes(r, N, M, L, F)
    PROVE  Comes(r, N, M, L, F)'
<1>1. PICK n : n = Len(contract.funcs)
  OBVIOUS
<1>2. PICK m : m = Len(contract.finishes)
  OBVIOUS
<1>3. n \in Int /\ m \in Int /\ n + 1 \in Int /\ Functions = 1..n /\ contract' = contract
  BY <1>1, <1>2, FunctionNumbers DEF Extends
<1>4. /\ Naming(N, n) /\ MapMade(M, n + 1, 1) /\ LeavesMade(N, M, L, n) /\ FinishMade(F, m)
      /\ r.root = Root /\ r.committed = M /\ r.leaves = F[m] \o L[n]
      /\ r.key = KeyOf(r.leaves) /\ r.points = PointsMade(N, n)
  BY <1>1, <1>2 DEF Comes
<1>5. Naming(N, n)'
  BY <1>3, <1>4 DEF Naming, NameBy
<1>6. MapMade(M, n + 1, 1)'
  <2>1. \A i, k : Place(i, k)' => Called(i)
    BY <1>3 DEF Place, Functions
  <2> QED
    BY <1>3, <1>4, <2>1, MapStays
<1>7. LeavesMade(N, M, L, n)'
  BY <1>3, <1>4, LeavesMadeStay
<1>8. FinishMade(F, m)'
  BY <1>3, <1>4, FinishMadeStays
<1>9. PointsMade(N, n)' = PointsMade(N, n)
  BY <1>3, PointsMadeStay
<1>10. n = Len(contract'.funcs) /\ m = Len(contract'.finishes)
  BY <1>1, <1>2, <1>3
<1> QED
  BY <1>4, <1>5, <1>6, <1>7, <1>8, <1>9, <1>10 DEF Comes

LEMMA CameToStays ==
    ASSUME Extends, AnswersOK, AnswersOK', contract \in Contracts,
           \A i \in Functions : Called(i)' => Called(i), NEW r, CameTo(r)
    PROVE  CameTo(r)'
<1>1. PICK N, M, L, F : Comes(r, N, M, L, F)
  BY DEF CameTo
<1>2. Comes(r, N, M, L, F)'
  BY <1>1, ComesStays
<1>3. PICK a : a = r.max
  OBVIOUS
<1>4. PICK S : S = r.suggested
  OBVIOUS
<1>5. Attained(a)' /\ SuggestedBy(S)'
  BY <1>3, <1>4, AttainedStays, SuggestedByStays DEF CameTo
<1> QED
  BY <1>2, <1>3, <1>4, <1>5 DEF CameTo

LEMMA SecondStays ==
    ASSUME Extends, AnswersOK, AnswersOK', contract \in Contracts, SecondPass,
           pass' = pass, previous' = previous,
           pass = 2 => \A i \in Functions : Called(i)' => Called(i)
    PROVE  SecondPass'
<1> SUFFICES ASSUME pass = 2 PROVE Decided' /\ CameTo(previous)'
  BY DEF SecondPass
<1>1. PICK r : r = previous
  OBVIOUS
<1>2. CameTo(r)'
  BY <1>1, CameToStays DEF SecondPass
<1>3. ASSUME NEW i \in Functions'
      PROVE  (CondCall(i) \in DOMAIN answers)' /\ (IsKept(Decision(i))' => Called(i)')
  <2>1. i \in Functions /\ CondCall(i) \in DOMAIN answers /\ (IsKept(Decision(i)) => Called(i))
    BY DEF SecondPass, Decided, Extends, Functions
  <2>2. Decision(i)' = Decision(i) /\ CondCall(i) \in DOMAIN answers'
    BY <2>1 DEF Decision, Extends
  <2> QED
    BY <2>1, <2>2, ListStays DEF CondCall, IsKept
<1>4. Decided'
  BY <1>3 DEF Decided
<1> QED
  BY <1>1, <1>2, <1>4

(* The state's parts, where a step leaves alone what they are about.       *)
LEMMA FnNumbers ==
    ASSUME Shape
    PROVE  /\ Fn \in Nat \ {0} /\ Fin \in Int /\ Len(txClauses) + 1 \in Nat \ {0}
           /\ contract \in Contracts
<1>1. /\ contract \in Contracts /\ idx \in Nat \ {0} /\ IsSeq(txClauses)
  BY DEF Shape
<1> QED
  BY <1>1, FunctionNumbers, SeqDomain DEF Fn, Fin

LEMMA NumbersAfter ==
    ASSUME AnswersOK', Extends, contract \in Contracts, NEW i, NEW k, Returns(i, k)'
    PROVE  /\ i \in Functions /\ i \in Nat \ {0} /\ k \in Nat \ {0}
           /\ Called(i)' /\ k \in DOMAIN List(i)'
<1>1. Called(i)' /\ k \in DOMAIN List(i)' /\ i \in Functions'
  BY DEF Returns, Place, Suggests
<1>2. List(i)' \in TemplateLists
  BY <1>1 DEF AnswersOK, Called, List
<1>3. Functions' = Functions
  BY DEF Extends, Functions
<1> QED
  BY <1>1, <1>2, <1>3, Given, SeqDomain, FunctionNumbers

LEMMA PartsStay ==
    ASSUME Shape, AnswersOK, AnswersOK', Extends,
           NamesAre, MapIs, LeavesAre, FinishAre, PointsAre,
           UNCHANGED <<names, usedNames, committed, leaves, finishLeaves, points, txClauses>>,
           Fn' = Fn, Fin' = Fin,
           \A i : Called(i)' => Called(i) \/ (i = Fn /\ txClauses = <<>>)
    PROVE  NamesAre' /\ MapIs' /\ LeavesAre' /\ FinishAre' /\ PointsAre'
<1>1. PICK n : n = Fn - 1
  OBVIOUS
<1>2. PICK f : f = Len(txClauses) + 1
  OBVIOUS
<1>3. PICK m : m = Fin
  OBVIOUS
<1>4. /\ n \in Int /\ n + 1 \in Int /\ f \in Int /\ m \in Int /\ contract \in Contracts
      /\ contract' = contract /\ Fn = n + 1
      /\ \A i \in 1..n : i < n + 1
  BY <1>1, <1>2, <1>3, FnNumbers DEF Extends
<1>5. \A i \in 1..n : Called(i)' => Called(i)
  BY <1>4
<1>6. PICK N : N = names
  OBVIOUS
<1>7. PICK M : M = committed
  OBVIOUS
<1>8. NamesAre'
  BY <1>4 DEF NamesAre, Naming, NameBy
<1>9. MapIs'
  <2>1. MapMade(M, n + 1, f)
    BY <1>2, <1>4, <1>7 DEF MapIs
  <2>2. ASSUME NEW i, NEW k, Place(i, k)', Before(i, k, n + 1, f)
        PROVE  Called(i)
    <3>1. i \in Nat \ {0} /\ k \in Nat \ {0} /\ Called(i)'
      BY <1>4, <2>2, NumbersAfter DEF Returns
    <3>2. CASE i = Fn /\ txClauses = <<>>
      <4>1. f = 1 /\ i = n + 1
        BY <1>2, <1>4, <3>2
      <4> QED
        BY <2>2, <3>1, <4>1 DEF Before
    <3> QED
      BY <3>1, <3>2
  <2>3. MapMade(M, n + 1, f)'
    BY <1>4, <2>1, <2>2, MapStays
  <2> QED
    BY <1>2, <1>4, <1>7, <2>3 DEF MapIs
<1>10. LeavesAre'
  <2>1. PICK L : LeavesMade(N, M, L, n) /\ leaves = L[n]
    BY <1>1, <1>6, <1>7 DEF LeavesAre
  <2>2. LeavesMade(N, M, L, n)'
    BY <1>4, <1>5, <2>1, LeavesMadeStay
  <2> QED
    BY <1>1, <1>6, <1>7, <2>1, <2>2 DEF LeavesAre
<1>11. FinishAre'
  <2>1. PICK F : FinishMade(F, m) /\ finishLeaves = F[m]
    BY <1>3 DEF FinishAre
  <2>2. FinishMade(F, m)'
    BY <1>4, <2>1, FinishMadeStays
  <2> QED
    BY <1>3, <2>1, <2>2 DEF FinishAre
<1>12. PointsAre'
  <2>1. PointsMade(N, n)' = PointsMade(N, n)
    BY <1>4, <1>5, PointsMadeStay
  <2> QED
    BY <1>1, <1>6, <2>1 DEF PointsAre
<1> QED
  BY <1>8, <1>9, <1>10, <1>11, <1>12

(* Of the range and the suggestions, likewise.                             *)
LEMMA RangeStays ==
    ASSUME AnswersOK, AnswersOK', Extends, contract \in Contracts, RangeIs,
           range' = range, Fn' = Fn, Fn \in Int, pc # "ensure", Reckoned',
           \A i : Called(i)' => Called(i) \/ i = Fn
    PROVE  RangeIs'
<1>1. range'.max \in Int /\ -1 <= range'.max
  BY DEF RangeIs
<1>2. <<"ensure">> \in DOMAIN answers' /\ answers'[<<"ensure">>] <= range'.max
  BY DEF RangeIs, Extends
<1>3. ASSUME NEW i, NEW k, Returns(i, k)', i < Fn'
      PROVE  List(i)'[k].max <= range'.max
  <2>1. i \in Nat /\ Called(i)'
    BY <1>3, NumbersAfter
  <2>2. Called(i)
    BY <1>3, <2>1
  <2>3. Returns(i, k) /\ List(i)' = List(i)
    BY <1>3, <2>2, PlaceStays, ListStays DEF Returns
  <2> QED
    BY <1>3, <2>3 DEF RangeIs
<1> QED
  BY <1>1, <1>2, <1>3 DEF RangeIs

LEMMA FirstStays ==
    ASSUME Extends, FirstPass, pass' = pass, effects' = effects, range' = range,
           suggested' = suggested, pass = 1 /\ pc' = "insert" => DefaultOnly'
    PROVE  FirstPass'
<1> SUFFICES ASSUME pass = 1
             PROVE  Attained(range.max)' /\ SuggestedBy(suggested)'
  BY DEF FirstPass
<1>1. Attained(range.max) /\ SuggestedBy(suggested)
  BY DEF FirstPass
<1>2. PICK m : m = range.max
  OBVIOUS
<1>3. PICK S : S = suggested
  OBVIOUS
<1>4. Attained(m)' /\ SuggestedBy(S)'
  BY <1>1, <1>2, <1>3, AttainedStays, SuggestedByStays
<1> QED
  BY <1>1, <1>2, <1>3, <1>4

LEMMA NotLiveReplay ==
    ASSUME pc' \in {"failed", "spinning", "panic"}
    PROVE  Replay'
BY DEF Replay, Live

LEMMA InitReplays == Init => Replay
<1> SUFFICES ASSUME Init PROVE Replay
  OBVIOUS
<1>1. /\ contract \in Contracts /\ answers = <<>> /\ DOMAIN answers = {} /\ pc = "ensure" /\ idx = 1
      /\ names = <<>> /\ usedNames = {} /\ committed = <<>> /\ leaves = <<>> /\ finishLeaves = <<>>
      /\ points = {} /\ range = [min |-> -1, max |-> -1] /\ suggested = <<>> /\ pass = 1
      /\ effects = {} /\ txClauses = <<>>
  BY DEF Init
<1>2. \A i : ~Called(i)
  BY <1>1 DEF Called
<1>3. Fn = 1 /\ Fin = 0
  BY <1>1 DEF Fn, Fin
<1>4. NamesAre
  BY <1>1 DEF NamesAre, Naming
<1>5. MapIs
  BY <1>1, <1>2 DEF MapIs, MapMade, Place
<1>6. LeavesAre
  <2> DEFINE L == [i \in {0} |-> <<>>]
  <2>1. LeavesMade(names, committed, L, Fn - 1) /\ leaves = L[Fn - 1]
    BY <1>1, <1>3 DEF LeavesMade
  <2> QED
    BY <2>1 DEF LeavesAre
<1>7. FinishAre
  <2> DEFINE F == [i \in {0} |-> <<>>]
  <2>1. FinishMade(F, Fin) /\ finishLeaves = F[Fin]
    BY <1>1, <1>3 DEF FinishMade
  <2> QED
    BY <2>1 DEF FinishAre
<1>8. PointsAre
  BY <1>1, <1>3 DEF PointsAre, PointsMade
<1>9. AtWork /\ SecondPass /\ SealedAs
  BY <1>1 DEF AtWork, SecondPass, SealedAs
<1>10. RangeIs
  BY <1>1, <1>2 DEF RangeIs, Reckoned, Returns, Place, Suggests
<1>11. FirstPass
  BY <1>1 DEF FirstPass, Attained, SuggestedBy
<1> QED
  BY <1>4, <1>5, <1>6, <1>7, <1>8, <1>9, <1>10, <1>11 DEF Replay

LEMMA EnsureReplays == ASSUME IInv, Replay, EnsureAmount PROVE Replay'
<1>1. PICK a \in Answers(<<"ensure">>, Amounts \cup {-1}) :
        /\ Remember(<<"ensure">>, a)
        /\ \/ a = -1 /\ Fail
           \/ /\ a # -1
              /\ range' = UpdateRange(range, a)
              /\ pc' = "name"
              /\ UNCHANGED <<passVars, idx, nameVars, funcVars, guardVars,
                             committed, suggested, outVars>>
  BY DEF EnsureAmount
<1>2. CASE Fail
  BY <1>2, NotLiveReplay DEF Fail
<1>3. CASE ~Fail
  <2>1. /\ pc = "ensure" /\ pc' = "name"
        /\ UNCHANGED <<contract, effects, pass, previous, idx, usedNames, names, txs, txClauses,
                       committed, suggested, leaves, finishLeaves, points>>
        /\ range' = UpdateRange(range, a)
    BY <1>1, <1>3 DEF EnsureAmount, passVars, nameVars, funcVars, outVars
  <2>2. Shape /\ AnswersOK /\ AnswersOK'
    BY <2>1, EnsureKept DEF IInv, Live
  <2>3. /\ NamesAre /\ MapIs /\ LeavesAre /\ FinishAre /\ PointsAre
        /\ RangeIs /\ FirstPass /\ SecondPass
    BY <2>1 DEF Replay, Live
  <2>4. /\ \A c \in DOMAIN answers : c \in DOMAIN answers' /\ answers'[c] = answers[c]
        /\ DOMAIN answers' = DOMAIN answers \cup {<<"ensure">>}
        /\ answers'[<<"ensure">>] = a /\ a \in Nat
    <3>1. /\ \A c \in DOMAIN answers : c \in DOMAIN answers' /\ answers'[c] = answers[c]
          /\ DOMAIN answers' = DOMAIN answers \cup {<<"ensure">>}
          /\ answers'[<<"ensure">>] = a
          /\ IF <<"ensure">> \in DOMAIN answers THEN a = answers[<<"ensure">>]
             ELSE a \in Amounts \cup {-1}
      BY <1>1, Remembered
    <3>2. a \in Amounts \cup {-1} /\ a # -1
      BY <1>1, <1>3, <2>2, <3>1 DEF AnswersOK
    <3> QED
      BY <3>1, <3>2, Given
  <2>5. Extends
    BY <2>1, <2>4 DEF Extends
  <2>6. \A i : Called(i)' => Called(i)
    BY <2>4 DEF Called
  <2>7. Fn' = Fn /\ Fin' = Fin /\ Fn = 1 /\ contract \in Contracts
    BY <2>1, <2>2 DEF Fn, Fin, Shape
  <2>8. NamesAre' /\ MapIs' /\ LeavesAre' /\ FinishAre' /\ PointsAre'
    BY <2>1, <2>2, <2>3, <2>5, <2>6, <2>7, PartsStay
  <2>9. AtWork' /\ SealedAs'
    BY <2>1 DEF AtWork, SealedAs
  <2>10. range'.max = Larger(range.max, a) /\ range.max \in Int /\ -1 <= range.max
    BY <2>1, <2>3 DEF UpdateRange, RangeIs
  <2>11. RangeIs'
    <3>1. range'.max \in Int /\ -1 <= range'.max /\ a <= range'.max
      BY <2>4, <2>10 DEF Larger
    <3>2. \A i, k : Returns(i, k)' => ~(i < Fn')
      BY <2>2, <2>5, <2>7, NumbersAfter
    <3> QED
      BY <2>1, <2>4, <3>1, <3>2 DEF RangeIs, Reckoned
  <2>12. FirstPass'
    <3> SUFFICES ASSUME pass = 1
                 PROVE  effects' = {} /\ Attained(range.max)' /\ SuggestedBy(suggested)'
      BY <2>1 DEF FirstPass
    <3>1. PICK m : m = range'.max
      OBVIOUS
    <3>2. PICK S : S = suggested
      OBVIOUS
    <3>3. SuggestedBy(S)' /\ effects' = {}
      BY <2>1, <2>3, <2>5, <3>2, SuggestedByStays DEF FirstPass
    <3>4. Attained(m)'
      <4>1. CASE m = a
        BY <2>4, <4>1 DEF Attained
      <4>2. CASE m = range.max
        BY <2>3, <2>5, <4>2, AttainedStays DEF FirstPass
      <4> QED
        BY <2>10, <3>1, <4>1, <4>2 DEF Larger
    <3> QED
      BY <2>1, <3>1, <3>2, <3>3, <3>4
  <2>13. SecondPass'
    BY <2>1, <2>2, <2>3, <2>5, <2>6, <2>7, SecondStays
  <2> QED
    BY <2>8, <2>9, <2>11, <2>12, <2>13 DEF Replay
<1> QED
  BY <1>2, <1>3

LEMMA NameReplays == ASSUME IInv, Replay, NameFunction PROVE Replay'
<1> DEFINE n == GetName(Func.name)
<1>1. CASE pc' \in {"spinning", "panic"}
  BY <1>1, NotLiveReplay
<1>2. CASE ~(pc' \in {"spinning", "panic"})
  <2>1. PICK name : name = n
    OBVIOUS
  <2> HIDE DEF n
  <2>2. /\ pc = "name" /\ pc' = "cond" /\ idx <= Len(contract.funcs)
        /\ UNCHANGED <<contract, effects, pass, previous, answers, idx, txs, txClauses,
                       committed, suggested, range, leaves, finishLeaves, points>>
        /\ usedNames' = usedNames \cup {name} /\ names' = Append(names, name)
    BY <1>2, <2>1 DEF NameFunction, n, passVars, funcVars, guardVars, txVars, outVars
  <2>3. Shape /\ AnswersOK /\ AnswersOK'
    BY <2>2, NameKept DEF IInv, Live
  <2>4. /\ NamesAre /\ MapIs /\ LeavesAre /\ FinishAre /\ PointsAre
        /\ RangeIs /\ FirstPass /\ SecondPass
    BY <2>2 DEF Replay, Live
  <2>5. /\ contract \in Contracts /\ IsSeq(names) /\ idx \in Nat \ {0} /\ idx = Len(names) + 1
        /\ txs = <<>> /\ txClauses = <<>>
    BY <2>2, <2>3 DEF Shape
  <2>6. /\ Len(names') = idx /\ DOMAIN names = 1..(idx - 1) /\ DOMAIN names' = 1..idx
        /\ names'[idx] = name
        /\ \A i \in 1..(idx - 1) : i \in DOMAIN names' /\ names'[i] = names[i]
    BY <2>2, <2>5, AppendSeq, SeqDomain
  <2>7. Extends
    BY <2>2, <2>6 DEF Extends
  <2>8. \A i : Called(i)' <=> Called(i)
    BY <2>2 DEF Called
  <2>9. Fn' = Fn /\ Fin' = Fin /\ Fn = idx /\ Fin = 0
    BY <2>2 DEF Fn, Fin
  <2>10. NamesAre'
    <3>1. PICK O : O = names'
      OBVIOUS
    <3>2. \A i \in 1..(idx - 1) : O[i] = NameBy(O, i)
      <4> SUFFICES ASSUME NEW i \in 1..(idx - 1) PROVE O[i] = NameBy(O, i)
        OBVIOUS
      <4>1. \A j \in 1..(i - 1) : O[j] = names[j]
        BY <2>5, <2>6, <3>1
      <4>2. {O[j] : j \in 1..(i - 1)} = {names[j] : j \in 1..(i - 1)}
        BY <4>1
      <4>3. NameBy(O, i) = NameBy(names, i)
        BY <4>2 DEF NameBy
      <4>4. names[i] = NameBy(names, i)
        BY <2>4, <2>5 DEF NamesAre, Naming
      <4> QED
        BY <2>6, <3>1, <4>3, <4>4
    <3>3. usedNames = {O[j] : j \in 1..(idx - 1)}
      BY <2>4, <2>6, <3>1 DEF NamesAre
    <3>4. O[idx] = NameBy(O, idx)
      BY <2>1, <2>6, <3>1, <3>3 DEF n, GetName, NameBy, Func
    <3>5. \A i \in 1..idx : i \in 1..(idx - 1) \/ i = idx
      BY <2>5
    <3>6. Naming(O, idx)
      BY <3>2, <3>4, <3>5 DEF Naming
    <3>7. usedNames' = {O[j] : j \in 1..idx}
      <4>1. {O[j] : j \in 1..idx} = {O[j] : j \in 1..(idx - 1)} \cup {O[idx]}
        <5>1. \A j \in 1..(idx - 1) : j \in 1..idx
          BY <2>5
        <5>2. idx \in 1..idx
          BY <2>5
        <5> QED
          BY <3>5, <5>1, <5>2
      <4> QED
        BY <2>2, <2>6, <3>1, <3>3, <4>1
    <3>8. Naming(O, idx)'
      BY <2>2, <3>6 DEF Naming, NameBy
    <3> QED
      BY <2>2, <2>6, <3>1, <3>7, <3>8 DEF NamesAre
  <2>11. PICK k : k = Fn - 1
    OBVIOUS
  <2>12. k \in Int /\ k = idx - 1 /\ \A i \in 1..k : i \in Functions
    BY <2>2, <2>5, <2>9, <2>11, FunctionNumbers
  <2>13. PICK O : O = names'
    OBVIOUS
  <2>14. PICK N : N = names
    OBVIOUS
  <2>15. PICK M : M = committed
    OBVIOUS
  <2>16. \A i \in 1..k : N[i] = O[i]
    BY <2>6, <2>12, <2>13, <2>14
  <2>17. MapIs'
    <3>1. MapMade(M, Fn, 1)
      BY <2>4, <2>5, <2>15 DEF MapIs
    <3>2. MapMade(M, Fn, 1)'
      <4>1. PICK e : e = Fn
        OBVIOUS
      <4>2. MapMade(M, e, 1)'
        BY <2>3, <2>5, <2>7, <2>8, <2>9, <3>1, <4>1, MapStays DEF Place
      <4> QED
        BY <2>9, <4>1, <4>2
    <3> QED
      BY <2>2, <2>5, <2>15, <3>2 DEF MapIs
  <2>18. LeavesAre'
    <3>1. PICK L : LeavesMade(N, M, L, k) /\ leaves = L[k]
      BY <2>4, <2>11, <2>14, <2>15 DEF LeavesAre
    <3>2. LeavesMade(O, M, L, k)
      BY <2>12, <2>16, <3>1, LeavesMadeFrom
    <3>3. LeavesMade(O, M, L, k)'
      BY <2>7, <2>8, <2>12, <3>2, LeavesMadeStay
    <3> QED
      BY <2>2, <2>9, <2>11, <2>13, <2>15, <3>1, <3>3 DEF LeavesAre
  <2>19. FinishAre'
    BY <2>2, <2>4, <2>9 DEF FinishAre, FinishMade
  <2>20. PointsAre'
    <3>1. PointsMade(O, k) = PointsMade(N, k)
      BY <2>16 DEF PointsMade
    <3>2. PointsMade(O, k)' = PointsMade(O, k)
      BY <2>7, <2>8, <2>12, PointsMadeStay
    <3> QED
      BY <2>2, <2>4, <2>9, <2>11, <2>13, <2>14, <3>1, <3>2 DEF PointsAre
  <2>21. AtWork' /\ SealedAs'
    BY <2>2 DEF AtWork, SealedAs
  <2>22. RangeIs'
    BY <2>2, <2>3, <2>4, <2>5, <2>7, <2>8, <2>9, RangeStays DEF Reckoned
  <2>23. FirstPass'
    BY <2>2, <2>4, <2>7, FirstStays
  <2>24. SecondPass'
    BY <2>2, <2>3, <2>4, <2>5, <2>7, <2>8, SecondStays
  <2> QED
    BY <2>10, <2>17, <2>18, <2>19, <2>20, <2>21, <2>22, <2>23, <2>24 DEF Replay
<1> QED
  BY <1>1, <1>2

(* What one more function, or one more template, adds.                     *)
LEMMA MapNext ==
    ASSUME AnswersOK, contract \in Contracts, NEW e \in Int, NEW f \in Int, NEW M,
           MapMade(M, e, f), \A k : Place(e, k) => k < f
    PROVE  MapMade(M, e + 1, 1)
<1>1. \A i, k : Place(i, k) => i \in Int /\ k \in Nat \ {0}
  BY PlaceNumbers, FunctionNumbers
<1>2. \A i, k : Place(i, k) => (Before(i, k, e, f) <=> Before(i, k, e + 1, 1))
  <2> SUFFICES ASSUME NEW i, NEW k, Place(i, k)
               PROVE  Before(i, k, e, f) <=> Before(i, k, e + 1, 1)
    OBVIOUS
  <2>1. i \in Int /\ k \in Nat \ {0} /\ (i = e => k < f)
    BY <1>1
  <2> QED
    BY <2>1 DEF Before
<1> QED
  BY <1>2 DEF MapMade

LEMMA MapInsert ==
    ASSUME AnswersOK, contract \in Contracts, NEW e \in Int, NEW f \in Int, NEW M,
           MapMade(M, e, f), Place(e, f), NEW t, t = List(e)[f]
    PROVE  /\ MapMade(OrInsert(M, t), e, f + 1)
           /\ t.hash \in DOMAIN OrInsert(M, t)
           /\ \A h \in DOMAIN M : h \in DOMAIN OrInsert(M, t) /\ OrInsert(M, t)[h] = M[h]
<1>1. \A i, k : Place(i, k) => i \in Int /\ k \in Int
  BY PlaceNumbers, FunctionNumbers
<1>2. \A i, k : Place(i, k) => (Before(i, k, e, f + 1) <=> Before(i, k, e, f) \/ (i = e /\ k = f))
  <2> SUFFICES ASSUME NEW i, NEW k, Place(i, k)
               PROVE  Before(i, k, e, f + 1) <=> Before(i, k, e, f) \/ (i = e /\ k = f)
    OBVIOUS
  <2>1. i \in Int /\ k \in Int
    BY <1>1
  <2> QED
    BY <2>1 DEF Before
<1>3. M = [h \in DOMAIN M |-> M[h]]
  BY DEF MapMade
<1>4. CASE t.hash \in DOMAIN M
  <2>1. OrInsert(M, t) = M
    BY <1>4 DEF OrInsert
  <2>2. MapMade(M, e, f + 1)
    BY <1>2, <1>4 DEF MapMade
  <2> QED
    BY <1>4, <2>1, <2>2
<1>5. CASE t.hash \notin DOMAIN M
  <2>1. PICK K : K = OrInsert(M, t)
    OBVIOUS
  <2>2. K = [x \in DOMAIN M \cup {t.hash} |-> IF x = t.hash THEN t ELSE M[x]]
    BY <1>5, <2>1 DEF OrInsert, With
  <2>3. /\ K = [h \in DOMAIN K |-> K[h]] /\ DOMAIN K = DOMAIN M \cup {t.hash} /\ K[t.hash] = t
        /\ \A h \in DOMAIN M : h \in DOMAIN K /\ K[h] = M[h]
    BY <1>5, <2>2
  <2>4. First(e, f)
    BY <1>5 DEF First, MapMade
  <2>5. \A i, k : Place(i, k) /\ Before(i, k, e, f + 1) => List(i)[k].hash \in DOMAIN K
    BY <1>2, <2>3 DEF MapMade
  <2>6. ASSUME NEW h \in DOMAIN K
        PROVE  \E i, k : /\ Place(i, k) /\ Before(i, k, e, f + 1) /\ First(i, k)
                         /\ List(i)[k].hash = h /\ K[h] = List(i)[k]
    <3>1. CASE h = t.hash
      BY <1>2, <2>3, <2>4, <3>1
    <3>2. CASE h \in DOMAIN M
      <4>1. PICK i, k : /\ Place(i, k) /\ Before(i, k, e, f) /\ First(i, k)
                        /\ List(i)[k].hash = h /\ M[h] = List(i)[k]
        BY <3>2 DEF MapMade
      <4> QED
        BY <1>2, <2>3, <3>2, <4>1
    <3> QED
      BY <2>3, <3>1, <3>2
  <2>7. MapMade(K, e, f + 1)
    BY <2>3, <2>5, <2>6 DEF MapMade
  <2> QED
    BY <2>1, <2>3, <2>7
<1> QED
  BY <1>4, <1>5

LEMMA LeavesNext ==
    ASSUME NEW n \in Nat, NEW N, NEW M, NEW L, LeavesMade(N, M, L, n),
           Called(n + 1) => GuardKnownBy(N, n + 1)
    PROVE  \E H : /\ LeavesMade(N, M, H, n + 1)
                  /\ H[n + 1] = IF Called(n + 1) THEN L[n] \o Own(N, M, n + 1) ELSE L[n]
<1> DEFINE K == IF Called(n + 1) THEN L[n] \o Own(N, M, n + 1) ELSE L[n]
           H == [i \in 0..(n + 1) |-> IF i = n + 1 THEN K ELSE L[i]]
<1>1. H[0] = L[0] /\ L[0] = <<>>
  BY DEF LeavesMade
<1>2. ASSUME NEW i \in 1..n
      PROVE  H[i] = L[i] /\ H[i - 1] = L[i - 1]
  <2>1. i \in 0..(n + 1) /\ i - 1 \in 0..(n + 1) /\ i # n + 1 /\ i - 1 # n + 1
    OBVIOUS
  <2> QED
    BY <2>1
<1>3. H[n + 1] = K /\ H[(n + 1) - 1] = L[n]
  <2>1. n + 1 \in 0..(n + 1) /\ (n + 1) - 1 \in 0..(n + 1) /\ (n + 1) - 1 # n + 1
        /\ (n + 1) - 1 = n
    OBVIOUS
  <2> QED
    BY <2>1
<1> HIDE DEF H
<1>4. \A i \in 1..(n + 1) : i \in 1..n \/ i = n + 1
  OBVIOUS
<1>5. ASSUME NEW i \in 1..(n + 1)
      PROVE  /\ Called(i) => GuardKnownBy(N, i)
             /\ H[i] = IF Called(i) THEN H[i - 1] \o Own(N, M, i) ELSE H[i - 1]
  <2>1. CASE i \in 1..n
    BY <1>2, <2>1 DEF LeavesMade
  <2>2. CASE i = n + 1
    BY <1>3, <2>2
  <2> QED
    BY <1>4, <2>1, <2>2
<1>6. LeavesMade(N, M, H, n + 1)
  BY <1>1, <1>5 DEF LeavesMade
<1> QED
  BY <1>3, <1>6

LEMMA PointsNext ==
    ASSUME NEW n \in Nat, NEW N
    PROVE  PointsMade(N, n + 1) = PointsMade(N, n) \cup
             IF Called(n + 1) /\ contract.funcs[n + 1].kind # "then"
             THEN {EffectPath(contract.funcs[n + 1], N[n + 1])} ELSE {}
<1>1. \A i : i \in 1..(n + 1) <=> i \in 1..n \/ i = n + 1
  OBVIOUS
<1>2. CASE Called(n + 1) /\ contract.funcs[n + 1].kind # "then"
  <2>1. {j \in 1..(n + 1) : Called(j) /\ contract.funcs[j].kind # "then"}
          = {j \in 1..n : Called(j) /\ contract.funcs[j].kind # "then"} \cup {n + 1}
    BY <1>1, <1>2
  <2> QED
    BY <1>2, <2>1 DEF PointsMade
<1>3. CASE ~(Called(n + 1) /\ contract.funcs[n + 1].kind # "then")
  <2>1. {j \in 1..(n + 1) : Called(j) /\ contract.funcs[j].kind # "then"}
          = {j \in 1..n : Called(j) /\ contract.funcs[j].kind # "then"}
    BY <1>1, <1>3
  <2> QED
    BY <1>3, <2>1 DEF PointsMade
<1> QED
  BY <1>2, <1>3

(* A function that has been dealt with.                                    *)
LEMMA FunctionOver ==
    ASSUME Shape, AnswersOK, AnswersOK', Extends, InStage,
           NamesAre, MapIs, LeavesAre, FinishAre, PointsAre,
           UNCHANGED <<names, usedNames, committed, finishLeaves>>,
           pc' = "name", idx' = idx + 1, txClauses' = <<>>,
           \A i : Called(i)' => Called(i),
           \A k : Place(idx, k) => k < Len(txClauses) + 1,
           Called(idx) => GuardKnown(idx),
           leaves' = IF Called(idx) THEN leaves \o Own(names, committed, idx) ELSE leaves,
           points' = points \cup
             IF Called(idx) /\ contract.funcs[idx].kind # "then" THEN {PathOf(idx)} ELSE {}
    PROVE  NamesAre' /\ MapIs' /\ LeavesAre' /\ FinishAre' /\ PointsAre'
<1>1. /\ contract \in Contracts /\ idx \in Nat \ {0} /\ Len(txClauses) + 1 \in Int
      /\ Fn = idx /\ Fin = 0 /\ Fn' = idx + 1 /\ Fin' = 0 /\ contract' = contract
  BY FnNumbers DEF Shape, InStage, Fn, Fin, Extends
<1>2. PICK e : e = idx
  OBVIOUS
<1>3. PICK n : n = idx - 1
  OBVIOUS
<1>4. PICK f : f = Len(txClauses) + 1
  OBVIOUS
<1>5. n \in Nat /\ n + 1 = e /\ e \in Int /\ f \in Int /\ Len(txClauses') + 1 = 1
  <2>1. n \in Nat /\ n + 1 = e /\ e \in Int
    BY <1>1, <1>2, <1>3
  <2>2. f \in Int
    BY <1>1, <1>4
  <2>3. Len(txClauses') + 1 = 1
    OBVIOUS
  <2> QED
    BY <2>1, <2>2, <2>3
<1>6. PICK N : N = names
  OBVIOUS
<1>7. PICK M : M = committed
  OBVIOUS
<1>8. NamesAre'
  BY <1>1 DEF NamesAre, Naming, NameBy
<1>9. MapIs'
  <2>1. MapMade(M, e, f)
    BY <1>1, <1>2, <1>4, <1>7 DEF MapIs
  <2>2. MapMade(M, e + 1, 1)
    BY <1>1, <1>2, <1>4, <1>5, <2>1, MapNext
  <2>3. MapMade(M, e + 1, 1)'
    BY <1>1, <1>5, <2>2, MapStays DEF Place
  <2> QED
    BY <1>1, <1>2, <1>5, <1>7, <2>3 DEF MapIs
<1>10. LeavesAre'
  <2>1. PICK L : LeavesMade(N, M, L, n) /\ leaves = L[n]
    BY <1>1, <1>3, <1>6, <1>7 DEF LeavesAre
  <2>2. Called(e) => GuardKnownBy(N, e)
    BY <1>2, <1>6 DEF GuardKnown, GuardKnownBy, GuardAt, GuardPlace
  <2>3. PICK K : K = leaves'
    OBVIOUS
  <2>4. K = IF Called(e) THEN L[n] \o Own(N, M, e) ELSE L[n]
    <3>1. K = IF Called(idx) THEN leaves \o Own(names, committed, idx) ELSE leaves
      BY <2>3
    <3>2. leaves = L[n]
      BY <2>1
    <3> QED
      BY <1>2, <1>6, <1>7, <3>1, <3>2, Zenon
  <2>5. PICK H : LeavesMade(N, M, H, e) /\ H[e] = K
    <3>1. /\ Called(n + 1) => GuardKnownBy(N, n + 1)
          /\ K = IF Called(n + 1) THEN L[n] \o Own(N, M, n + 1) ELSE L[n]
      BY <1>5, <2>2, <2>4, Zenon
    <3>2. PICK H : /\ LeavesMade(N, M, H, n + 1)
                   /\ H[n + 1] = IF Called(n + 1) THEN L[n] \o Own(N, M, n + 1) ELSE L[n]
      BY <1>5, <2>1, <3>1, LeavesNext
    <3> QED
      BY <1>5, <3>1, <3>2, Zenon
  <2>6. LeavesMade(N, M, H, e)'
    BY <1>5, <2>5, LeavesMadeStay
  <2>7. Fn' - 1 = e
    BY <1>1, <1>2
  <2> QED
    BY <1>6, <1>7, <2>3, <2>5, <2>6, <2>7 DEF LeavesAre
<1>11. FinishAre'
  <2>1. PICK F : FinishMade(F, 0) /\ finishLeaves = F[0]
    BY <1>1 DEF FinishAre
  <2>2. FinishMade(F, 0)'
    BY <2>1, FinishMadeStays
  <2> QED
    BY <1>1, <2>1, <2>2 DEF FinishAre
<1>12. PointsAre'
  <2>1. points = PointsMade(N, n)
    BY <1>1, <1>3, <1>6 DEF PointsAre
  <2>2. points' = PointsMade(N, e)
    <3>1. PointsMade(N, n + 1) = PointsMade(N, n) \cup
             IF Called(n + 1) /\ contract.funcs[n + 1].kind # "then"
             THEN {EffectPath(contract.funcs[n + 1], N[n + 1])} ELSE {}
      BY <1>5, PointsNext
    <3>2. PathOf(idx) = EffectPath(contract.funcs[e], N[e])
      BY <1>2, <1>6 DEF PathOf
    <3> QED
      BY <1>2, <1>5, <2>1, <3>1, <3>2
  <2>3. PointsMade(N, e)' = PointsMade(N, e)
    BY <1>5, PointsMadeStay
  <2>4. Fn' - 1 = e
    BY <1>1, <1>2
  <2> QED
    BY <1>6, <2>2, <2>3, <2>4 DEF PointsAre
<1> QED
  BY <1>8, <1>9, <1>10, <1>11, <1>12

LEMMA RangeOver ==
    ASSUME AnswersOK, AnswersOK', Extends, contract \in Contracts, RangeIs,
           range' = range, idx \in Nat, Fn = idx, Fn' = idx + 1, pc # "ensure", pc' # "insert",
           \A i : Called(i)' => Called(i),
           \A k : Returns(idx, k) => List(idx)[k].max <= range.max
    PROVE  RangeIs'
<1>1. range'.max \in Int /\ -1 <= range'.max /\ Reckoned'
  BY DEF RangeIs, Reckoned
<1>2. <<"ensure">> \in DOMAIN answers' /\ answers'[<<"ensure">>] <= range'.max
  BY DEF RangeIs, Extends
<1>3. ASSUME NEW i, NEW k, Returns(i, k)', i < Fn'
      PROVE  List(i)'[k].max <= range'.max
  <2>1. i \in Nat /\ Called(i)'
    BY <1>3, NumbersAfter
  <2>2. Called(i)
    BY <2>1
  <2>3. Returns(i, k) /\ List(i)' = List(i)
    BY <1>3, <2>2, PlaceStays, ListStays DEF Returns
  <2>4. i < Fn \/ i = idx
    BY <1>3, <2>1
  <2> QED
    BY <2>3, <2>4 DEF RangeIs
<1> QED
  BY <1>1, <1>2, <1>3 DEF RangeIs

LEMMA CompileIfReplays == ASSUME IInv, Replay, CompileIf PROVE Replay'
<1>1. PICK r \in Answers(<<"cond", idx>>, [1..Len(Func.conds) -> CondTypes]) :
        /\ Remember(<<"cond", idx>>, r)
        /\ \/ Assemble(r) = "Fail" /\ Fail
           \/ /\ Assemble(r) \in {"Skippable", "Never"}
              /\ pc' = "name" /\ idx' = idx + 1
              /\ UNCHANGED <<passVars, derived, nameVars, funcVars,
                             guardVars, txVars, outVars>>
           \/ /\ Assemble(r) \in {"Required", "NoConstraint", "Nullable"}
              /\ pc' = "guard"
              /\ UNCHANGED <<passVars, idx, derived, nameVars, guard, calls,
                             txs, txClauses, guardVars, txVars, outVars>>
  BY DEF CompileIf
<1>2. CASE Fail
  BY <1>2, NotLiveReplay DEF Fail
<1>3. CASE ~Fail
  <2> DEFINE d == Assemble(r)
  <2> HIDE DEF d
  <2>1. /\ pc = "cond"
        /\ UNCHANGED <<contract, effects, pass, previous, usedNames, names, txs, txClauses,
                       committed, suggested, range, leaves, finishLeaves, points>>
        /\ \/ d \in {"Skippable", "Never"} /\ pc' = "name" /\ idx' = idx + 1
           \/ pc' = "guard" /\ idx' = idx
    BY <1>1, <1>3 DEF CompileIf, d, passVars, nameVars, funcVars, guardVars, txVars, outVars
  <2>2. Shape /\ AnswersOK /\ AnswersOK'
    BY <2>1, CompileIfKept DEF IInv, Live
  <2>3. /\ NamesAre /\ MapIs /\ LeavesAre /\ FinishAre /\ PointsAre
        /\ RangeIs /\ FirstPass /\ SecondPass
    BY <2>1 DEF Replay, Live
  <2>4. contract \in Contracts /\ txClauses = <<>> /\ idx \in Nat \ {0} /\ idx \in Functions
    BY <2>1, <2>2 DEF Shape, InStage, Functions
  <2>5. /\ \A c \in DOMAIN answers : c \in DOMAIN answers' /\ answers'[c] = answers[c]
        /\ DOMAIN answers' = DOMAIN answers \cup {CondCall(idx)}
        /\ answers'[CondCall(idx)] = r
    <3>1. PICK S, call : call = CondCall(idx) /\ r \in Answers(call, S) /\ Remember(call, r)
      BY <1>1, Zenon DEF CondCall
    <3>2. QED
      BY <3>1, Remembered
  <2>6. Extends
    BY <2>1, <2>5 DEF Extends
  <2>7. \A i : Called(i)' => Called(i)
    BY <2>5 DEF Called, CondCall
  <2>8. AtWork' /\ SealedAs'
    BY <2>1 DEF AtWork, SealedAs
  <2>9. FirstPass'
    BY <2>1, <2>3, <2>6, FirstStays
  <2>10. SecondPass'
    BY <2>1, <2>2, <2>3, <2>4, <2>6, <2>7, SecondStays
  <2>11. CASE pc' = "guard"
    <3>1. Fn' = Fn /\ Fin' = Fin /\ Fn \in Int
      BY <2>1, <2>4, <2>11 DEF Fn, Fin
    <3>2. NamesAre' /\ MapIs' /\ LeavesAre' /\ FinishAre' /\ PointsAre'
      BY <2>1, <2>2, <2>3, <2>6, <2>7, <3>1, PartsStay
    <3>3. RangeIs'
      BY <2>1, <2>2, <2>3, <2>4, <2>6, <2>7, <2>11, <3>1, RangeStays DEF Reckoned
    <3> QED
      BY <2>8, <2>9, <2>10, <3>2, <3>3 DEF Replay
  <2>12. CASE pc' = "name"
    <3>1. d \in {"Skippable", "Never"} /\ idx' = idx + 1
      BY <2>1, <2>12
    <3>2. PICK k : k = idx
      OBVIOUS
    <3>3. ~Called(k)
      <4>1. SUFFICES ASSUME Called(k) PROVE FALSE
        OBVIOUS
      <4>2. CondCall(k) \in DOMAIN answers /\ IsKept(Decision(k))
        BY <2>2, <2>4, <3>2, <4>1 DEF AnswersOK
      <4>3. Decision(k) = d
        BY <2>5, <3>2, <4>2 DEF Decision, d
      <4> QED
        BY <3>1, <4>2, <4>3 DEF IsKept
    <3>4. ~Called(idx) /\ \A j : ~Place(idx, j) /\ ~Returns(idx, j)
      BY <3>2, <3>3 DEF Place, Returns, Suggests
    <3>5. NamesAre' /\ MapIs' /\ LeavesAre' /\ FinishAre' /\ PointsAre'
      <4>1. InStage
        BY <2>1 DEF InStage
      <4> QED
        BY <2>1, <2>2, <2>3, <2>4, <2>6, <2>7, <2>12, <3>1, <3>4, <4>1, FunctionOver
    <3>6. RangeIs'
      <4>1. Fn = idx /\ Fn' = idx + 1
        BY <2>1, <2>12, <3>1 DEF Fn
      <4> QED
        BY <2>1, <2>2, <2>3, <2>4, <2>6, <2>7, <2>12, <3>4, <4>1, RangeOver
    <3> QED
      BY <2>8, <2>9, <2>10, <3>5, <3>6 DEF Replay
  <2> QED
    BY <2>1, <2>11, <2>12
<1> QED
  BY <1>2, <1>3

LEMMA CreateGuardsReplays == ASSUME IInv, Replay, CreateGuards PROVE Replay'
<1> DEFINE here == ActionPath(names[Len(names)])
           at == Append(here, "Guard")
<1>1. CASE pc' = "spinning"
  BY <1>1, NotLiveReplay
<1>2. CASE pc' # "spinning"
  <2>1. /\ pc = "guard" /\ pc' = "call"
        /\ UNCHANGED <<contract, effects, pass, previous, idx, usedNames, names, txs, txClauses,
                       committed, suggested, range, leaves, finishLeaves, points>>
        /\ \/ answers' = answers
           \/ \E c \in Clauses : GetGuard(Func.guards[1], at, c)
    BY <1>2 DEF CreateGuards, passVars, nameVars, txVars, outVars, guardVars
  <2> HIDE DEF at
  <2>2. Shape /\ AnswersOK /\ AnswersOK'
    BY <2>1, CreateGuardsKept DEF IInv, Live
  <2>3. /\ NamesAre /\ MapIs /\ LeavesAre /\ FinishAre /\ PointsAre
        /\ RangeIs /\ FirstPass /\ SecondPass
    BY <2>1 DEF Replay, Live
  <2>4. contract \in Contracts /\ txs = <<>> /\ idx \in Nat \ {0}
    BY <2>1, <2>2 DEF Shape
  <2>5. Extends /\ \A i : Called(i)' => Called(i)
    <3>1. CASE answers' = answers
      BY <2>1, <3>1 DEF Extends, Called
    <3>2. CASE \E c \in Clauses : GetGuard(Func.guards[1], at, c)
      <4>1. PICK g : g = Func.guards[1]
        OBVIOUS
      <4>2. PICK c \in Clauses : GetGuard(g, at, c)
        BY <3>2, <4>1
      <4>3. /\ \A x \in DOMAIN answers : x \in DOMAIN answers' /\ answers'[x] = answers[x]
            /\ DOMAIN answers' = DOMAIN answers \cup {GuardCall(g, at)}
        BY <2>1, <2>2, <4>2, GuardAnswered
      <4>4. \A i : Called(i)' <=> Called(i)
        BY <4>3, GuardIsNoCall
      <4> QED
        BY <2>1, <4>3, <4>4 DEF Extends
    <3> QED
      BY <2>1, <3>1, <3>2
  <2>6. Fn' = Fn /\ Fin' = Fin /\ Fn \in Int
    BY <2>1, <2>4 DEF Fn, Fin
  <2>7. NamesAre' /\ MapIs' /\ LeavesAre' /\ FinishAre' /\ PointsAre'
    BY <2>1, <2>2, <2>3, <2>5, <2>6, PartsStay
  <2>8. RangeIs'
    BY <2>1, <2>2, <2>3, <2>4, <2>5, <2>6, RangeStays DEF Reckoned
  <2>9. FirstPass'
    BY <2>1, <2>3, <2>5, FirstStays
  <2>10. SecondPass'
    BY <2>1, <2>2, <2>3, <2>4, <2>5, SecondStays
  <2>11. AtWork' /\ SealedAs'
    BY <2>1, <2>4 DEF AtWork, SealedAs
  <2> QED
    BY <2>7, <2>8, <2>9, <2>10, <2>11 DEF Replay
<1> QED
  BY <1>1, <1>2

LEMMA CallReplays == ASSUME IInv, Replay, CallFunction PROVE Replay'
<1> DEFINE asked(n) == <<"call", idx, Effect(n)>>
<1>1. PICK n \in calls :
        /\ NextCall(n)
        /\ calls' = calls \ {n}
        /\ pc' = IF calls = {n} THEN "insert" ELSE "call"
        /\ \E r \in Answers(asked(n), TemplateLists) :
             Remember(asked(n), r) /\ txs' = txs \o r
  BY DEF CallFunction
<1>2. PICK r \in Answers(asked(n), TemplateLists) :
        Remember(asked(n), r) /\ txs' = txs \o r
  BY <1>1
<1>3. /\ pc = "call" /\ pc' = IF calls = {n} THEN "insert" ELSE "call"
      /\ UNCHANGED <<contract, effects, pass, previous, idx, usedNames, names, txClauses,
                     committed, suggested, range, leaves, finishLeaves, points>>
      /\ calls' = calls \ {n}
  BY <1>1 DEF CallFunction, passVars, nameVars, txVars, outVars
<1>4. Shape /\ AnswersOK /\ Working /\ Working' /\ AnswersOK'
  BY <1>3, CallKept DEF IInv, Live
<1>5. /\ NamesAre /\ MapIs /\ LeavesAre /\ FinishAre /\ PointsAre /\ AtWork
      /\ RangeIs /\ FirstPass /\ SecondPass
  BY <1>3 DEF Replay, Live
<1>6. /\ contract \in Contracts /\ idx \in Nat \ {0} /\ Len(names) = idx /\ idx \in Functions
      /\ IsSeq(txs) /\ txClauses = <<>>
  BY <1>3, <1>4 DEF Shape, InStage, Functions
<1>7. /\ CondCall(idx) \in DOMAIN answers /\ IsKept(Decision(idx))
      /\ calls \subseteq Calls(Func, names[idx])
      /\ 0 \in calls \/ Called(idx)
      /\ \A m \in Calls(Func, names[idx]) \ calls :
           asked(m) \in DOMAIN answers /\ \A x \in DOMAIN answers[asked(m)] : InTxs(answers[asked(m)][x])
      /\ IsThen => txs = <<>>
  BY <1>3, <1>4 DEF Working
<1>8. /\ \A c \in DOMAIN answers : c \in DOMAIN answers' /\ answers'[c] = answers[c]
      /\ DOMAIN answers' = DOMAIN answers \cup {asked(n)}
      /\ answers'[asked(n)] = r
  <2>1. PICK call : call = asked(n)
    OBVIOUS
  <2>2. /\ \A c \in DOMAIN answers : c \in DOMAIN answers' /\ answers'[c] = answers[c]
        /\ DOMAIN answers' = DOMAIN answers \cup {call}
        /\ answers'[call] = r
    BY <1>2, <2>1, Remembered
  <2> QED
    BY <2>1, <2>2
<1>9. Extends
  BY <1>3, <1>8 DEF Extends
<1>10. \A i : i = idx \/ (Called(i)' => Called(i))
  BY <1>8 DEF Called
<1>11. 0 \in calls => n = 0
  <2>1. Calls(Func, names[idx]) \subseteq Nat
    BY Given DEF Calls, EffectsAt
  <2> QED
    BY <1>1, <1>7, <2>1 DEF NextCall
<1>12. n = 0 => List(idx)' = r
  BY <1>3, <1>8 DEF List, Effect
<1>13. Fn' = Fn /\ Fin' = Fin /\ Fn = idx /\ Fn \in Int
  BY <1>3, <1>6 DEF Fn, Fin
<1>14. NamesAre' /\ MapIs' /\ LeavesAre' /\ FinishAre' /\ PointsAre'
  BY <1>3, <1>4, <1>5, <1>6, <1>9, <1>10, <1>13, PartsStay
<1>15. IsThen => Calls(Func, names[idx]) = {0}
  BY DEF IsThen, Calls
<1>16. Func' = Func /\ IsThen' = IsThen /\ Calls(Func, names[idx])' = Calls(Func, names[idx])
  BY <1>3 DEF Func, IsThen, Calls, EffectsAt
<1>17. IsSeq(r)
  <2>1. r \in TemplateLists
    BY <1>3, <1>4, <1>8 DEF AnswersOK
  <2> QED
    BY <2>1, Given
<1>18. AtWork'
  <2>1. 0 \notin calls'
    BY <1>3, <1>11
  <2>2. ASSUME pc' = "insert", IsThen'
        PROVE  /\ Len(List(idx)') = Len(txClauses') + Len(txs')
               /\ \A x \in DOMAIN txs' : txs'[x] = List(idx)'[Len(txClauses') + x]
               /\ \A x \in DOMAIN txClauses' : txClauses'[x] = ClauseAt(committed, idx, x)'
    <3>1. n = 0 /\ txs = <<>>
      BY <1>1, <1>7, <1>15, <1>16, <2>2
    <3>2. txs' = r /\ List(idx)' = r
      BY <1>2, <1>12, <1>17, <3>1 DEF IsSeq
    <3>3. Len(txClauses') = 0 /\ DOMAIN txClauses' = {}
      BY <1>3, <1>6
    <3>4. Len(r) \in Nat /\ DOMAIN r = 1..Len(r)
      BY <1>17, SeqDomain
    <3> QED
      BY <3>2, <3>3, <3>4
  <2> QED
    BY <1>3, <2>1, <2>2 DEF AtWork
<1>19. RangeIs'
  <2>1. ASSUME pc' = "insert", NEW k \in DOMAIN List(idx)'
        PROVE  InTxs(List(idx)[k])'
    <3>1. Asked(idx)' \subseteq DOMAIN answers' /\ Called(idx)'
      BY <1>4, <2>1 DEF Working
    <3>2. CASE n = 0
      <4>1. Joins(txs', txs, r)
        BY <1>2, <1>6, <1>17, ConcatSeq
      <4>2. List(idx)' = r
        BY <1>12, <3>2
      <4> QED
        BY <2>1, <4>1, <4>2 DEF Joins, InTxs
    <3>3. CASE n # 0
      <4>1. 0 \in Calls(Func, names[idx]) \ calls
        BY <1>11, <3>3 DEF Calls
      <4>2. asked(0) = <<"call", idx, "DefaultEffect">>
        BY DEF Effect
      <4>3. List(idx)' = answers[asked(0)]
        BY <1>3, <1>7, <1>8, <4>1, <4>2 DEF List
      <4>4. InTxs(List(idx)'[k])
        BY <1>7, <2>1, <4>1, <4>3
      <4>5. Joins(txs', txs, r)
        BY <1>2, <1>6, <1>17, ConcatSeq
      <4> QED
        BY <4>4, <4>5 DEF Joins, InTxs
    <3> QED
      BY <3>2, <3>3
  <2>2. Reckoned'
    BY <2>1 DEF Reckoned
  <2>3. \A i : Called(i)' => Called(i) \/ i = Fn
    BY <1>10, <1>13
  <2> QED
    BY <1>3, <1>4, <1>5, <1>6, <1>9, <1>13, <2>2, <2>3, RangeStays
<1>20. FirstPass'
  <2>1. ASSUME pass = 1, pc' = "insert"
        PROVE  DefaultOnly'
    <3>1. effects = {}
      BY <1>5, <2>1 DEF FirstPass
    <3>2. Calls(Func, names[idx]) = {0}
      BY <3>1 DEF Calls, EffectsAt
    <3>3. n = 0 /\ 0 \in calls
      BY <1>1, <1>7, <3>2
    <3>4. txs = <<>>
      BY <1>3, <1>5, <3>3 DEF AtWork
    <3>5. txs' = r /\ List(idx)' = r
      BY <1>2, <1>12, <1>17, <3>3, <3>4 DEF IsSeq
    <3> QED
      BY <3>5 DEF DefaultOnly
  <2> QED
    BY <1>3, <1>5, <1>9, <2>1, FirstStays
<1>21. SecondPass'
  <2>1. pass = 2 => Called(idx)
    BY <1>5, <1>6, <1>7 DEF SecondPass, Decided
  <2>2. pass = 2 => \A i \in Functions : Called(i)' => Called(i)
    BY <1>10, <2>1
  <2> QED
    BY <1>3, <1>4, <1>5, <1>6, <1>9, <2>2, SecondStays
<1>22. SealedAs'
  BY <1>3 DEF SealedAs
<1> QED
  BY <1>14, <1>18, <1>19, <1>20, <1>21, <1>22 DEF Replay

LEMMA InsertReplays == ASSUME IInv, Replay, InsertTemplate PROVE Replay'
<1> DEFINE map == OrInsert(IF IsThen THEN committed ELSE suggested, Head(txs))
           kept == map[Head(txs).hash]
<1>1. CASE Fail
  BY <1>1, NotLiveReplay DEF Fail
<1>2. CASE ~Fail
  <2>1. PICK t : t = Head(txs)
    OBVIOUS
  <2>2. /\ pc = "insert" /\ pc' = "insert" /\ txs # <<>> /\ txs' = Tail(txs)
        /\ UNCHANGED <<contract, effects, pass, previous, answers, idx, usedNames, names,
                       leaves, finishLeaves, points>>
        /\ range' = UpdateRange(range, t.max)
        /\ IF IsThen
           THEN /\ committed' = OrInsert(committed, t) /\ suggested' = suggested
                /\ txClauses' = Append(txClauses, OrInsert(committed, t)[t.hash].guards
                                                    \cup {CTV(t.hash)})
           ELSE /\ suggested' = OrInsert(suggested, t)
                /\ committed' = committed /\ txClauses' = txClauses
    BY <1>2, <2>1 DEF InsertTemplate, passVars, nameVars, outVars
  <2>3. Shape /\ AnswersOK /\ Working /\ AnswersOK'
    BY <2>2, InsertKept DEF IInv, Live
  <2>4. /\ NamesAre /\ MapIs /\ LeavesAre /\ FinishAre /\ PointsAre /\ AtWork
        /\ RangeIs /\ FirstPass /\ SecondPass
    BY <2>2 DEF Replay, Live
  <2>5. /\ contract \in Contracts /\ idx \in Nat \ {0} /\ idx \in Functions
        /\ IsSeq(txs) /\ IsSeq(txClauses) /\ Called(idx)
    BY <2>2, <2>3 DEF Shape, InStage, Functions, Working
  <2>6. /\ Len(txs) \in Nat \ {0} /\ DOMAIN txs = 1..Len(txs) /\ t = txs[1]
        /\ Len(txs') = Len(txs) - 1 /\ DOMAIN txs' = 1..(Len(txs) - 1)
        /\ \A x \in DOMAIN txs' : x + 1 \in DOMAIN txs /\ txs'[x] = txs[x + 1]
    <3>1. txs \in Seq({txs[x] : x \in DOMAIN txs})
      BY <2>5 DEF IsSeq
    <3> QED
      BY <2>1, <2>2, <3>1
  <2>7. t \in Templates /\ t.max \in Nat
    <3>1. 1 \in DOMAIN txs
      BY <2>6
    <3> QED
      BY <2>3, <2>6, <3>1, Given DEF Working
  <2>8. \A x \in DOMAIN txs : txs[x] = t \/ \E y \in DOMAIN txs' : txs'[y] = txs[x]
    <3> SUFFICES ASSUME NEW x \in DOMAIN txs, x # 1
                 PROVE  \E y \in DOMAIN txs' : txs'[y] = txs[x]
      BY <2>6
    <3>1. x - 1 \in DOMAIN txs' /\ (x - 1) + 1 = x
      BY <2>6
    <3> QED
      BY <2>6, <3>1
  <2>9. Extends /\ \A i : Called(i)' <=> Called(i)
    BY <2>2 DEF Extends, Called
  <2>10. Fn' = Fn /\ Fin' = Fin /\ Fn = idx /\ Fin = 0 /\ Fn \in Int
    BY <2>2, <2>5 DEF Fn, Fin
  <2>11. /\ range'.max = Larger(range.max, t.max) /\ range.max \in Int /\ -1 <= range.max
         /\ range'.max \in Int /\ range.max <= range'.max /\ t.max <= range'.max
    <3>1. range'.max = Larger(range.max, t.max) /\ range.max \in Int /\ -1 <= range.max
      BY <2>2, <2>4 DEF UpdateRange, RangeIs
    <3> QED
      BY <2>7, <3>1 DEF Larger
  <2>12. \A i : List(i)' = List(i)
    BY <2>2 DEF List
  <2>13. \A i, k : /\ Returns(i, k)' <=> Returns(i, k)
                   /\ Place(i, k)' <=> Place(i, k)
                   /\ Suggests(i, k)' <=> Suggests(i, k)
                   /\ Returns(i, k) => List(i)[k].max \in Nat
    <3>1. \A i, k : /\ Place(i, k)' <=> Place(i, k)
                    /\ Suggests(i, k)' <=> Suggests(i, k)
      BY <2>2, <2>9, <2>12 DEF Place, Suggests, Functions
    <3>2. ASSUME NEW i, NEW k, Returns(i, k)
          PROVE  List(i)[k].max \in Nat
      <4>1. List(i) \in TemplateLists /\ k \in DOMAIN List(i)
        BY <2>3, <3>2, PlaceNumbers DEF Returns, Place, Suggests
      <4>2. List(i)[k] \in Templates
        BY <4>1 DEF Templates
      <4> QED
        BY <4>2, Given
    <3> QED
      BY <3>1, <3>2 DEF Returns
  <2>14. RangeIs'
    <3>1. ASSUME NEW k \in DOMAIN List(idx)
          PROVE  (\E y \in DOMAIN txs' : txs'[y] = List(idx)[k]) \/ List(idx)[k].max <= range'.max
      <4>1. CASE InTxs(List(idx)[k])
        <5>1. PICK x \in DOMAIN txs : txs[x] = List(idx)[k]
          BY <4>1 DEF InTxs
        <5> QED
          BY <2>8, <2>11, <5>1
      <4>2. CASE List(idx)[k].max <= range.max
        <5>1. Returns(idx, k)
          BY <2>5, <3>1 DEF Returns, Place, Suggests
        <5>2. PICK m \in Nat : m = List(idx)[k].max
          BY <2>13, <5>1
        <5> QED
          BY <2>11, <4>2, <5>2
      <4> QED
        BY <2>2, <2>4, <4>1, <4>2 DEF RangeIs, Reckoned
    <3>2. Reckoned'
      BY <2>2, <2>12, <3>1 DEF Reckoned, InTxs
    <3>3. ASSUME NEW i, NEW k, Returns(i, k), i < Fn
          PROVE  List(i)[k].max <= range'.max
      <4>1. PICK m \in Nat : m = List(i)[k].max
        BY <2>13, <3>3
      <4>2. m <= range.max
        BY <2>4, <3>3, <4>1 DEF RangeIs
      <4> QED
        BY <2>11, <4>1, <4>2
    <3>4. \A i, k : Returns(i, k)' /\ i < Fn' => List(i)'[k].max <= range'.max
      BY <2>10, <2>12, <2>13, <3>3
    <3>5. <<"ensure">> \in DOMAIN answers' /\ answers'[<<"ensure">>] <= range'.max
      <4>1. <<"ensure">> \in DOMAIN answers /\ answers[<<"ensure">>] <= range.max
        BY <2>2, <2>4 DEF RangeIs
      <4>2. PICK m : m = answers[<<"ensure">>]
        OBVIOUS
      <4>3. m \in Int
        <5>1. m \in Amounts \cup {-1}
          BY <2>3, <4>1, <4>2 DEF AnswersOK
        <5> QED
          BY <5>1, Given
      <4>4. m <= range'.max
        BY <2>11, <4>1, <4>2, <4>3
      <4> QED
        BY <2>2, <4>1, <4>2, <4>4
    <3>6. range'.max \in Int /\ -1 <= range'.max
      BY <2>11
    <3> QED
      BY <3>2, <3>4, <3>5, <3>6 DEF RangeIs
  <2>15. FirstPass'
    <3> SUFFICES ASSUME pass = 1
                 PROVE  /\ effects' = {} /\ Attained(range.max)' /\ SuggestedBy(suggested)'
                        /\ DefaultOnly'
      BY <2>2 DEF FirstPass
    <3>1. effects = {} /\ Attained(range.max) /\ SuggestedBy(suggested) /\ DefaultOnly
      BY <2>2, <2>4 DEF FirstPass
    <3>2. PICK k \in DOMAIN List(idx) : t = List(idx)[k]
      <4>1. 1 \in DOMAIN txs
        BY <2>6
      <4> QED
        BY <2>6, <3>1, <4>1 DEF DefaultOnly
    <3>3. Returns(idx, k) /\ (~IsThen => Suggests(idx, k))
      BY <2>5, <3>2 DEF Returns, Place, Suggests, IsThen, Func
    <3>4. DefaultOnly'
      BY <2>2, <2>6, <2>12, <3>1 DEF DefaultOnly
    <3>5. Attained(range'.max)
      <4>1. CASE range'.max = range.max
        BY <3>1, <4>1
      <4>2. CASE range'.max = t.max
        BY <3>2, <3>3, <4>2 DEF Attained
      <4> QED
        BY <2>11, <4>1, <4>2 DEF Larger
    <3>6. SuggestedBy(suggested')
      <4>1. CASE IsThen
        BY <2>2, <3>1, <4>1
      <4>2. CASE ~IsThen
        <5>1. DOMAIN suggested' = DOMAIN suggested \cup {t.hash}
          BY <2>2, <4>2, OrInserted
        <5> QED
          BY <3>1, <3>2, <3>3, <4>2, <5>1 DEF SuggestedBy
      <4> QED
        BY <4>1, <4>2
    <3>7. PICK m : m = range'.max
      OBVIOUS
    <3>8. PICK S : S = suggested'
      OBVIOUS
    <3>9. Attained(m)' /\ SuggestedBy(S)'
      BY <2>9, <3>5, <3>6, <3>7, <3>8, AttainedStays, SuggestedByStays
    <3> QED
      BY <2>2, <3>1, <3>4, <3>7, <3>8, <3>9
  <2>16. SecondPass' /\ SealedAs'
    <3>1. SecondPass'
      BY <2>2, <2>3, <2>4, <2>5, <2>9, SecondStays
    <3> QED
      BY <2>2, <3>1 DEF SealedAs
  <2>17. IsThen' = IsThen
    BY <2>2 DEF IsThen, Func
  <2>18. CASE ~IsThen
    <3>1. NamesAre' /\ MapIs' /\ LeavesAre' /\ FinishAre' /\ PointsAre'
      BY <2>2, <2>3, <2>4, <2>9, <2>10, <2>18, PartsStay
    <3>2. AtWork'
      BY <2>2, <2>17, <2>18 DEF AtWork
    <3> QED
      BY <2>14, <2>15, <2>16, <3>1, <3>2 DEF Replay
  <2>19. CASE IsThen
    <3>1. PICK M : M = committed
      OBVIOUS
    <3>2. PICK e : e = idx
      OBVIOUS
    <3>3. PICK p : p = Len(txClauses)
      OBVIOUS
    <3>4. PICK K : K = OrInsert(M, t)
      OBVIOUS
    <3>5. PICK c : c = K[t.hash].guards \cup {CTV(t.hash)}
      OBVIOUS
    <3>6. committed' = K /\ txClauses' = Append(txClauses, c)
      BY <2>2, <2>19, <3>1, <3>4, <3>5
    <3>7. /\ e \in Int /\ p \in Nat /\ p + 1 \in Int /\ (p + 1) + 1 \in Int
          /\ DOMAIN txClauses = 1..p
      BY <2>5, <3>2, <3>3, SeqDomain
    <3>8. /\ Len(txClauses') = p + 1 /\ DOMAIN txClauses' = 1..(p + 1)
          /\ txClauses'[p + 1] = c
          /\ \A x \in 1..p : txClauses'[x] = txClauses[x]
      BY <2>5, <3>3, <3>6, <3>7, AppendSeq
    <3>9. /\ Len(List(e)) = p + Len(txs)
          /\ \A x \in DOMAIN txs : txs[x] = List(e)[p + x]
          /\ \A x \in 1..p : txClauses[x] = ClauseAt(M, e, x)
      BY <2>2, <2>4, <2>19, <3>1, <3>2, <3>3, <3>7 DEF AtWork
    <3>10. List(e) \in TemplateLists /\ IsSeq(List(e))
      <4>1. List(e) \in TemplateLists
        BY <2>3, <2>5, <3>2 DEF AnswersOK, Called, List
      <4> QED
        BY <4>1, Given
    <3>11. DOMAIN List(e) = 1..(p + Len(txs))
      BY <3>9, <3>10, SeqDomain
    <3>12. \A x \in 1..(p + 1) : Place(e, x)
      <4>1. contract.funcs[e].kind = "then" /\ Called(e) /\ e \in Functions
        BY <2>5, <2>19, <3>2 DEF IsThen, Func
      <4>2. \A x \in 1..(p + 1) : x \in 1..(p + Len(txs))
        BY <2>6, <3>7
      <4> QED
        BY <3>11, <4>1, <4>2 DEF Place
    <3>13. t = List(e)[p + 1] /\ Place(e, p + 1)
      <4>1. 1 \in DOMAIN txs /\ p + 1 \in 1..(p + 1)
        BY <2>6, <3>7
      <4> QED
        BY <2>6, <3>9, <3>12, <4>1
    <3>14. MapMade(M, e, p + 1)
      BY <2>4, <2>10, <3>1, <3>2, <3>3 DEF MapIs
    <3>15. /\ MapMade(K, e, (p + 1) + 1) /\ t.hash \in DOMAIN K
           /\ \A h \in DOMAIN M : h \in DOMAIN K /\ K[h] = M[h]
      BY <2>3, <2>5, <3>4, <3>7, <3>13, <3>14, MapInsert
    <3>16. \A i, k : Place(i, k) /\ Before(i, k, e, p + 1) =>
             M[List(i)[k].hash] = K[List(i)[k].hash]
      BY <3>14, <3>15 DEF MapMade
    <3>17. MapIs'
      <4>1. MapMade(K, e, (p + 1) + 1)'
        BY <2>3, <2>5, <2>9, <3>7, <3>15, MapStays DEF Place
      <4> QED
        BY <2>10, <3>2, <3>6, <3>8, <4>1 DEF MapIs
    <3>18. PICK n : n = e - 1
      OBVIOUS
    <3>19. n \in Nat /\ n = Fn - 1 /\ \A i \in 1..n : i < e /\ i \in Functions
      BY <2>5, <2>10, <3>2, <3>18, FunctionNumbers
    <3>20. PICK N : N = names
      OBVIOUS
    <3>21. LeavesAre'
      <4>1. PICK L : LeavesMade(N, M, L, n) /\ leaves = L[n]
        BY <2>4, <3>1, <3>19, <3>20 DEF LeavesAre
      <4>2. \A i, k : Place(i, k) /\ i \in 1..n => M[List(i)[k].hash] = K[List(i)[k].hash]
        BY <3>16, <3>19 DEF Before
      <4>3. LeavesMade(N, K, L, n)
        BY <3>19, <4>1, <4>2, LeavesMadeFrom
      <4>4. LeavesMade(N, K, L, n)'
        BY <2>9, <3>19, <4>3, LeavesMadeStay
      <4>5. names' = N /\ committed' = K /\ n = Fn' - 1 /\ leaves' = L[n]
        BY <2>2, <2>10, <3>6, <3>19, <3>20, <4>1
      <4> QED
        BY <4>4, <4>5 DEF LeavesAre
    <3>22. NamesAre' /\ FinishAre'
      <4>1. NamesAre'
        BY <2>2, <2>4 DEF NamesAre, Naming, NameBy
      <4>2. PICK F : FinishMade(F, 0) /\ finishLeaves = F[0]
        BY <2>4, <2>10 DEF FinishAre
      <4>3. FinishMade(F, 0)'
        BY <2>9, <4>2, FinishMadeStays
      <4> QED
        BY <2>2, <2>10, <4>1, <4>2, <4>3 DEF FinishAre
    <3>23. PointsAre'
      <4>1. PointsMade(N, n)' = PointsMade(N, n)
        BY <2>9, <3>19, PointsMadeStay
      <4> QED
        BY <2>2, <2>4, <2>10, <3>19, <3>20, <4>1 DEF PointsAre
    <3>24. AtWork'
      <4>1. Len(List(e)) = Len(txClauses') + Len(txs')
        BY <2>6, <3>7, <3>8, <3>9
      <4>2. ASSUME NEW x \in DOMAIN txs'
            PROVE  txs'[x] = List(e)[Len(txClauses') + x]
        <5>1. p + (x + 1) = (p + 1) + x
          BY <2>6, <3>7
        <5> QED
          BY <2>6, <3>8, <3>9, <5>1
      <4>3. ASSUME NEW x \in DOMAIN txClauses'
            PROVE  txClauses'[x] = ClauseAt(K, e, x)
        <5>1. CASE x = p + 1
          BY <3>5, <3>8, <3>13, <5>1 DEF ClauseAt
        <5>2. CASE x \in 1..p
          <6>1. Place(e, x) /\ Before(e, x, e, p + 1)
            BY <3>7, <3>12, <5>2 DEF Before
          <6> QED
            BY <3>8, <3>9, <3>16, <5>2, <6>1 DEF ClauseAt
        <5> QED
          BY <3>7, <3>8, <5>1, <5>2
      <4>4. \A x : ClauseAt(K, e, x)' = ClauseAt(K, e, x)
        BY <2>12 DEF ClauseAt
      <4> QED
        BY <2>2, <2>12, <3>2, <3>6, <4>1, <4>2, <4>3, <4>4 DEF AtWork
    <3> QED
      BY <2>14, <2>15, <2>16, <3>17, <3>21, <3>22, <3>23, <3>24 DEF Replay
  <2> QED
    BY <2>18, <2>19
<1> QED
  BY <1>1, <1>2

LEMMA DoneReplays ==
    ASSUME IInv, IInv', Replay, pc = "insert", txs = <<>>, NEW new, FunctionDone(new),
           new = Own(names, committed, idx),
           points' = points \cup IF contract.funcs[idx].kind # "then" THEN {PathOf(idx)} ELSE {}
    PROVE  Replay'
<1>1. /\ pc' = "name" /\ idx' = idx + 1 /\ leaves' = leaves \o new /\ txClauses' = <<>>
      /\ UNCHANGED <<contract, effects, pass, previous, answers, usedNames, names, committed,
                     suggested, range, finishLeaves>>
  BY DEF FunctionDone, passVars, nameVars, txVars
<1>2. Shape /\ AnswersOK /\ Working /\ AnswersOK'
  BY <1>1 DEF IInv, Live
<1>3. /\ NamesAre /\ MapIs /\ LeavesAre /\ FinishAre /\ PointsAre /\ AtWork
      /\ RangeIs /\ FirstPass /\ SecondPass
  BY DEF Replay, Live
<1>4. /\ contract \in Contracts /\ idx \in Nat \ {0} /\ idx \in Functions
      /\ IsSeq(txClauses) /\ Called(idx) /\ GuardKnown(idx)
  BY <1>2 DEF Shape, InStage, Functions, Working
<1>5. Extends /\ (\A i : Called(i)' => Called(i)) /\ InStage
  BY <1>1 DEF Extends, Called, InStage
<1>6. \A k : Place(idx, k) => k < Len(txClauses) + 1
  <2> SUFFICES ASSUME NEW k, Place(idx, k) PROVE k < Len(txClauses) + 1
    OBVIOUS
  <2>1. Len(List(idx)) = Len(txClauses) + Len(txs) /\ Len(txs) = 0
    BY <1>3 DEF AtWork, Place, IsThen, Func
  <2>2. IsSeq(List(idx)) /\ k \in DOMAIN List(idx)
    BY <1>2, PlaceNumbers DEF Place
  <2>3. Len(txClauses) \in Nat /\ k \in 1..Len(List(idx))
    BY <1>4, <2>2, SeqDomain
  <2> QED
    BY <2>1, <2>3
<1>7. \A k : Returns(idx, k) => List(idx)[k].max <= range.max
  <2>1. \A t : ~InTxs(t)
    BY DEF InTxs
  <2>2. \A k \in DOMAIN List(idx) : List(idx)[k].max <= range.max
    BY <1>3, <2>1 DEF RangeIs, Reckoned
  <2> QED
    BY <2>2 DEF Returns, Place, Suggests
<1>8. NamesAre' /\ MapIs' /\ LeavesAre' /\ FinishAre' /\ PointsAre'
  BY <1>1, <1>2, <1>3, <1>4, <1>5, <1>6, FunctionOver
<1>9. RangeIs'
  <2>1. Fn = idx /\ Fn' = idx + 1
    BY <1>1 DEF Fn
  <2> QED
    BY <1>1, <1>2, <1>3, <1>4, <1>5, <1>7, <2>1, RangeOver
<1>10. FirstPass'
  BY <1>1, <1>3, <1>5, FirstStays
<1>11. SecondPass'
  BY <1>1, <1>2, <1>3, <1>4, <1>5, SecondStays
<1>12. AtWork' /\ SealedAs'
  BY <1>1 DEF AtWork, SealedAs
<1> QED
  BY <1>8, <1>9, <1>10, <1>11, <1>12 DEF Replay

LEMMA CombineReplays == ASSUME IInv, Replay, CombineTemplates PROVE Replay'
<1>1. pc = "insert" /\ txs = <<>> /\ IsThen /\ IInv'
  BY CombineKept DEF CombineTemplates
<1>2. Shape /\ AnswersOK /\ Working /\ AtWork
  BY <1>1 DEF IInv, Replay, Live
<1>3. /\ Called(idx) /\ guard = GuardOf(idx) /\ IsSeq(txClauses)
      /\ contract.funcs[idx].kind = "then"
  BY <1>1, <1>2 DEF Working, Shape, IsThen, Func
<1>4. guard = GuardBy(names, idx)
  BY <1>3 DEF GuardOf, GuardBy, GuardPlace
<1>5. DOMAIN List(idx) = DOMAIN txClauses
  <2>1. Len(List(idx)) = Len(txClauses) + Len(txs) /\ Len(txs) = 0
    BY <1>1, <1>2 DEF AtWork
  <2>2. IsSeq(List(idx))
    <3>1. List(idx) \in TemplateLists
      BY <1>2, <1>3 DEF AnswersOK, Called, List
    <3> QED
      BY <3>1, Given
  <2>3. Len(txClauses) \in Nat /\ DOMAIN txClauses = 1..Len(txClauses)
        /\ DOMAIN List(idx) = 1..Len(List(idx))
    BY <1>3, <2>2, SeqDomain
  <2> QED
    BY <2>1, <2>3
<1>6. \A x \in DOMAIN txClauses : txClauses[x] = ClauseAt(committed, idx, x)
  BY <1>1, <1>2 DEF AtWork
<1>7. Combined = Own(names, committed, idx)
  BY <1>3, <1>4, <1>5, <1>6 DEF Combined, Own
<1>8. CASE Fail
  BY <1>8, NotLiveReplay DEF Fail
<1>9. CASE nullable /\ txClauses = <<>> /\ FunctionDone(<<>>) /\ UNCHANGED points
  <2>1. PICK new : new = Own(names, committed, idx)
    OBVIOUS
  <2>2. new = <<>>
    <3>1. DOMAIN List(idx) = {}
      BY <1>5, <1>9
    <3> QED
      BY <1>3, <2>1, <3>1 DEF Own
  <2>3. FunctionDone(new)
    BY <1>9, <2>2
  <2> QED
    BY <1>1, <1>3, <1>9, <2>1, <2>3, DoneReplays
<1>10. CASE FunctionDone(Combined) /\ UNCHANGED points
  <2>1. PICK new : new = Combined
    OBVIOUS
  <2>2. new = Own(names, committed, idx) /\ FunctionDone(new)
    BY <1>7, <1>10, <2>1
  <2> QED
    BY <1>1, <1>3, <1>10, <2>2, DoneReplays
<1> QED
  BY <1>8, <1>9, <1>10 DEF CombineTemplates

LEMMA ContinuationReplays == ASSUME IInv, Replay, AddContinuation PROVE Replay'
<1>1. pc = "insert" /\ txs = <<>> /\ ~IsThen /\ IInv'
  BY ContinuationKept DEF AddContinuation
<1>2. Shape /\ Working
  BY <1>1 DEF IInv, Live
<1>3. /\ guard = GuardOf(idx) /\ Len(names) = idx
      /\ contract.funcs[idx].kind # "then"
  BY <1>1, <1>2 DEF Working, Shape, InStage, IsThen, Func
<1>4. guard = GuardBy(names, idx)
  BY <1>3 DEF GuardOf, GuardBy, GuardPlace
<1>5. CASE Fail
  BY <1>5, NotLiveReplay DEF Fail
<1>6. CASE FunctionDone(Flatten(guard))
           /\ points' = points \cup {EffectPath(Func, names[Len(names)])}
  <2>1. PICK new : new = Flatten(guard)
    OBVIOUS
  <2>2. new = Own(names, committed, idx) /\ FunctionDone(new)
    BY <1>3, <1>4, <1>6, <2>1 DEF Own
  <2>3. points' = points \cup {PathOf(idx)}
    BY <1>3, <1>6 DEF PathOf, Func
  <2> QED
    BY <1>1, <1>3, <2>2, <2>3, DoneReplays
<1> QED
  BY <1>5, <1>6 DEF AddContinuation

LEMMA FunctionsDoneReplays == ASSUME IInv, Replay, FunctionsDone PROVE Replay'
<1>1. /\ pc = "name" /\ pc' = "finish" /\ idx' = 1 /\ idx > Len(contract.funcs)
      /\ UNCHANGED <<contract, effects, pass, previous, answers, usedNames, names, txs,
                     txClauses, committed, suggested, range, leaves, finishLeaves, points>>
  BY DEF FunctionsDone, passVars, nameVars, funcVars, guardVars, txVars, outVars
<1>2. Shape /\ AnswersOK /\ AnswersOK'
  BY <1>1, FunctionsDoneKept DEF IInv, Live
<1>3. /\ NamesAre /\ MapIs /\ LeavesAre /\ FinishAre /\ PointsAre
      /\ RangeIs /\ FirstPass /\ SecondPass
  BY <1>1 DEF Replay, Live
<1>4. /\ contract \in Contracts /\ idx \in Nat \ {0} /\ idx = Len(names) + 1
      /\ Len(names) <= Len(contract.funcs) /\ txClauses = <<>> /\ IsSeq(names)
  BY <1>1, <1>2 DEF Shape
<1>5. /\ Len(contract.funcs) \in Nat /\ Len(contract.finishes) \in Nat
      /\ idx = Len(contract.funcs) + 1
  BY <1>1, <1>4, FunctionNumbers, SeqDomain
<1>6. Fn' = Fn /\ Fin' = Fin /\ Fn \in Int /\ Fin = 0
  BY <1>1, <1>5 DEF Fn, Fin
<1>7. Extends /\ \A i : Called(i)' => Called(i)
  BY <1>1 DEF Extends, Called
<1>8. NamesAre' /\ MapIs' /\ LeavesAre' /\ FinishAre' /\ PointsAre'
  BY <1>1, <1>2, <1>3, <1>6, <1>7, PartsStay
<1>9. RangeIs'
  BY <1>1, <1>2, <1>3, <1>4, <1>6, <1>7, RangeStays DEF Reckoned
<1>10. FirstPass' /\ SecondPass'
  BY <1>1, <1>2, <1>3, <1>4, <1>7, FirstStays, SecondStays
<1>11. AtWork' /\ SealedAs'
  BY <1>1, <1>4, <1>5, <1>6 DEF AtWork, SealedAs
<1> QED
  BY <1>8, <1>9, <1>10, <1>11 DEF Replay

LEMMA FinishReplays == ASSUME IInv, Replay, FinishFn PROVE Replay'
<1>1. PICK c \in Clauses :
        /\ GetGuard(contract.finishes[idx], FinishCtx(idx), c)
        /\ finishLeaves' = finishLeaves \o Flatten(c)
        /\ idx' = idx + 1
        /\ UNCHANGED <<passVars, pc, nameVars, funcVars, txVars, leaves, points, compiled>>
  BY DEF FinishFn
<1>2. /\ pc = "finish" /\ pc' = "finish" /\ idx <= Len(contract.finishes) /\ idx' = idx + 1
      /\ UNCHANGED <<contract, effects, pass, previous, usedNames, names, txs, txClauses,
                     committed, suggested, range, leaves, points>>
  BY <1>1 DEF FinishFn, passVars, nameVars, funcVars, txVars
<1>3. Shape /\ AnswersOK /\ AnswersOK'
  BY <1>2, FinishKept DEF IInv, Live
<1>4. /\ NamesAre /\ MapIs /\ LeavesAre /\ FinishAre /\ PointsAre /\ AtWork
      /\ RangeIs /\ FirstPass /\ SecondPass
  BY <1>2 DEF Replay, Live
<1>5. /\ contract \in Contracts /\ idx \in Nat \ {0} /\ txClauses = <<>>
      /\ Len(contract.funcs) \in Nat /\ Len(contract.finishes) \in Nat
  BY <1>2, <1>3, <1>4, FunctionNumbers DEF Shape, AtWork
<1>6. PICK k, at, g : k = idx /\ at = FinishCtx(idx) /\ g = contract.finishes[idx]
  OBVIOUS
<1>7. /\ \A x \in DOMAIN answers : x \in DOMAIN answers' /\ answers'[x] = answers[x]
      /\ DOMAIN answers' = DOMAIN answers \cup {GuardCall(g, at)}
      /\ answers'[GuardCall(g, at)] = c
  <2>1. GetGuard(g, at, c)
    BY <1>1, <1>6
  <2> QED
    BY <1>2, <1>3, <2>1, GuardAnswered
<1>8. Extends /\ \A i : Called(i)' => Called(i)
  <2>1. \A i : Called(i)' <=> Called(i)
    BY <1>7, GuardIsNoCall
  <2> QED
    BY <1>2, <1>7, <2>1 DEF Extends
<1>9. /\ Fn' = Fn /\ Fn = Len(contract.funcs) + 1 /\ Fn \in Int
      /\ Fin = k - 1 /\ Fin' = k /\ k \in Nat \ {0}
  BY <1>2, <1>5, <1>6 DEF Fn, Fin
<1>10. PICK n : n = Fn - 1
  OBVIOUS
<1>11. PICK N : N = names
  OBVIOUS
<1>12. PICK M : M = committed
  OBVIOUS
<1>13. n \in Nat /\ n = Fn' - 1 /\ n + 1 = Fn
  BY <1>5, <1>9, <1>10
<1>14. NamesAre'
  BY <1>2, <1>4 DEF NamesAre, Naming, NameBy
<1>15. MapIs'
  <2>1. MapMade(M, n + 1, 1)
    <3>1. Len(txClauses) + 1 = 1
      BY <1>5
    <3> QED
      BY <1>4, <1>12, <1>13, <3>1 DEF MapIs
  <2>2. MapMade(M, n + 1, 1)'
    <3>1. PICK e \in Int : e = n + 1
      BY <1>13
    <3>2. \A i, l : Place(i, l)' => Called(i)
      BY <1>8 DEF Place
    <3> QED
      BY <1>3, <1>5, <1>8, <2>1, <3>1, <3>2, MapStays
  <2>3. Len(txClauses') + 1 = 1 /\ n + 1 = Fn' /\ committed' = M
    BY <1>2, <1>5, <1>9, <1>12, <1>13
  <2> QED
    BY <2>2, <2>3 DEF MapIs
<1>16. LeavesAre'
  <2>1. PICK L : LeavesMade(N, M, L, n) /\ leaves = L[n]
    BY <1>4, <1>10, <1>11, <1>12 DEF LeavesAre
  <2>2. LeavesMade(N, M, L, n)'
    BY <1>8, <1>13, <2>1, LeavesMadeStay
  <2>3. names' = N /\ committed' = M /\ n = Fn' - 1 /\ leaves' = L[n]
    BY <1>2, <1>11, <1>12, <1>13, <2>1
  <2> QED
    BY <2>2, <2>3 DEF LeavesAre
<1>17. PointsAre'
  <2>1. points = PointsMade(N, n) /\ PointsMade(N, n)' = PointsMade(N, n)
    BY <1>4, <1>8, <1>10, <1>11, <1>13, PointsMadeStay DEF PointsAre
  <2>2. names' = N /\ n = Fn' - 1 /\ points' = points
    BY <1>2, <1>11, <1>13
  <2> QED
    BY <2>1, <2>2 DEF PointsAre
<1>18. FinishAre'
  <2>1. PICK F : FinishMade(F, k - 1) /\ finishLeaves = F[k - 1]
    BY <1>4, <1>9 DEF FinishAre
  <2>2. FinishMade(F, k - 1)'
    <3>1. k - 1 \in Int
      BY <1>9
    <3> QED
      BY <1>8, <2>1, <3>1, FinishMadeStays
  <2>3. PICK own : own = Flatten(c)
    OBVIOUS
  <2> DEFINE G == [j \in 0..k |-> IF j = k THEN F[k - 1] \o own ELSE F[j]]
  <2>4. G[0] = F[0] /\ G[k] = F[k - 1] \o own /\ G[k - 1] = F[k - 1]
    <3>1. 0 \in 0..k /\ k \in 0..k /\ k - 1 \in 0..k /\ k # 0 /\ k - 1 # k
      BY <1>9
    <3> QED
      BY <3>1
  <2>5. ASSUME NEW j \in 1..(k - 1)
        PROVE  G[j] = F[j] /\ G[j - 1] = F[j - 1]
    <3>1. j \in 0..k /\ j - 1 \in 0..k /\ j # k /\ j - 1 # k
      BY <1>9
    <3> QED
      BY <3>1
  <2> HIDE DEF G
  <2>6. (GuardCall(contract.finishes[k], FinishCtx(k)) \in DOMAIN answers)'
        /\ Flatten(GuardAnswer(contract.finishes[k], FinishCtx(k)))' = own
    BY <1>2, <1>6, <1>7, <2>3 DEF GuardCall, GuardAnswer
  <2>7. ASSUME NEW j \in 1..k
        PROVE  /\ (GuardCall(contract.finishes[j], FinishCtx(j)) \in DOMAIN answers)'
               /\ G[j] = G[j - 1] \o Flatten(GuardAnswer(contract.finishes[j], FinishCtx(j)))'
    <3>1. CASE j = k
      <4>1. G[j] = G[j - 1] \o own
        BY <2>4, <3>1
      <4> QED
        BY <2>6, <3>1, <4>1
    <3>2. CASE j \in 1..(k - 1)
      <4>1. /\ (GuardCall(contract.finishes[j], FinishCtx(j)) \in DOMAIN answers)'
            /\ F[j] = F[j - 1] \o Flatten(GuardAnswer(contract.finishes[j], FinishCtx(j)))'
        BY <2>2, <3>2 DEF FinishMade
      <4>2. G[j] = F[j] /\ G[j - 1] = F[j - 1]
        BY <2>5, <3>2
      <4> QED
        BY <4>1, <4>2
    <3>3. j = k \/ j \in 1..(k - 1)
      BY <1>9
    <3> QED
      BY <3>1, <3>2, <3>3, Zenon
  <2>8. G[0] = <<>>
    BY <2>1, <2>4 DEF FinishMade
  <2>9. FinishMade(G, k)'
    BY <2>7, <2>8 DEF FinishMade
  <2>10. finishLeaves' = G[k] /\ Fin' = k
    BY <1>1, <1>9, <2>1, <2>3, <2>4
  <2> QED
    BY <2>9, <2>10 DEF FinishAre
<1>19. RangeIs'
  BY <1>2, <1>3, <1>4, <1>5, <1>8, <1>9, RangeStays DEF Reckoned
<1>20. FirstPass' /\ SecondPass'
  BY <1>2, <1>3, <1>4, <1>5, <1>8, FirstStays, SecondStays
<1>21. AtWork' /\ SealedAs'
  <2>1. k \in 0..Len(contract.finishes)
    BY <1>2, <1>5, <1>6
  <2> QED
    BY <1>2, <1>5, <1>9, <2>1 DEF AtWork, SealedAs
<1> QED
  BY <1>14, <1>15, <1>16, <1>17, <1>18, <1>19, <1>20, <1>21 DEF Replay

LEMMA SealReplays == ASSUME IInv, Replay, Seal PROVE Replay'
<1>1. CASE pc' \in {"failed", "panic"}
  BY <1>1, NotLiveReplay
<1>2. CASE ~(pc' \in {"failed", "panic"})
  <2>1. /\ pc = "finish" /\ pc' = "done" /\ idx > Len(contract.finishes) /\ SealCompiled
        /\ UNCHANGED <<contract, effects, pass, previous, answers, idx, usedNames, names, txs,
                       txClauses, committed, suggested, range, leaves, finishLeaves, points>>
    BY <1>2 DEF Seal, Fail, passVars, nameVars, funcVars, txVars
  <2>2. Shape /\ AnswersOK /\ AnswersOK'
    BY <2>1, SealKept DEF IInv, Live
  <2>3. /\ NamesAre /\ MapIs /\ LeavesAre /\ FinishAre /\ PointsAre /\ AtWork
        /\ RangeIs /\ FirstPass /\ SecondPass
    BY <2>1 DEF Replay, Live
  <2>4. /\ contract \in Contracts /\ idx \in Nat \ {0} /\ txClauses = <<>>
        /\ Len(contract.funcs) \in Nat /\ Len(contract.finishes) \in Nat
        /\ Fin \in 0..Len(contract.finishes)
    BY <2>1, <2>2, <2>3, FunctionNumbers DEF Shape, AtWork
  <2>5. Fn' = Fn /\ Fin' = Fin /\ Fn \in Int /\ Fin = idx - 1
    BY <2>1, <2>4 DEF Fn, Fin
  <2>6. Extends /\ \A i : Called(i)' => Called(i)
    BY <2>1 DEF Extends, Called
  <2>7. NamesAre' /\ MapIs' /\ LeavesAre' /\ FinishAre' /\ PointsAre'
    BY <2>1, <2>2, <2>3, <2>5, <2>6, PartsStay
  <2>8. RangeIs'
    BY <2>1, <2>2, <2>3, <2>4, <2>5, <2>6, RangeStays DEF Reckoned
  <2>9. FirstPass' /\ SecondPass'
    BY <2>1, <2>2, <2>3, <2>4, <2>6, FirstStays, SecondStays
  <2>10. AtWork'
    <3>1. Fin' = Len(contract.finishes)
      BY <2>1, <2>4, <2>5
    <3> QED
      BY <2>1, <2>4, <2>5, <3>1 DEF AtWork
  <2>11. SealedAs'
    <3>1. PickKey = KeyOf(AllLeaves)
      BY DEF PickKey, KeyOf
    <3>2. /\ compiled'.root = Root /\ compiled'.key = PickKey /\ compiled'.leaves = AllLeaves
          /\ compiled'.committed = committed /\ compiled'.suggested = suggested
          /\ compiled'.points = points /\ compiled'.max = range.max
      BY <2>1 DEF SealCompiled
    <3>3. PICK all : all = AllLeaves
      OBVIOUS
    <3>4. KeyOf(all)' = KeyOf(all)
      BY DEF KeyOf, IsBareKey
    <3> QED
      BY <2>1, <3>1, <3>2, <3>3, <3>4 DEF SealedAs, AllLeaves
  <2> QED
    BY <2>7, <2>8, <2>9, <2>10, <2>11 DEF Replay
<1> QED
  BY <1>1, <1>2

LEMMA ResultComes ==
    ASSUME IInv, Replay, pc = "done"
    PROVE  \E N, M, L, F : Comes(compiled, N, M, L, F)
<1>1. Shape
  BY DEF IInv, Live
<1>2. /\ NamesAre /\ MapIs /\ LeavesAre /\ FinishAre /\ PointsAre /\ AtWork /\ SealedAs
  BY DEF Replay, Live
<1>3. PICK n : n = Len(contract.funcs)
  OBVIOUS
<1>4. /\ n \in Nat /\ Len(names) = n /\ txClauses = <<>> /\ Fn = n + 1 /\ Fn - 1 = n
      /\ Fin = Len(contract.finishes)
  BY <1>1, <1>2, <1>3, FunctionNumbers DEF Shape, AtWork, Fn
<1>5. Naming(names, n)
  BY <1>2, <1>4 DEF NamesAre
<1>6. MapMade(committed, n + 1, 1)
  <2>1. Len(txClauses) + 1 = 1
    BY <1>4
  <2> QED
    BY <1>2, <1>4, <2>1 DEF MapIs
<1>7. PICK L : LeavesMade(names, committed, L, n) /\ leaves = L[n]
  BY <1>2, <1>4 DEF LeavesAre
<1>8. PICK F : FinishMade(F, Fin) /\ finishLeaves = F[Fin]
  BY <1>2 DEF FinishAre
<1>9. points = PointsMade(names, n)
  BY <1>2, <1>4 DEF PointsAre
<1>10. Comes(compiled, names, committed, L, F)
  BY <1>2, <1>3, <1>4, <1>5, <1>6, <1>7, <1>8, <1>9 DEF Comes, SealedAs
<1> QED
  BY <1>10

LEMMA RecompileReplays == ASSUME IInv, Replay, Recompile PROVE Replay'
<1>1. /\ pc = "done" /\ pc' = "ensure" /\ pass = 1 /\ pass' = 2 /\ previous' = compiled
      /\ idx' = 1 /\ names' = <<>> /\ usedNames' = {} /\ txs' = <<>> /\ txClauses' = <<>>
      /\ committed' = <<>> /\ suggested' = <<>> /\ leaves' = <<>> /\ finishLeaves' = <<>>
      /\ points' = {} /\ range' = [min |-> -1, max |-> -1]
      /\ contract' = contract /\ answers' = answers
  BY DEF Recompile
<1>2. Shape /\ AnswersOK /\ Outcomes /\ AnswersOK'
  BY <1>1, RecompileKept DEF IInv, Live
<1>3. FirstPass /\ SealedAs
  BY <1>1 DEF Replay, Live
<1>4. contract \in Contracts
  BY <1>2 DEF Shape
<1>5. Extends /\ \A i : Called(i)' <=> Called(i)
  BY <1>1 DEF Extends, Called
<1>6. Fn' = 1 /\ Fin' = 0
  BY <1>1 DEF Fn, Fin
<1>7. NamesAre'
  BY <1>1 DEF NamesAre, Naming
<1>8. MapIs'
  <2>1. ASSUME NEW i, NEW k, Place(i, k)'
        PROVE  ~Before(i, k, 1, 1)
    <3>1. i \in Nat \ {0} /\ k \in Nat \ {0}
      BY <1>2, <1>4, <1>5, <2>1, NumbersAfter DEF Returns
    <3> QED
      BY <3>1 DEF Before
  <2>2. PICK M : M = <<>>
    OBVIOUS
  <2>3. M = [h \in DOMAIN M |-> M[h]] /\ DOMAIN M = {}
    BY <2>2
  <2>4. MapMade(M, 1, 1)'
    BY <2>1, <2>3 DEF MapMade, Before
  <2>5. Len(txClauses') + 1 = 1
    BY <1>1
  <2> QED
    BY <1>1, <1>6, <2>2, <2>4, <2>5 DEF MapIs
<1>9. LeavesAre'
  <2> DEFINE L == [i \in {0} |-> <<>>]
  <2>1. LeavesMade(names, committed, L, Fn - 1)' /\ leaves' = L[Fn' - 1]
    BY <1>1, <1>6 DEF LeavesMade
  <2> QED
    BY <2>1 DEF LeavesAre
<1>10. FinishAre'
  <2> DEFINE F == [i \in {0} |-> <<>>]
  <2>1. FinishMade(F, Fin)' /\ finishLeaves' = F[Fin']
    BY <1>1, <1>6 DEF FinishMade
  <2> QED
    BY <2>1 DEF FinishAre
<1>11. PointsAre'
  BY <1>1, <1>6 DEF PointsAre, PointsMade
<1>12. AtWork' /\ FirstPass' /\ SealedAs'
  BY <1>1 DEF AtWork, FirstPass, SealedAs
<1>13. RangeIs'
  <2>1. \A i, k : Returns(i, k)' => ~(i < Fn')
    BY <1>2, <1>4, <1>5, <1>6, NumbersAfter
  <2> QED
    BY <1>1, <2>1 DEF RangeIs, Reckoned
<1>14. SecondPass'
  <2>1. PICK r : r = compiled
    OBVIOUS
  <2>2. CameTo(r)
    <3>1. \E N, M, L, F : Comes(r, N, M, L, F)
      BY <1>1, <2>1, ResultComes
    <3>2. r.max = range.max /\ r.suggested = suggested
      BY <1>1, <1>3, <2>1 DEF SealedAs
    <3>3. Attained(range.max) /\ SuggestedBy(suggested)
      BY <1>1, <1>3 DEF FirstPass
    <3> QED
      BY <3>1, <3>2, <3>3 DEF CameTo
  <2>3. CameTo(r)'
    BY <1>2, <1>4, <1>5, <2>2, CameToStays
  <2>4. Decided'
    <3>1. Processed = Functions
      BY <1>1 DEF Processed
    <3>2. \A i \in Functions : /\ CondCall(i) \in DOMAIN answers
                               /\ IsKept(Decision(i)) => Called(i)
      BY <1>2, <3>1 DEF Outcomes, Outcome
    <3>3. ASSUME NEW i \in Functions'
          PROVE  (CondCall(i) \in DOMAIN answers)' /\ (IsKept(Decision(i))' => Called(i)')
      <4>1. i \in Functions /\ CondCall(i) \in DOMAIN answers /\ (IsKept(Decision(i)) => Called(i))
        BY <1>1, <3>2 DEF Functions
      <4>2. Decision(i)' = Decision(i) /\ CondCall(i) \in DOMAIN answers'
        BY <1>1, <4>1 DEF Decision
      <4> QED
        BY <1>5, <4>1, <4>2 DEF CondCall, IsKept
    <3> QED
      BY <3>3 DEF Decided
  <2> QED
    BY <1>1, <2>1, <2>3, <2>4 DEF SecondPass
<1> QED
  BY <1>7, <1>8, <1>9, <1>10, <1>11, <1>12, <1>13, <1>14 DEF Replay

LEMMA StutterReplays == ASSUME IInv, Replay, UNCHANGED vars PROVE Replay'
<1>1. UNCHANGED <<contract, effects, pass, previous, answers, pc, idx, usedNames, names, calls,
                  txs, txClauses, committed, suggested, range, leaves, finishLeaves, points,
                  compiled>>
  BY DEF vars, passVars, nameVars, funcVars, txVars, outVars
<1>2. CASE ~Live
  BY <1>1, <1>2 DEF Replay, Live
<1>3. CASE Live
  <2>1. Shape /\ AnswersOK /\ AnswersOK'
    BY <1>1, <1>3, StutterKept DEF IInv, Live
  <2>2. /\ NamesAre /\ MapIs /\ LeavesAre /\ FinishAre /\ PointsAre /\ AtWork
        /\ RangeIs /\ FirstPass /\ SecondPass /\ SealedAs
    BY <1>3 DEF Replay
  <2>3. contract \in Contracts /\ Fn \in Int
    BY <2>1, FnNumbers
  <2>4. Fn' = Fn /\ Fin' = Fin
    BY <1>1 DEF Fn, Fin
  <2>5. Extends /\ \A i : Called(i)' => Called(i)
    BY <1>1 DEF Extends, Called
  <2>6. \A i : List(i)' = List(i)
    BY <1>1 DEF List
  <2>7. NamesAre' /\ MapIs' /\ LeavesAre' /\ FinishAre' /\ PointsAre'
    BY <1>1, <2>1, <2>2, <2>4, <2>5, PartsStay
  <2>8. AtWork'
    <3>1. \A x : ClauseAt(committed, idx, x)' = ClauseAt(committed, idx, x)
      BY <1>1, <2>6 DEF ClauseAt
    <3> QED
      BY <1>1, <2>2, <2>4, <2>6, <3>1 DEF AtWork, IsThen, Func
  <2>9. RangeIs'
    <3>1. CASE pc = "ensure"
      <4>1. \A i, k : Returns(i, k)' => ~(i < Fn')
        <5>1. Fn' = 1
          BY <1>1, <2>1, <3>1 DEF Fn, Shape
        <5> QED
          BY <2>1, <2>3, <2>5, <5>1, NumbersAfter
      <4> QED
        BY <1>1, <2>2, <3>1, <4>1 DEF RangeIs, Reckoned
    <3>2. CASE pc # "ensure"
      <4>1. Reckoned'
        BY <1>1, <2>2, <2>6 DEF RangeIs, Reckoned, InTxs
      <4> QED
        BY <1>1, <2>1, <2>2, <2>3, <2>4, <2>5, <3>2, <4>1, RangeStays
    <3> QED
      BY <3>1, <3>2
  <2>10. FirstPass'
    <3>1. pass = 1 /\ pc' = "insert" => DefaultOnly'
      BY <1>1, <2>2, <2>6 DEF FirstPass, DefaultOnly
    <3> QED
      BY <1>1, <2>2, <2>5, <3>1, FirstStays
  <2>11. SecondPass'
    BY <1>1, <2>1, <2>2, <2>3, <2>5, SecondStays
  <2>12. SealedAs'
    <3>1. PICK all : all = compiled.leaves
      OBVIOUS
    <3>2. KeyOf(all)' = KeyOf(all)
      BY DEF KeyOf, IsBareKey
    <3> QED
      BY <1>1, <2>2, <3>1, <3>2 DEF SealedAs
  <2> QED
    BY <2>7, <2>8, <2>9, <2>10, <2>11, <2>12 DEF Replay
<1> QED
  BY <1>2, <1>3

LEMMA Replays == ASSUME IInv, Replay, [Next]_vars PROVE Replay'
BY EnsureReplays, NameReplays, CompileIfReplays, CreateGuardsReplays, CallReplays,
   InsertReplays, CombineReplays, ContinuationReplays, FunctionsDoneReplays, FinishReplays,
   SealReplays, RecompileReplays, StutterReplays
   DEF Next

LEMMA PointsKept ==
    ASSUME IInv, Replay, pc = "done", pass = 2
    PROVE  /\ compiled.root = previous.root /\ compiled.key = previous.key
           /\ compiled.leaves = previous.leaves /\ compiled.committed = previous.committed
           /\ compiled.points = previous.points
<1>1. AnswersOK /\ contract \in Contracts
  BY DEF IInv, Live, Shape
<1>2. CameTo(previous)
  BY DEF Replay, Live, SecondPass
<1>3. \E N, M, L, F : Comes(compiled, N, M, L, F)
  BY ResultComes
<1>4. \E N, M, L, F : Comes(previous, N, M, L, F)
  BY <1>2 DEF CameTo
<1> QED
  BY <1>1, <1>3, <1>4, ResultUnique

(* EffectsKeepTheContract: compiling again with the effects a user filed    *)
(* under reported continuation points gives the same address, committed    *)
(* transactions and continuation points, loses no suggestion and needs no   *)
(* smaller amount, whatever the contract's functions return (compile in     *)
(* sapio/src/contract/compiler/mod.rs, and the comment of finish.rs).       *)
THEOREM EffectsKept == Spec => []EffectsKeepTheContract
<1>1. IInv /\ Replay /\ [Next]_vars => Replay'
  BY Replays
<1>2. IInv /\ Replay => EffectsKeepTheContract
  <2> SUFFICES ASSUME IInv, Replay, pc = "done", pass = 2
               PROVE  /\ compiled.root = previous.root /\ compiled.key = previous.key
                      /\ compiled.leaves = previous.leaves
                      /\ compiled.committed = previous.committed
                      /\ compiled.points = previous.points
                      /\ DOMAIN previous.suggested \subseteq DOMAIN compiled.suggested
                      /\ previous.max <= compiled.max
    BY DEF EffectsKeepTheContract, Done
  <2>1. AnswersOK /\ contract \in Contracts /\ Outcomes
    BY DEF IInv, Live, Shape
  <2>2. RangeIs /\ CameTo(previous) /\ SealedAs
    BY DEF Replay, Live, SecondPass
  <2>3. compiled.suggested = suggested /\ compiled.max = range.max
    BY <2>2 DEF SealedAs
  <2>4. /\ compiled.root = previous.root /\ compiled.key = previous.key
        /\ compiled.leaves = previous.leaves /\ compiled.committed = previous.committed
        /\ compiled.points = previous.points
    BY PointsKept
  <2>5. ASSUME NEW h \in DOMAIN previous.suggested
        PROVE  h \in DOMAIN suggested
    <3>1. PICK i, k : Suggests(i, k) /\ List(i)[k].hash = h
      BY <2>2 DEF CameTo, SuggestedBy
    <3>2. /\ i \in Functions /\ Called(i) /\ contract.funcs[i].kind # "then"
          /\ k \in DOMAIN List(i)
      BY <3>1 DEF Suggests
    <3>3. \A t \in Returned(i) : t.hash \in DOMAIN suggested
      BY <2>1, <3>2 DEF Outcomes, Outcome, Processed
    <3>4. <<"call", i, "DefaultEffect">> \in Asked(i) \cap DOMAIN answers
      BY <3>2 DEF Asked, Called, Calls, Effect
    <3>5. List(i)[k] \in Returned(i)
      BY <3>2, <3>4 DEF Returned, List
    <3> QED
      BY <3>1, <3>3, <3>5
  <2>6. previous.max <= range.max
    <3>1. Attained(previous.max)
      BY <2>2 DEF CameTo
    <3>2. CASE previous.max = -1
      BY <2>2, <3>2 DEF RangeIs
    <3>3. CASE <<"ensure">> \in DOMAIN answers /\ previous.max = answers[<<"ensure">>]
      BY <2>2, <3>3 DEF RangeIs
    <3>4. CASE \E i, k : Returns(i, k) /\ previous.max = List(i)[k].max
      <4>1. PICK i, k : Returns(i, k) /\ previous.max = List(i)[k].max
        BY <3>4
      <4>2. i \in 1..Len(contract.funcs) /\ Len(contract.funcs) \in Nat
        BY <2>1, <4>1, FunctionNumbers DEF Returns, Place, Suggests
      <4>3. i < Fn
        BY <4>2 DEF Fn
      <4> QED
        BY <2>2, <4>1, <4>3 DEF RangeIs
    <3> QED
      BY <3>1, <3>2, <3>3, <3>4 DEF Attained
  <2> QED
    BY <2>3, <2>4, <2>5, <2>6
<1> QED
  BY InitReplays, Invariant, <1>1, <1>2, PTL DEF Spec
------------------------------------------------------------------------------
(* Effects are filed under points that were reported, none in the first    *)
(* pass; and a function with the web API is called with those filed under  *)
(* its own path only.                                                      *)
EffectsFiled ==
    /\ pass \in {1, 2} /\ (pass = 1 => effects = {})
    /\ pass = 2 => effects \in SUBSET [at : previous.points,
                                      key : {EffectKeys[n] : n \in DOMAIN EffectKeys}]
    /\ \A i, n : n \in DOMAIN EffectKeys /\ CallOf(i, n) \in DOMAIN answers =>
         /\ i \in DOMAIN names /\ contract.funcs[i].kind = "api"
         /\ [at |-> PathOf(i), key |-> EffectKeys[n]] \in effects

LEMMA NoSuchKey ==
    ASSUME NEW n \in DOMAIN EffectKeys
    PROVE  n # 0 /\ Effect(n) = EffectKeys[n] /\ Effect(n) # "DefaultEffect"
<1>1. n \in Nat \ {0} /\ EffectKeys[n] # "DefaultEffect"
  BY Given, ContractAssumption
<1> QED
  BY <1>1 DEF Effect

LEMMA FiledStays ==
    ASSUME EffectsFiled, UNCHANGED <<contract, effects, pass, previous>>,
           \A i \in DOMAIN names : i \in DOMAIN names' /\ names'[i] = names[i],
           \A i, n : n \in DOMAIN EffectKeys /\ CallOf(i, n) \in DOMAIN answers' =>
             CallOf(i, n) \in DOMAIN answers
    PROVE  EffectsFiled'
<1>1. \A i \in DOMAIN names : PathOf(i)' = PathOf(i)
  BY DEF PathOf
<1>2. \A i, n : CallOf(i, n)' = CallOf(i, n)
  BY DEF CallOf
<1> QED
  BY <1>1, <1>2 DEF EffectsFiled

LEMMA InitFiled == Init => EffectsFiled
BY DEF Init, EffectsFiled

LEMMA CallFiled == ASSUME IInv, EffectsFiled, CallFunction PROVE EffectsFiled'
<1>1. /\ pc = "call"
      /\ UNCHANGED <<contract, effects, pass, previous, names>>
  BY DEF CallFunction, passVars, nameVars
<1>2. PICK n \in calls : \E r \in Answers(<<"call", idx, Effect(n)>>, TemplateLists) :
        Remember(<<"call", idx, Effect(n)>>, r)
  BY DEF CallFunction
<1>3. DOMAIN answers' = DOMAIN answers \cup {CallOf(idx, n)}
  BY <1>2 DEF Remember, With, CallOf
<1>4. /\ n \in Calls(contract.funcs[idx], names[idx]) /\ idx \in Nat /\ idx > 0
      /\ Len(names) = idx /\ IsSeq(names)
  BY <1>1, <1>2 DEF IInv, Live, Working, Shape, InStage, Func
<1>5. idx \in DOMAIN names
  BY <1>4, SeqDomain
<1>6. ASSUME n \in DOMAIN EffectKeys
      PROVE  /\ contract.funcs[idx].kind = "api"
             /\ [at |-> PathOf(idx), key |-> EffectKeys[n]] \in effects
  BY <1>4, <1>6, NoSuchKey DEF Calls, EffectsAt, PathOf
<1>7. ASSUME NEW i, NEW m, m \in DOMAIN EffectKeys, CallOf(i, m) \in DOMAIN answers'
      PROVE  /\ i \in DOMAIN names /\ contract.funcs[i].kind = "api"
             /\ [at |-> PathOf(i), key |-> EffectKeys[m]] \in effects
  <2>1. CASE CallOf(i, m) \in DOMAIN answers
    BY <1>7, <2>1 DEF EffectsFiled
  <2>2. CASE CallOf(i, m) = CallOf(idx, n)
    <3>1. i = idx /\ Effect(m) = Effect(n)
      BY <2>2 DEF CallOf
    <3>2. n # 0
      BY <1>7, <3>1, NoSuchKey DEF Effect
    <3>3. n \in DOMAIN EffectKeys
      BY <1>4, <3>2 DEF Calls, EffectsAt
    <3>4. EffectKeys[m] = EffectKeys[n]
      BY <1>7, <3>1, <3>3, NoSuchKey
    <3> QED
      BY <1>5, <1>6, <3>1, <3>3, <3>4
  <2> QED
    BY <1>3, <1>7, <2>1, <2>2
<1>8. \A i, m : CallOf(i, m)' = CallOf(i, m) /\ PathOf(i)' = PathOf(i)
  BY <1>1 DEF CallOf, PathOf
<1> QED
  BY <1>1, <1>7, <1>8 DEF EffectsFiled

LEMMA RecompileFiled == ASSUME EffectsFiled, Recompile PROVE EffectsFiled'
<1>1. /\ pass = 1 /\ pass' = 2 /\ previous' = compiled /\ answers' = answers
      /\ effects' \in SUBSET [at : compiled.points,
                             key : {EffectKeys[i] : i \in DOMAIN EffectKeys}]
  BY DEF Recompile
<1>2. effects = {}
  BY <1>1 DEF EffectsFiled
<1>3. \A i, n : n \in DOMAIN EffectKeys => CallOf(i, n)' \notin DOMAIN answers'
  BY <1>1, <1>2 DEF EffectsFiled, CallOf
<1> QED
  BY <1>1, <1>3 DEF EffectsFiled

LEMMA GuardFiled ==
    ASSUME NEW g, NEW at, NEW c, GetGuard(g, at, c)
    PROVE  \A i, n : CallOf(i, n) \in DOMAIN answers' => CallOf(i, n) \in DOMAIN answers
<1>1. CASE answers' = answers
  BY <1>1
<1>2. CASE answers' # answers
  <2>1. DOMAIN answers' = DOMAIN answers \cup {GuardCall(g, at)}
    BY <1>2 DEF GetGuard, Remember, With, GuardCall
  <2> QED
    BY <2>1 DEF GuardCall, CallOf
<1> QED
  BY <1>1, <1>2

LEMMA Filed == ASSUME IInv, EffectsFiled, [Next]_vars PROVE EffectsFiled'
<1> DEFINE Same == UNCHANGED <<contract, effects, pass, previous, names>>
           NoCall == \A i, n : CallOf(i, n) \in DOMAIN answers' => CallOf(i, n) \in DOMAIN answers
<1>1. Same /\ NoCall => EffectsFiled'
  BY FiledStays
<1>2. CASE EnsureAmount
  <2>1. DOMAIN answers' = DOMAIN answers \cup {<<"ensure">>} /\ Same
    BY <1>2 DEF EnsureAmount, Fail, Remember, With, passVars, nameVars
  <2>2. NoCall
    BY <2>1 DEF CallOf
  <2> QED
    BY <1>1, <2>1, <2>2
<1>3. CASE NameFunction
  <2>1. UNCHANGED <<contract, effects, pass, previous, answers>> /\ pc = "name"
    BY <1>3 DEF NameFunction, passVars
  <2>2. IsSeq(names)
    BY <2>1 DEF IInv, Live, Shape
  <2>3. names' = names \/ \E name : names' = Append(names, name)
    BY <1>3 DEF NameFunction, nameVars
  <2>4. \A i \in DOMAIN names : i \in DOMAIN names' /\ names'[i] = names[i]
    BY <2>2, <2>3, AppendSeq
  <2> QED
    BY <2>1, <2>4, FiledStays
<1>4. CASE CompileIf
  <2>1. DOMAIN answers' = DOMAIN answers \cup {<<"cond", idx>>} /\ Same
    BY <1>4 DEF CompileIf, Fail, Remember, With, passVars, nameVars
  <2>2. NoCall
    BY <2>1 DEF CallOf
  <2> QED
    BY <1>1, <2>1, <2>2
<1>5. CASE CreateGuards
  <2>1. Same /\ (answers' = answers \/ \E g, at, c : GetGuard(g, at, c))
    BY <1>5 DEF CreateGuards, passVars, nameVars
  <2>2. NoCall
    BY <2>1, GuardFiled
  <2> QED
    BY <1>1, <2>1, <2>2
<1>6. CASE FinishFn
  <2>1. Same /\ \E g, at, c : GetGuard(g, at, c)
    BY <1>6 DEF FinishFn, passVars, nameVars
  <2>2. NoCall
    BY <2>1, GuardFiled
  <2> QED
    BY <1>1, <2>1, <2>2
<1>7. CASE InsertTemplate \/ CombineTemplates \/ AddContinuation
  <2>1. Same /\ answers' = answers
    BY <1>7 DEF InsertTemplate, CombineTemplates, AddContinuation, FunctionDone, Fail,
                passVars, nameVars
  <2> QED
    BY <1>1, <2>1
<1>8. CASE FunctionsDone \/ Seal \/ UNCHANGED vars
  <2>1. Same /\ answers' = answers
    BY <1>8 DEF FunctionsDone, Seal, Fail, vars, passVars, nameVars
  <2> QED
    BY <1>1, <2>1
<1> QED
  BY <1>2, <1>3, <1>4, <1>5, <1>6, <1>7, <1>8, CallFiled, RecompileFiled DEF Next

(* EffectsReachTheirPoint: an effect filed under a reported point reaches   *)
(* the function at its path, which the recompilation reports again, and no *)
(* other function; what continuations answer is suggested.                 *)
THEOREM EffectsReach == Spec => []EffectsReachTheirPoint
<1>1. IInv /\ Replay /\ EffectsFiled => EffectsReachTheirPoint
  <2> SUFFICES ASSUME IInv, Replay, EffectsFiled, pc = "done"
               PROVE  EffectsReachTheirPoint
    BY DEF EffectsReachTheirPoint, Done
  <2>1. /\ compiled.points = points /\ compiled.suggested = suggested /\ Outcomes
        /\ points = PointsMade(names, Len(contract.funcs)) /\ contract \in Contracts
    <3>1. PointsAre /\ SealedAs /\ Outcomes /\ Shape
      BY DEF IInv, Replay, Live
    <3>2. Fn - 1 = Len(contract.funcs)
      <4>1. Fn = Len(contract.funcs) + 1 /\ Len(contract.funcs) \in Int
        BY <3>1, FunctionNumbers, FnNumbers DEF Fn, Shape
      <4> QED
        BY <4>1
    <3> QED
      BY <3>1, <3>2 DEF PointsAre, SealedAs, Shape
  <2>2. ASSUME NEW i \in Functions, IsPoint(i), NEW n \in {0} \cup DOMAIN EffectKeys,
               n = 0 \/ (contract.funcs[i].kind = "api"
                          /\ [at |-> PathOf(i), key |-> EffectKeys[n]] \in effects)
        PROVE  /\ CallOf(i, n) \in DOMAIN answers
               /\ \A k \in DOMAIN answers[CallOf(i, n)] :
                    answers[CallOf(i, n)][k].hash \in DOMAIN suggested
    <3>1. /\ Asked(i) \subseteq DOMAIN answers
          /\ \A t \in Returned(i) : t.hash \in DOMAIN suggested
      BY <2>1, <2>2 DEF Outcomes, Outcome, Processed, IsPoint
    <3>2. n \in Calls(contract.funcs[i], names[i])
      BY <2>2 DEF Calls, EffectsAt, PathOf
    <3>3. CallOf(i, n) \in Asked(i)
      BY <2>2, <3>2 DEF Asked, CallOf, IsPoint
    <3>4. \A k \in DOMAIN answers[CallOf(i, n)] : answers[CallOf(i, n)][k] \in Returned(i)
      BY <3>1, <3>3 DEF Returned
    <3> QED
      BY <3>1, <3>3, <3>4
  <2>3. ASSUME NEW e \in effects
        PROVE  \E i \in Functions :
                 /\ IsPoint(i) /\ PathOf(i) = e.at /\ e.at \in compiled.points
                 /\ contract.funcs[i].kind = "api" =>
                      <<"call", i, e.key>> \in DOMAIN answers
    <3>1. pass = 2
      BY DEF EffectsFiled
    <3>2. e \in [at : previous.points, key : {EffectKeys[n] : n \in DOMAIN EffectKeys}]
      BY <3>1 DEF EffectsFiled
    <3>3. e.at \in compiled.points
      BY <3>1, <3>2, PointsKept
    <3>4. PICK i \in {j \in 1..Len(contract.funcs) :
                       Called(j) /\ contract.funcs[j].kind # "then"} :
            e.at = EffectPath(contract.funcs[i], names[i])
      BY <2>1, <3>3 DEF PointsMade
    <3>5. i \in Functions /\ IsPoint(i) /\ PathOf(i) = e.at
      BY <2>1, <3>4, FunctionNumbers DEF IsPoint, PathOf
    <3>6. PICK n \in DOMAIN EffectKeys : e.key = EffectKeys[n]
      BY <3>2
    <3>7. e = [at |-> e.at, key |-> e.key]
      BY <3>2
    <3>8. contract.funcs[i].kind = "api" => CallOf(i, n) \in DOMAIN answers
      BY <2>2, <3>5, <3>6, <3>7
    <3>9. CallOf(i, n) = <<"call", i, e.key>>
      BY <3>6, NoSuchKey DEF CallOf
    <3> QED
      BY <3>3, <3>5, <3>8, <3>9
  <2>4. ASSUME NEW i \in Functions, NEW n \in DOMAIN EffectKeys,
               CallOf(i, n) \in DOMAIN answers
        PROVE  /\ contract.funcs[i].kind = "api"
               /\ [at |-> PathOf(i), key |-> EffectKeys[n]] \in effects
    BY <2>4 DEF EffectsFiled
  <2>5. ASSUME NEW i \in Functions, NEW n \in {0} \cup DOMAIN EffectKeys,
               IsPoint(i), CallOf(i, n) \in DOMAIN answers
        PROVE  \A k \in DOMAIN answers[CallOf(i, n)] :
                 answers[CallOf(i, n)][k].hash \in DOMAIN compiled.suggested
    BY <2>1, <2>2, <2>4, <2>5
  <2> QED
    BY <2>3, <2>4, <2>5 DEF EffectsReachTheirPoint
<1> QED
  BY InitReplays, InitFiled, Invariant, Replays, Filed, <1>1, PTL DEF Spec
==============================================================================
