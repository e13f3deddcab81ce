------------------------- MODULE Calculations_proofs -------------------------
(***************************************************************************)
(* Locks for every size of the integers, psbts for any keys, holders and   *)
(* orders of signing, ordinals for any coins and amounts, and paths, texts *)
(* and configurations: what is computed means what was asked for.          *)
(***************************************************************************)
EXTENDS Calculations, FiniteSetTheorems, WellFoundedInduction, TLAPS

\* Every nonempty set of naturals has a least element.
LEMMA LeastNat ==
    ASSUME NEW T \in SUBSET Nat, T # {}
    PROVE  \E m \in T : \A k \in T : m <= k
<1>1. PICK m \in T : \A k \in T : ~ (<<k, m>> \in OpToRel(<, Nat))
  BY NatLessThanWellFounded, WFMin, Zenon
<1>2. \A k \in T : ~ (k < m)
  BY <1>1 DEF OpToRel
<1>3. QED
  BY <1>2

\* What a holder signs of an input, and what several holders have.
NewSigs(input, h) == TopKeySigs(input, KeysOf[h]) \cup TapleafSigs(input, KeysOf[h])
SigsFrom(input, holders) == UNION {NewSigs(input, h) : h \in holders}

SignedBy(input, holders) ==
    [utxo |-> input.utxo, internal |-> input.internal, origins |-> input.origins,
     needs |-> input.needs, sigs |-> SigsFrom(input, holders)]

\* A psbt holds what those who have signed sign of it, and nothing else.
PsbtSigned ==
    task.kind = "sign" =>
      /\ answer.signed \subseteq Holders
      /\ DOMAIN answer.psbt = DOMAIN task.psbt
      /\ \A i \in DOMAIN task.psbt : answer.psbt[i] = SignedBy(task.psbt[i], answer.signed)
      /\ answer.signed # {} => \A i \in DOMAIN task.psbt : task.psbt[i].utxo

\* A plan, and its payment if there is one.
PlanAnswer(ranges, spec) ==
    LET plan == OutputPlan(ranges, spec)
    IN  IF plan.ok THEN BuildPlan(TotalSats(ranges), plan) ELSE plan

\* An answered task has the answer its action computes, and is one of Tasks.
AnswersComputed ==
    /\ task \in Tasks
    /\ Answered("lock") =>
         answer = [done |-> TRUE, value |-> Converted(task.from, task.n)]
    /\ Answered("swap") => answer = [done |-> TRUE, value |-> Variant(task.locks)]
    /\ Answered("split") =>
         answer = [done |-> TRUE, value |-> ToldToOutputs(task.amounts, task.ranges)]
    /\ Answered("plan") =>
         answer = [done |-> TRUE, value |-> PlanAnswer(task.ranges, task.spec)]
    /\ Answered("sell") =>
         answer = [done |-> TRUE, value |-> Sell(TotalSats(task.ranges), task.ranges,
                                                 task.ord, task.sale)]
    /\ Answered("path") =>
         answer = [done |-> TRUE,
                   value |-> ParsePath(PathText(ReversePathOf(task.fragments)))]
    /\ Answered("text") => answer = [done |-> TRUE, value |-> ParsePath(task.text)]
    /\ Answered("config") => answer = [done |-> TRUE, value |-> Load(task.file)]
    /\ Answered("emulators") =>
         answer = [done |-> TRUE, value |-> GetEmulator(task.n, task.threshold)]

\* A height made from 16 bits is below the bit that makes a sequence a time,
\* and one with the bit set keeps its 16 bits: nodes read both as meant.
LEMMA RelativeRead ==
    ASSUME NEW u \in 0..U16Max
    PROVE  /\ ReadByNodes(ClauseOf(RelHeight(u))) =
                [from |-> "now", unit |-> "height", n |-> u]
           /\ ReadByNodes(ClauseOf(RelTime(u))) =
                [from |-> "now", unit |-> "time", n |-> u]
<1>1. u \in Nat /\ u < TimeFlag /\ TimeFlag \in Nat
  BY TimelockAssumption
<1>2. ~(u >= TimeFlag) /\ u + TimeFlag >= TimeFlag /\ (u + TimeFlag) - TimeFlag = u
  BY <1>1
<1>3. /\ ClauseOf(RelHeight(u)) = [op |-> "Older", n |-> u]
      /\ ClauseOf(RelTime(u)) = [op |-> "Older", n |-> u + TimeFlag]
  BY DEF ClauseOf, RelHeight, RelTime, Lock
<1>4. ReadByNodes([op |-> "Older", n |-> u]) = [from |-> "now", unit |-> "height", n |-> u]
  BY <1>2 DEF ReadByNodes
<1>5. ReadByNodes([op |-> "Older", n |-> u + TimeFlag]) =
        [from |-> "now", unit |-> "time", n |-> u]
  BY <1>2 DEF ReadByNodes
<1>6. QED
  BY <1>3, <1>4, <1>5

\* Absolute locks are times from StartOfTime on, heights below it, and the
\* conversion refuses the other ones.
LEMMA AbsoluteRead ==
    ASSUME NEW u \in Nat
    PROVE  /\ AbsHeight(u) # Refused => ReadByNodes(ClauseOf(AbsHeight(u))) =
                [from |-> "zero", unit |-> "height", n |-> u]
           /\ AbsTime(u) # Refused => ReadByNodes(ClauseOf(AbsTime(u))) =
                [from |-> "zero", unit |-> "time", n |-> u]
<1>1. StartOfTime \in Nat
  BY TimelockAssumption
<1>2. /\ ClauseOf(Lock(FALSE, FALSE, u)) = [op |-> "After", n |-> u]
      /\ ClauseOf(Lock(FALSE, TRUE, u)) = [op |-> "After", n |-> u]
  BY DEF ClauseOf, Lock
<1>3. CASE u < StartOfTime
  <2>1. ~(u >= StartOfTime)
    BY <1>1, <1>3
  <2>2. AbsHeight(u) = Lock(FALSE, FALSE, u) /\ AbsTime(u) = Refused
    BY <1>3 DEF AbsHeight, AbsTime
  <2>3. ReadByNodes([op |-> "After", n |-> u]) =
          [from |-> "zero", unit |-> "height", n |-> u]
    BY <2>1 DEF ReadByNodes
  <2>4. QED
    BY <1>2, <2>2, <2>3
<1>4. CASE ~(u < StartOfTime)
  <2>1. u >= StartOfTime
    BY <1>1, <1>4
  <2>2. AbsTime(u) = Lock(FALSE, TRUE, u) /\ AbsHeight(u) = Refused
    BY <1>4 DEF AbsHeight, AbsTime
  <2>3. ReadByNodes([op |-> "After", n |-> u]) =
          [from |-> "zero", unit |-> "time", n |-> u]
    BY <2>1 DEF ReadByNodes
  <2>4. QED
    BY <1>2, <2>2, <2>3
<1>5. QED
  BY <1>3, <1>4

\* A duration becomes a number of granules that fits 16 bits, or is refused.
LEMMA DurationRead ==
    ASSUME NEW secs \in Nat, RelTimeOf(secs) # Refused
    PROVE  \E units \in 0..U16Max :
             /\ RelTimeOf(secs) = RelTime(units)
             /\ units * Granule <= secs /\ secs < (units + 1) * Granule
<1> DEFINE units == secs \div Granule
<1>1. Granule \in Nat /\ Granule > 0 /\ U16Max \in Nat
  BY TimelockAssumption
<1>2. /\ units \in Nat
      /\ secs = units * Granule + (secs % Granule) /\ secs % Granule \in 0..Granule - 1
  BY <1>1
<1>3. units * Granule \in Nat /\ (units + 1) * Granule = units * Granule + Granule
  BY <1>1, <1>2
<1>4. units * Granule <= secs /\ secs < (units + 1) * Granule
  BY <1>1, <1>2, <1>3
<1>5. units <= U16Max /\ RelTimeOf(secs) = RelTime(units)
  <2>1. RelTimeOf(secs) = IF units > U16Max THEN Refused ELSE RelTime(units)
    BY DEF RelTimeOf
  <2>2. ~(units > U16Max)
    BY <2>1
  <2>3. QED
    BY <1>1, <1>2, <2>1, <2>2
<1>6. QED
  BY <1>1, <1>2, <1>4, <1>5
\* A set of locks of one kind has a latest one, which Latest gives.
LEMMA LatestIsLatest ==
    ASSUME NEW locks \in SUBSET AnyLock, locks # {}
    PROVE  Latest(locks) \in locks /\ \A m \in locks : m.n <= Latest(locks).n
<1>1. U32Max \in Nat /\ \A l \in locks : l.n \in 0..U32Max
  BY TimelockAssumption DEF AnyLock
<1> DEFINE T == {U32Max - l.n : l \in locks}
<1>2. T \in SUBSET Nat /\ T # {}
  BY <1>1
<1>3. PICK least \in T : \A k \in T : least <= k
  BY <1>2, LeastNat
<1>4. PICK l \in locks : least = U32Max - l.n
  BY <1>3
<1>5. \A m \in locks : m.n <= l.n
  <2>1. ASSUME NEW m \in locks PROVE m.n <= l.n
    <3>1. U32Max - l.n <= U32Max - m.n
      BY <1>3, <1>4
    <3>2. QED
      BY <1>1, <3>1
  <2>2. QED
    BY <2>1
<1>6. QED
  BY <1>5 DEF Latest

\* An accepted list is of one kind in each dimension, and each part it has is
\* the latest of the locks listed.
LEMMA VariantAccepts ==
    ASSUME NEW listed \in SUBSET AnyLock, Variant(listed).ok,
           NEW l \in listed
    PROVE  WaitsFor(Variant(listed), l)
<1> DEFINE rel == {k \in listed : k.rel}
           abs == listed \ rel
           part(locks) == IF locks = {} THEN NoLock ELSE Latest(locks)
           accepted == [ok |-> TRUE, relative |-> part(rel), absolute |-> part(abs)]
           refuses == \/ ~(\A k \in rel : ~k.time) /\ ~(\A k \in rel : k.time)
                      \/ ~(\A k \in abs : ~k.time) /\ ~(\A k \in abs : k.time)
                      \/ listed = {}
                      \/ (\A k \in rel : k.time) /\
                           ((\A k \in abs : k.time) \/ (\A k \in rel : ~k.time))
<1>1. Variant(listed) = IF refuses THEN Refused ELSE accepted
  BY Zenon DEF Variant
<1>2. ~refuses /\ Variant(listed) = accepted
  <2>1. ~Refused.ok
    BY DEF Refused
  <2>2. QED
    BY <1>1, <2>1, Zenon
<1>3. \A k \in listed : k.ok = TRUE /\ k.rel \in BOOLEAN /\ k.time \in BOOLEAN /\ k.n \in Nat
  <2>1. \A k \in AnyLock : /\ k.ok = TRUE /\ k.rel \in BOOLEAN /\ k.time \in BOOLEAN
                         /\ k.n \in 0..U32Max
    BY DEF AnyLock
  <2>2. QED
    BY <2>1, TimelockAssumption
<1>4. CASE l.rel
  <2>1. l \in rel /\ rel \in SUBSET AnyLock /\ rel # {}
    BY <1>4
  <2>2. Latest(rel) \in rel /\ l.n <= Latest(rel).n
    BY <2>1, LatestIsLatest
  <2>3. Latest(rel).time = l.time
    BY <1>2, <1>3, <2>1, <2>2
  <2>4. GetRelative(Variant(listed)) = Latest(rel)
    <3>1. Variant(listed).relative = Latest(rel)
      BY <1>2, <2>1
    <3>2. QED
      BY <1>3, <2>2, <3>1 DEF GetRelative
  <2>5. QED
    BY <1>3, <1>4, <2>2, <2>3, <2>4 DEF WaitsFor
<1>5. CASE ~l.rel
  <2>1. l \in abs /\ abs \in SUBSET AnyLock /\ abs # {}
    BY <1>5
  <2>2. Latest(abs) \in abs /\ l.n <= Latest(abs).n
    BY <2>1, LatestIsLatest
  <2>3. Latest(abs).time = l.time
    BY <1>2, <1>3, <2>1, <2>2
  <2>4. GetAbs(Variant(listed)) = Latest(abs)
    <3>1. Variant(listed).absolute = Latest(abs)
      BY <1>2, <2>1
    <3>2. QED
      BY <1>3, <2>2, <3>1 DEF GetAbs
  <2>5. QED
    BY <1>3, <1>5, <2>2, <2>3, <2>4 DEF WaitsFor
<1>6. QED
  BY <1>4, <1>5

LEMMA BelowU16 == \A n \in Nat : n <= U16Max => n \in 0..U16Max
BY TimelockAssumption

\* What MeansAsked says of a lock that is read with the number asked for, and
\* of one that is read in granules.
LEMMA MeansExactly ==
    ASSUME NEW kind, NEW n, kind # "seconds from now"
    PROVE  MeansAsked([from |-> AskedFrom(kind), unit |-> AskedUnit(kind), n |-> n], kind, n)
BY DEF MeansAsked

LEMMA MeansRounded ==
    ASSUME NEW n, NEW units, units * Granule <= n, n < (units + 1) * Granule
    PROVE  MeansAsked([from |-> "now", unit |-> "time", n |-> units],
                      "seconds from now", n)
BY DEF MeansAsked, AskedFrom, AskedUnit

\* A lock task's answer reads as asked, whatever it was made from.
LEMMA ConvertedRead ==
    ASSUME NEW kind, NEW n \in Nat,
           kind \in {"height from now", "units from now"} => n <= U16Max,
           kind \in {"height from now", "units from now", "seconds from now",
                    "height", "time", "seconds"},
           Converted(kind, n) # Refused
    PROVE  MeansAsked(ReadByNodes(ClauseOf(Converted(kind, n))), kind, n)
<1> DEFINE read == ReadByNodes(ClauseOf(Converted(kind, n)))
<1>0. kind \in {"height from now", "units from now"} => n \in 0..U16Max
  BY BelowU16, Zenon
<1>1. CASE kind = "height from now"
  <2>1. Converted(kind, n) = RelHeight(n)
    BY <1>1, Zenon DEF Converted
  <2>2. n \in 0..U16Max
    BY <1>0, <1>1, Zenon
  <2>3. read = [from |-> "now", unit |-> "height", n |-> n]
    BY <2>1, <2>2, RelativeRead, Zenon
  <2>4. AskedFrom(kind) = "now" /\ AskedUnit(kind) = "height" /\ kind # "seconds from now"
    BY <1>1 DEF AskedFrom, AskedUnit
  <2>5. QED
    BY <2>3, <2>4, MeansExactly, Zenon
<1>2. CASE kind = "units from now"
  <2>1. Converted(kind, n) = RelTime(n)
    <3>1. kind # "height from now"
      BY <1>2
    <3>2. QED
      BY <1>2, <3>1, Zenon DEF Converted
  <2>2. n \in 0..U16Max
    BY <1>0, <1>2, Zenon
  <2>3. read = [from |-> "now", unit |-> "time", n |-> n]
    BY <2>1, <2>2, RelativeRead, Zenon
  <2>4. AskedFrom(kind) = "now" /\ AskedUnit(kind) = "time" /\ kind # "seconds from now"
    BY <1>2 DEF AskedFrom, AskedUnit
  <2>5. QED
    BY <2>3, <2>4, MeansExactly, Zenon
<1>3. CASE kind = "seconds from now"
  <2>1. Converted(kind, n) = RelTimeOf(n)
    BY <1>3 DEF Converted
  <2>2. PICK units \in 0..U16Max :
          /\ RelTimeOf(n) = RelTime(units)
          /\ units * Granule <= n /\ n < (units + 1) * Granule
    BY <2>1, DurationRead
  <2>3. read = [from |-> "now", unit |-> "time", n |-> units]
    BY <2>1, <2>2, RelativeRead, Zenon
  <2>4. QED
    BY <1>3, <2>2, <2>3, MeansRounded, Zenon
<1>4. CASE kind = "height"
  <2>1. Converted(kind, n) = AbsHeight(n)
    BY <1>4 DEF Converted
  <2>2. read = [from |-> "zero", unit |-> "height", n |-> n]
    BY <2>1, AbsoluteRead, Zenon
  <2>3. AskedFrom(kind) = "zero" /\ AskedUnit(kind) = "height" /\ kind # "seconds from now"
    BY <1>4 DEF AskedFrom, AskedUnit
  <2>4. QED
    BY <2>2, <2>3, MeansExactly, Zenon
<1>5. CASE kind \in {"time", "seconds"}
  <2>1. Converted(kind, n) = AbsTime(n)
    <3>1. CASE kind = "time"
      BY <3>1 DEF Converted
    <3>2. CASE kind = "seconds"
      <4>1. Converted(kind, n) = AbsTimeOf(n)
        BY <3>2 DEF Converted
      <4>2. QED
        BY <1>0, <4>1, Zenon DEF AbsTimeOf
    <3>3. QED
      BY <1>5, <3>1, <3>2
  <2>2. read = [from |-> "zero", unit |-> "time", n |-> n]
    BY <2>1, AbsoluteRead, Zenon
  <2>3. AskedFrom(kind) = "zero" /\ AskedUnit(kind) = "time" /\ kind # "seconds from now"
    BY <1>5 DEF AskedFrom, AskedUnit
  <2>4. QED
    BY <2>2, <2>3, MeansExactly, Zenon
<1>6. QED
  BY <1>1, <1>2, <1>3, <1>4, <1>5

\* One step answers a task, and an answer never changes.
LEMMA AnswersComputedInductive ==
    AnswersComputed /\ [Next]_vars => AnswersComputed'
<1> SUFFICES ASSUME AnswersComputed, [Next]_vars PROVE AnswersComputed'
  OBVIOUS
<1> USE DEF AnswersComputed, Answered
<1>1. CASE ConvertLock
  BY <1>1 DEF ConvertLock, Is, Answer
<1>2. CASE ValidateSwap
  BY <1>2 DEF ValidateSwap, Is, Answer
<1>3. CASE AllocateOrdinals
  BY <1>3 DEF AllocateOrdinals, Is, Answer
<1>4. CASE PlanOrdinals
  BY <1>4 DEF PlanOrdinals, Is, Answer, PlanAnswer
<1>5. CASE SellOrdinal
  BY <1>5 DEF SellOrdinal, Is, Answer
<1>6. CASE ReadPath
  BY <1>6 DEF ReadPath, Is, Answer
<1>7. CASE ReadText
  BY <1>7 DEF ReadText, Is, Answer
<1>8. CASE LoadConfig
  BY <1>8 DEF LoadConfig, Is, Answer
<1>9. CASE ConnectEmulators
  BY <1>9 DEF ConnectEmulators, Is, Answer
<1>10. CASE \E h \in Holders : Sign(h)
  BY <1>10 DEF Sign
<1>11. CASE UNCHANGED vars
  BY <1>11 DEF vars
<1>12. QED
  BY <1>1, <1>2, <1>3, <1>4, <1>5, <1>6, <1>7, <1>8, <1>9, <1>10, <1>11 DEF Next

\* An answered lock or swap has the properties the lemmas give its answer.
LEMMA ComputedLocksRead == AnswersComputed => LocksReadAsAsked
<1> SUFFICES ASSUME AnswersComputed PROVE LocksReadAsAsked
  OBVIOUS
<1>1. LockReadAsAsked
  <2> SUFFICES ASSUME Answered("lock"), answer.value.ok PROVE LockReadAsAsked
    BY DEF LockReadAsAsked
  <2>1. answer.value = Converted(task.from, task.n) /\ task \in Tasks
    BY DEF AnswersComputed
  <2>2. task.kind = "lock"
    BY DEF Answered
  <2>3. /\ task.n \in Nat
        /\ task.from \in {"height from now", "units from now"} => task.n <= U16Max
        /\ task.from \in {"height from now", "units from now", "seconds from now",
                          "height", "time", "seconds"}
    BY <2>1, <2>2, TaskAssumption, Zenon
  <2>4. answer.value # Refused
    BY DEF Refused
  <2>5. QED
    BY <2>1, <2>3, <2>4, ConvertedRead, Zenon DEF LockReadAsAsked
<1>2. SwapWaitsForAll
  <2> SUFFICES ASSUME Answered("swap"), answer.value.ok, NEW l \in task.locks
               PROVE  WaitsFor(answer.value, l)
    BY Zenon DEF SwapWaitsForAll
  <2>1. answer.value = Variant(task.locks) /\ task \in Tasks
    BY DEF AnswersComputed
  <2>2. task.kind = "swap"
    BY DEF Answered
  <2>3. task.locks \in SUBSET AnyLock
    BY <2>1, <2>2, TaskAssumption
  <2>4. QED
    BY <2>1, <2>3, VariantAccepts, Zenon
<1>3. QED
  BY <1>1, <1>2 DEF LocksReadAsAsked

\* Before the first answer there is nothing to say of answers.
LEMMA InitComputed == Init => AnswersComputed
<1> SUFFICES ASSUME Init PROVE AnswersComputed
  OBVIOUS
<1>1. task \in Tasks
  BY DEF Init
<1>2. task.kind # "sign" => answer = Unanswered
  BY DEF Init
<1>3. QED
  BY <1>1, <1>2 DEF AnswersComputed, Answered

(***************************************************************************)
(* Whatever the sizes of the integers: nodes read every converted lock as  *)
(* what was asked for, a duration less than a granule short, and the locks *)
(* of an accepted swap outcome wait for each of the locks listed.          *)
(***************************************************************************)
THEOREM LocksReadAsAskedHolds == Spec => []LocksReadAsAsked
BY InitComputed, AnswersComputedInductive, ComputedLocksRead, PTL DEF Spec

\* What a holder signs depends on the keys and origins of the input alone, and
\* every signature is for the first input.
LEMMA SignsTheSame ==
    ASSUME NEW input, NEW holders, NEW h
    PROVE  /\ NewSigs(SignedBy(input, holders), h) = NewSigs(input, h)
           /\ \A s \in NewSigs(input, h) : s = GetSig(s.key, s.leaf) /\ s.input = 1
<1>1. /\ TopKeySigs(SignedBy(input, holders), KeysOf[h]) = TopKeySigs(input, KeysOf[h])
      /\ TapleafSigs(SignedBy(input, holders), KeysOf[h]) = TapleafSigs(input, KeysOf[h])
  BY DEF SignedBy, TopKeySigs, TapleafSigs, FindInternal, Matches
<1>2. \A key, leaf : /\ GetSig(key, leaf) = GetSig(GetSig(key, leaf).key, GetSig(key, leaf).leaf)
                     /\ GetSig(key, leaf).input = 1
  BY DEF GetSig
<1>3. \A s \in TopKeySigs(input, KeysOf[h]) : s = GetSig(input.internal, KeyPath)
  BY DEF TopKeySigs
<1>4. \A s \in TapleafSigs(input, KeysOf[h]) : \E public, leaf : s = GetSig(public, leaf)
  BY DEF TapleafSigs
<1>5. QED
  BY <1>1, <1>2, <1>3, <1>4 DEF NewSigs

\* Another holder's signatures are added to those there are, in place of none
\* but equal ones.
LEMMA SignAdds ==
    ASSUME NEW input, NEW holders, NEW h
    PROVE  SignInput(SignedBy(input, holders), KeysOf[h]) = SignedBy(input, holders \cup {h})
<1> DEFINE old == SignedBy(input, holders)
           new == NewSigs(old, h)
           replaced == {s \in old.sigs : \E t \in new : s.key = t.key /\ s.leaf = t.leaf}
<1>1. new = NewSigs(input, h) /\ old.sigs = SigsFrom(input, holders)
  BY SignsTheSame DEF SignedBy
<1>2. \A s \in old.sigs : s = GetSig(s.key, s.leaf)
  BY <1>1, SignsTheSame DEF SigsFrom
<1>3. \A s \in new : s = GetSig(s.key, s.leaf)
  BY <1>1, SignsTheSame
<1>4. replaced \subseteq new
  BY <1>2, <1>3
<1>5. (old.sigs \ replaced) \cup new = SigsFrom(input, holders \cup {h})
  <2>1. SigsFrom(input, holders \cup {h}) = SigsFrom(input, holders) \cup NewSigs(input, h)
    BY DEF SigsFrom
  <2>2. QED
    BY <2>1, <1>1, <1>4
<1>6. SignInput(old, KeysOf[h]) = [old EXCEPT !.sigs = (@ \ replaced) \cup new]
  BY DEF SignInput, NewSigs
<1>7. QED
  BY <1>5, <1>6 DEF SignedBy

\* Signing changes nothing of an input but its signatures.
LEMMA SignedByFields ==
    ASSUME NEW input, NEW holders
    PROVE  /\ SignedBy(input, holders).utxo = input.utxo
           /\ SignedBy(input, holders).internal = input.internal
           /\ SignedBy(input, holders).needs = input.needs
           /\ SignedBy(input, holders).sigs = SigsFrom(input, holders)
BY DEF SignedBy

\* Signing goes on as it began, whoever signs next and however often.
LEMMA PsbtSignedInductive ==
    AnswersComputed /\ PsbtSigned /\ [Next]_vars => PsbtSigned'
<1> SUFFICES ASSUME AnswersComputed, PsbtSigned, [Next]_vars PROVE PsbtSigned'
  OBVIOUS
<1>1. UNCHANGED task
  BY DEF Next, vars, ConvertLock, ValidateSwap, AllocateOrdinals, PlanOrdinals,
         SellOrdinal, ReadPath, ReadText, LoadConfig, ConnectEmulators, Answer, Sign
<1>2. CASE task.kind # "sign"
  BY <1>1, <1>2 DEF PsbtSigned
<1>3. CASE UNCHANGED vars
  BY <1>3 DEF vars, PsbtSigned
<1>4. CASE task.kind = "sign" /\ Next
  <2>1. PICK h \in Holders : Sign(h)
    BY <1>4 DEF Next, ConvertLock, ValidateSwap, AllocateOrdinals, PlanOrdinals,
                SellOrdinal, ReadPath, ReadText, LoadConfig, ConnectEmulators, Is
  <2>2. /\ SignPsbt(answer.psbt, KeysOf[h]).ok
        /\ answer' = [psbt |-> SignPsbt(answer.psbt, KeysOf[h]).psbt,
                      signed |-> answer.signed \cup {h}]
    BY <2>1 DEF Sign
  <2>3. /\ \A i \in DOMAIN answer.psbt : answer.psbt[i].utxo
        /\ SignPsbt(answer.psbt, KeysOf[h]).psbt =
             [i \in DOMAIN answer.psbt |-> SignInput(answer.psbt[i], KeysOf[h])]
    BY <2>2 DEF SignPsbt
  <2>4. /\ answer.signed \subseteq Holders
        /\ DOMAIN answer.psbt = DOMAIN task.psbt
        /\ \A i \in DOMAIN task.psbt : answer.psbt[i] = SignedBy(task.psbt[i], answer.signed)
    BY <1>4 DEF PsbtSigned
  <2>5. /\ answer'.signed = answer.signed \cup {h}
        /\ DOMAIN answer'.psbt = DOMAIN task.psbt
        /\ \A i \in DOMAIN task.psbt : answer'.psbt[i] = SignInput(answer.psbt[i], KeysOf[h])
    BY <2>2, <2>3, <2>4
  <2>6. ASSUME NEW i \in DOMAIN task.psbt
        PROVE  answer'.psbt[i] = SignedBy(task.psbt[i], answer'.signed)
    <3>1. SignInput(SignedBy(task.psbt[i], answer.signed), KeysOf[h]) =
            SignedBy(task.psbt[i], answer.signed \cup {h})
      BY SignAdds
    <3>2. QED
      BY <3>1, <2>4, <2>5
  <2>7. \A i \in DOMAIN task.psbt : task.psbt[i].utxo
    <3>1. \A i \in DOMAIN task.psbt : answer.psbt[i].utxo = task.psbt[i].utxo
      BY <2>4, SignedByFields
    <3>2. QED
      BY <3>1, <2>3, <2>4
  <2>8. QED
    BY <1>1, <2>4, <2>5, <2>6, <2>7 DEF PsbtSigned
<1>5. QED
  BY <1>2, <1>3, <1>4

\* A psbt nobody has signed holds nobody's signatures.
LEMMA InitSigned == Init => PsbtSigned
<1> SUFFICES ASSUME Init, task.kind = "sign" PROVE PsbtSigned
  BY DEF PsbtSigned
<1>1. task \in Tasks /\ answer = [psbt |-> task.psbt, signed |-> {}]
  BY DEF Init
<1>2. ASSUME NEW i \in DOMAIN task.psbt PROVE task.psbt[i] = SignedBy(task.psbt[i], {})
  <2>1. ToBeSigned(task.psbt[i])
    BY <1>1, <1>2, SigningAssumption, Zenon
  <2>2. SigsFrom(task.psbt[i], {}) = {}
    BY DEF SigsFrom
  <2>3. QED
    BY <2>1, <2>2, Zenon DEF ToBeSigned, SignedBy
<1>3. QED
  BY <1>1, <1>2 DEF PsbtSigned

\* What several can sign for is what each of them can.
LEMMA PublicOfEach ==
    ASSUME NEW holders, NEW key
    PROVE  key \in PublicOf(holders) <=> \E h \in holders : key \in PublicOf({h})
<1>1. \A hs : key \in PublicOf(hs) <=>
        \E h \in hs : \E i \in DOMAIN KeysOf[h] : key \in PublicKeys(KeysOf[h][i])
  BY DEF PublicOf
<1>2. QED
  BY <1>1

\* A holder signs exactly for public keys of theirs: for the internal key, and
\* for every key a leaf needs.
LEMMA HolderSigns ==
    ASSUME NEW h \in Holders, NEW input, ToBeSigned(input)
    PROVE  /\ \A s \in NewSigs(input, h) : s.key \in PublicOf({h})
           /\ input.internal \in PublicOf({h}) =>
                GetSig(input.internal, KeyPath) \in NewSigs(input, h)
           /\ \A leaf \in DOMAIN input.needs :
                \A key \in input.needs[leaf] \cap PublicOf({h}) :
                  GetSig(key, leaf) \in NewSigs(input, h)
<1> DEFINE keys == KeysOf[h]
<1>1. \A i \in DOMAIN keys :
        /\ keys[i].own \in PublicOf({h})
        /\ \A p \in DOMAIN keys[i].child : keys[i].child[p] \in PublicOf({h})
  <2>1. \A i \in DOMAIN keys : PublicKeys(keys[i]) \subseteq PublicOf({h})
    BY DEF PublicOf
  <2>2. \A key : key.own \in PublicKeys(key) /\
                 \A p \in DOMAIN key.child : key.child[p] \in PublicKeys(key)
    BY DEF PublicKeys
  <2>3. QED
    BY <2>1, <2>2
<1>2. ASSUME NEW s \in NewSigs(input, h) PROVE s.key \in PublicOf({h})
  <2>1. CASE s \in TopKeySigs(input, keys)
    <3>1. s.key = input.internal /\ FindInternal(input, keys)
      BY <2>1 DEF TopKeySigs, GetSig
    <3>2. QED
      BY <3>1, <1>1 DEF FindInternal, WithPrint, Derives
  <2>2. CASE s \in TapleafSigs(input, keys)
    <3>1. PICK public \in DOMAIN input.origins :
            Matches(input, keys, public) /\ s.key = public
      BY <2>2 DEF TapleafSigs, GetSig
    <3>2. QED
      BY <3>1, <1>1 DEF Matches, WithPrint, Derives
  <2>3. QED
    BY <2>1, <2>2 DEF NewSigs
<1>3. ASSUME input.internal \in PublicOf({h})
      PROVE  GetSig(input.internal, KeyPath) \in NewSigs(input, h)
  <2>1. input.internal # NoKey
    BY <1>3, PublicOfEach, SigningAssumption
  <2>2. \/ OriginTold(input, input.internal, h)
        \/ \E i \in DOMAIN keys : keys[i].own = input.internal
    BY <1>3, Zenon DEF ToBeSigned
  <2>3. FindInternal(input, keys)
    BY <2>2 DEF OriginTold, FindInternal
  <2>4. QED
    BY <2>1, <2>3 DEF NewSigs, TopKeySigs
<1>4. ASSUME NEW leaf \in DOMAIN input.needs,
             NEW key \in input.needs[leaf] \cap PublicOf({h})
      PROVE  GetSig(key, leaf) \in NewSigs(input, h)
  <2>1. OriginTold(input, key, h) /\ leaf \in input.origins[key].leaves
    BY <1>4, Zenon DEF ToBeSigned
  <2> DEFINE from == input.origins[key]
             derive == {i \in WithPrint(keys, from.print) : Derives(keys[i], from.path)}
  <2>2. key \in DOMAIN input.origins
    BY <2>1 DEF OriginTold
  <2>3. PICK i \in derive : keys[i].child[from.path] = key
    BY <2>1 DEF OriginTold
  <2>4. derive \subseteq Nat
    BY SigningAssumption DEF WithPrint
  <2>5. PICK first \in derive : \A j \in derive : first <= j
    <3> HIDE DEF derive
    <3> QED
      BY <2>3, <2>4, LeastNat
  <2>6. keys[first] = keys[i]
    BY <2>3, <2>5, SigningAssumption DEF WithPrint
  <2>7. Matches(input, keys, key)
    BY <2>3, <2>5, <2>6 DEF Matches
  <2>8. QED
    BY <2>1, <2>2, <2>7 DEF NewSigs, TapleafSigs
<1>5. QED
  BY <1>2, <1>3, <1>4
\* What is signed of an input is good for the first input only, and is made
\* by the holders of the keys.
LEMMA SatisfiedByTheirKeys ==
    ASSUME NEW input, ToBeSigned(input), NEW holders \in SUBSET Holders,
           NEW psbt, NEW i \in DOMAIN psbt, psbt[i] = SignedBy(input, holders)
    PROVE  Satisfied(psbt, i) <=>
             Covered(input, IF i = 1 THEN PublicOf(holders) ELSE {})
<1> DEFINE good == {s \in psbt[i].sigs : s.input = i}
           signed(leaf) == {s.key : s \in {t \in good : t.leaf = leaf}}
           keys == IF i = 1 THEN PublicOf(holders) ELSE {}
<1>1. /\ psbt[i].sigs = SigsFrom(input, holders)
      /\ psbt[i].internal = input.internal /\ psbt[i].needs = input.needs
  BY SignedByFields
<1>2. Satisfied(psbt, i) <=>
        \/ input.internal # NoKey /\ input.internal \in signed(KeyPath)
        \/ \E leaf \in DOMAIN input.needs : input.needs[leaf] \subseteq signed(leaf)
  BY <1>1 DEF Satisfied
<1>3. ASSUME NEW leaf, NEW s \in good, s.leaf = leaf PROVE s.key \in keys
  <2>1. PICK h \in holders : s \in NewSigs(input, h)
    BY <1>1 DEF SigsFrom
  <2>2. s.input = 1 /\ s.key \in PublicOf({h})
    BY <2>1, SignsTheSame, HolderSigns
  <2>3. i = 1
    BY <2>2
  <2>4. QED
    BY <2>2, <2>3, PublicOfEach
<1>4. \A leaf : signed(leaf) \subseteq keys
  BY <1>3
<1>5. ASSUME NEW h \in holders, NEW key, NEW leaf,
             GetSig(key, leaf) \in NewSigs(input, h), i = 1
      PROVE  key \in signed(leaf)
  <2>1. GetSig(key, leaf) \in good
    BY <1>1, <1>5 DEF SigsFrom, GetSig
  <2>2. GetSig(key, leaf).key = key /\ GetSig(key, leaf).leaf = leaf
    BY DEF GetSig
  <2>3. QED
    BY <2>1, <2>2
<1>6. input.internal \in keys =>
        input.internal # NoKey /\ input.internal \in signed(KeyPath)
  <2>1. SUFFICES ASSUME input.internal \in keys
                 PROVE  input.internal # NoKey /\ input.internal \in signed(KeyPath)
    OBVIOUS
  <2>2. i = 1 /\ input.internal \in PublicOf(holders)
    BY <2>1
  <2>3. PICK h \in holders : input.internal \in PublicOf({h})
    BY <2>2, PublicOfEach
  <2>4. GetSig(input.internal, KeyPath) \in NewSigs(input, h)
    BY <2>3, HolderSigns
  <2>5. input.internal # NoKey
    BY <2>3, PublicOfEach, SigningAssumption
  <2>6. QED
    BY <2>2, <2>4, <2>5, <1>5
<1>7. ASSUME NEW leaf \in DOMAIN input.needs
      PROVE  input.needs[leaf] \cap keys \subseteq signed(leaf)
  <2>1. SUFFICES ASSUME NEW key \in input.needs[leaf], key \in keys
                 PROVE  key \in signed(leaf)
    OBVIOUS
  <2>2. i = 1 /\ key \in PublicOf(holders)
    BY <2>1
  <2>3. PICK h \in holders : key \in PublicOf({h})
    BY <2>2, PublicOfEach
  <2>4. GetSig(key, leaf) \in NewSigs(input, h)
    BY <2>1, <2>3, HolderSigns
  <2>5. QED
    BY <2>2, <2>4, <1>5
<1> HIDE DEF signed, keys, good
<1>8. Covered(input, keys) <=>
        \/ input.internal \in keys
        \/ \E leaf \in DOMAIN input.needs : input.needs[leaf] \subseteq keys
  BY DEF Covered
<1>9. Satisfied(psbt, i) <=> Covered(input, keys)
  BY <1>2, <1>4, <1>6, <1>7, <1>8
<1>10. QED
  BY <1>9 DEF keys

\* A signed psbt finalizes when, and only when, the keys its first input needs
\* are there and the others need none.
LEMMA SignedFinalizes ==
    AnswersComputed /\ PsbtSigned => FinalizesWithTheirKeys
<1> SUFFICES ASSUME AnswersComputed, PsbtSigned, task.kind = "sign"
             PROVE  FinalizesWithTheirKeys
  BY DEF FinalizesWithTheirKeys
<1> DEFINE keysFor(i) == IF i = 1 THEN PublicOf(answer.signed) ELSE {}
<1>1. /\ answer.signed \in SUBSET Holders
      /\ DOMAIN answer.psbt = DOMAIN task.psbt
      /\ \A i \in DOMAIN task.psbt : answer.psbt[i] = SignedBy(task.psbt[i], answer.signed)
  BY DEF PsbtSigned
<1>2. \A i \in DOMAIN task.psbt : ToBeSigned(task.psbt[i])
  BY SigningAssumption, Zenon DEF AnswersComputed
<1>3. ASSUME NEW i \in DOMAIN task.psbt
      PROVE  /\ Satisfied(answer.psbt, i) <=> Covered(task.psbt[i], keysFor(i))
             /\ answer.psbt[i].utxo = task.psbt[i].utxo
  BY <1>1, <1>2, SatisfiedByTheirKeys, SignedByFields
<1> HIDE DEF keysFor
<1>4. FinalizePsbt(answer.psbt).completed <=>
        \A i \in DOMAIN task.psbt : task.psbt[i].utxo /\ Covered(task.psbt[i], keysFor(i))
  BY <1>1, <1>3 DEF FinalizePsbt
<1> DEFINE keys == PublicOf(answer.signed)
<1>5. \A i \in DOMAIN task.psbt :
        /\ Covered(task.psbt[i], keysFor(i)) => Covered(task.psbt[i], keys)
        /\ i = 1 => keysFor(i) = keys
        /\ i # 1 => keysFor(i) = {}
  BY DEF Covered, keysFor
<1> HIDE DEF keys
<1>6. FinalizePsbt(answer.psbt).completed => AllCovered(task.psbt, keys)
  BY <1>4, <1>5 DEF AllCovered
<1>7. AllCovered(task.psbt, keys) /\ OnlyFirstNeedsKeys(task.psbt) =>
        FinalizePsbt(answer.psbt).completed
  BY <1>4, <1>5 DEF AllCovered, OnlyFirstNeedsKeys
<1>8. QED
  BY <1>6, <1>7 DEF FinalizesWithTheirKeys, keys

(***************************************************************************)
(* Holders of any keys sign any psbt that tells the origins of its keys,   *)
(* in any order and as often as they like: it finalizes only if those who  *)
(* have signed hold what its inputs need, and as soon as they do when no   *)
(* input but the first needs a key (sign_psbt_mut, get_sig, finalize).     *)
(* Oracles that connect can meet their threshold.                          *)
(***************************************************************************)
THEOREM SigningCompletesHolds == Spec => []SigningCompletes
<1>1. AnswersComputed => OraclesMeetThreshold
  <2> SUFFICES ASSUME AnswersComputed, Answered("emulators"), answer.value.ok
               PROVE  answer.value.needs <= task.n
    BY DEF OraclesMeetThreshold
  <2>1. answer.value = GetEmulator(task.n, task.threshold)
    BY DEF AnswersComputed
  <2>2. task.n \in Nat /\ task.threshold \in Nat
    <3>1. task \in Tasks /\ task.kind = "emulators"
      BY DEF AnswersComputed, Answered
    <3>2. QED
      BY <3>1, TaskAssumption
  <2>3. \A n, threshold \in Nat : GetEmulator(n, threshold).ok =>
          \/ n = 1 /\ GetEmulator(n, threshold).needs = 1
          \/ ~ (n < threshold) /\ GetEmulator(n, threshold).needs = threshold
    BY DEF GetEmulator
  <2> DEFINE n == task.n
             threshold == task.threshold
  <2>4. \/ n = 1 /\ answer.value.needs = 1
        \/ ~ (n < threshold) /\ answer.value.needs = threshold
    BY <2>1, <2>2, <2>3
  <2>5. QED
    BY <2>2, <2>4
<1>2. AnswersComputed /\ PsbtSigned => SigningCompletes
  BY <1>1, SignedFinalizes DEF SigningCompletes
<1>3. QED
  BY <1>2, InitComputed, InitSigned, AnswersComputedInductive, PsbtSignedInductive, PTL
     DEF Spec
-----------------------------------------------------------------------------
(* Folds.  FoldLeft takes a set of places apart at its last one; with steps *)
(* that stay within a set of states there is a table of what it computes.   *)

\* A set of places has a last one, and the last of the first n is n.
LEMMA LastPlace ==
    ASSUME NEW n \in Nat, NEW s \in SUBSET (1..n), s # {}
    PROVE  /\ Max(s) \in s /\ \A x \in s : x <= Max(s)
           /\ s = 1..n => Max(s) = n
<1> DEFINE back == {n - x : x \in s}
<1>0. \A x \in s : x \in Int /\ 1 <= x /\ x <= n
  OBVIOUS
<1>1. back \in SUBSET Nat /\ back # {}
  <2>1. \A x \in s : n - x \in Nat
    BY <1>0
  <2>2. QED
    BY <2>1
<1>2. PICK m \in back : \A k \in back : m <= k
  <2> HIDE DEF back
  <2> QED
    BY <1>1, LeastNat
<1>3. PICK x \in s : m = n - x
  BY <1>2
<1>4. ASSUME NEW y \in s PROVE x >= y
  <2>1. n - y \in back
    OBVIOUS
  <2>2. m <= n - y
    BY <2>1, <1>2
  <2> HIDE DEF back
  <2>3. QED
    BY <2>2, <1>0, <1>3
<1>5. Max(s) \in s /\ \A y \in s : Max(s) >= y
  BY <1>4 DEF Max
<1>6. s = 1..n => n \in s
  BY <1>0, <1>3
<1> HIDE DEF back
<1>7. QED
  BY <1>0, <1>5, <1>6

\* The table of a fold whose step is op, over the first n elements of seq.
IsFoldTable(t, op, base, seq, n) ==
    t = [s \in SUBSET (1..n) |->
           IF s = {} THEN base ELSE op[<<t[s \ {Max(s)}], seq[Max(s)]>>]]

\* A fold over a sequence, and that it has a table, as one fact each.
Folds(D, E, op, base, seq, n) ==
    /\ base \in D /\ n \in Nat /\ seq \in [1..n -> E] /\ op \in [D \X E -> D]
HasTable(D, op, base, seq, n) ==
    \E t \in [SUBSET (1..n) -> D] : IsFoldTable(t, op, base, seq, n)

LEMMA FoldHasTable ==
    ASSUME NEW D, NEW E, NEW op, NEW base, NEW seq, NEW n, Folds(D, E, op, base, seq, n)
    PROVE  HasTable(D, op, base, seq, n)
<1>0. base \in D /\ n \in Nat /\ seq \in [1..n -> E] /\ op \in [D \X E -> D]
  BY DEF Folds
<1> USE <1>0
<1> DEFINE T == {k \in 0..n : ~ HasTable(D, op, base, seq, k)}
<1>1. SUFFICES ASSUME T # {} PROVE FALSE
  OBVIOUS
<1>2. PICK k \in T : \A j \in T : k <= j
  <2>1. T \in SUBSET Nat
    OBVIOUS
  <2> HIDE DEF T
  <2>2. QED
    BY <1>1, <2>1, LeastNat
<1>3. k # 0
  <2> DEFINE t == [s \in SUBSET (1..0) |-> base]
  <2>1. SUBSET (1..0) = {{}}
    OBVIOUS
  <2>2. t \in [SUBSET (1..0) -> D]
    OBVIOUS
  <2>3. IsFoldTable(t, op, base, seq, 0)
    <3>1. \A s \in SUBSET (1..0) : s = {}
      BY <2>1
    <3> DEFINE Rec(f) == [s \in SUBSET (1..0) |->
                            IF s = {} THEN base ELSE op[<<f[s \ {Max(s)}], seq[Max(s)]>>]]
    <3>2. \A s \in SUBSET (1..0) : Rec(t)[s] = base
      BY <3>1
    <3>3. Rec(t) = [s \in SUBSET (1..0) |-> Rec(t)[s]]
      OBVIOUS
    <3>4. t = Rec(t)
      BY <3>2, <3>3
    <3>5. QED
      BY <3>4 DEF IsFoldTable
  <2> HIDE DEF t
  <2>4. 0 \notin T
    BY <2>2, <2>3, Zenon DEF HasTable
  <2> HIDE DEF T
  <2>5. QED
    BY <1>2, <2>4
<1>4. k - 1 \in 0..n /\ k - 1 \notin T /\ k \in 1..n
  <2>1. k \in 0..n
    OBVIOUS
  <2>2. k \in 1..n /\ k - 1 \in 0..n /\ ~ (k <= k - 1)
    BY <2>1, <1>3
  <2> HIDE DEF T
  <2>3. QED
    BY <2>2, <1>2
<1>5. PICK t \in [SUBSET (1..(k - 1)) -> D] : IsFoldTable(t, op, base, seq, k - 1)
  <2>1. HasTable(D, op, base, seq, k - 1)
    BY <1>4, Zenon
  <2>2. QED
    BY <2>1, Zenon DEF HasTable
<1> DEFINE u == [s \in SUBSET (1..k) |->
                   IF k \in s THEN op[<<t[s \ {k}], seq[k]>>] ELSE t[s]]
<1>6. \A s \in SUBSET (1..k) :
        /\ s \ {k} \in SUBSET (1..(k - 1))
        /\ k \notin s => s \in SUBSET (1..(k - 1))
        /\ k \in s => Max(s) = k
  <2>1. k \in Nat /\ \A x \in 1..k : x # k => x \in 1..(k - 1)
    BY <1>4
  <2>2. ASSUME NEW s \in SUBSET (1..k), k \in s PROVE Max(s) = k
    <3>1. Max(s) \in 1..k /\ k <= Max(s)
      BY <2>1, <2>2, LastPlace
    <3>2. QED
      BY <3>1, <2>1
  <2>3. QED
    BY <2>1, <2>2
<1>7. u \in [SUBSET (1..k) -> D]
  <2>1. ASSUME NEW s \in SUBSET (1..k) PROVE u[s] \in D
    <3>1. k \in s => t[s \ {k}] \in D /\ seq[k] \in E
      BY <1>4, <1>6
    <3>2. k \notin s => t[s] \in D
      BY <1>6
    <3>3. QED
      BY <3>1, <3>2
  <2>2. QED
    BY <2>1
<1>8. ASSUME NEW s \in SUBSET (1..k)
      PROVE  u[s] = IF s = {} THEN base ELSE op[<<u[s \ {Max(s)}], seq[Max(s)]>>]
  <2>1. CASE k \in s
    <3>1. Max(s) = k /\ s # {}
      BY <2>1, <1>6
    <3>2. s \ {k} \in SUBSET (1..k) /\ u[s \ {k}] = t[s \ {k}]
      BY <1>6
    <3>3. u[s] = op[<<t[s \ {k}], seq[k]>>]
      BY <2>1
    <3>4. QED
      BY <3>1, <3>2, <3>3
  <2>2. CASE k \notin s
    <3>1. s \in SUBSET (1..(k - 1)) /\ u[s] = t[s]
      BY <2>2, <1>6
    <3>2. t[s] = IF s = {} THEN base ELSE op[<<t[s \ {Max(s)}], seq[Max(s)]>>]
      BY <3>1, <1>5 DEF IsFoldTable
    <3>3. u[s \ {Max(s)}] = t[s \ {Max(s)}]
      BY <2>2, <3>1, <1>6
    <3>4. QED
      BY <3>1, <3>2, <3>3, Zenon
  <2>3. QED
    BY <2>1, <2>2
<1>9. IsFoldTable(u, op, base, seq, k)
  <2>1. u = [s \in SUBSET (1..k) |-> u[s]]
    OBVIOUS
  <2> HIDE DEF u
  <2>2. QED
    BY <1>8, <2>1, Zenon DEF IsFoldTable
<1>10. HasTable(D, op, base, seq, k)
  <2> HIDE DEF u
  <2>1. QED
    BY <1>7, <1>9, Zenon DEF HasTable
<1>11. QED
  BY <1>2, <1>10, Zenon

\* What such a table says of the sets of first places.
LEMMA FoldTableSteps ==
    ASSUME NEW n \in Nat, NEW k \in 1..n
    PROVE  /\ 1..k \in SUBSET (1..n) /\ 1..k # {} /\ Max(1..k) = k
           /\ (1..k) \ {k} = 1..(k - 1)
<1>1. k \in Nat /\ 1..k \in SUBSET (1..k) /\ k \in 1..k
  OBVIOUS
<1>2. Max(1..k) = k
  BY <1>1, LastPlace
<1>3. QED
  BY <1>1, <1>2

\* Two runs that begin the same and go on the same from the same are the same.
Lockstep(g, h, n) ==
    /\ n \in Nat /\ g[0] = h[0]
    /\ \A k \in 1..n : g[k - 1] = h[k - 1] => g[k] = h[k]

LEMMA SameRuns ==
    ASSUME NEW n, NEW g, NEW h, Lockstep(g, h, n)
    PROVE  \A k \in 0..n : g[k] = h[k]
<1> USE DEF Lockstep
<1> DEFINE T == {k \in 0..n : g[k] # h[k]}
<1>1. SUFFICES ASSUME T # {} PROVE FALSE
  OBVIOUS
<1>2. PICK k \in T : \A j \in T : k <= j
  <2>1. T \in SUBSET Nat
    OBVIOUS
  <2> HIDE DEF T
  <2>2. QED
    BY <1>1, <2>1, LeastNat
<1>3. k \in 0..n /\ g[k] # h[k]
  OBVIOUS
<1>4. k \in 1..n /\ k - 1 \in 0..n /\ ~ (k <= k - 1)
  BY <1>3
<1>5. k - 1 \notin T
  <2> HIDE DEF T
  <2> QED
    BY <1>2, <1>4
<1>6. QED
  BY <1>3, <1>4, <1>5
\* A function that begins a fold like its table, and goes on like it.
Follows(iter, t, D, op, base, seq, n) ==
    /\ n \in Nat
    /\ t \in [SUBSET (1..n) -> D] /\ IsFoldTable(t, op, base, seq, n)
    /\ iter[{}] = base
    /\ \A s \in SUBSET (1..n) :
         s # {} /\ iter[s \ {Max(s)}] = t[s \ {Max(s)}] => iter[s] = t[s]

\* Such a function computes, for all the places, the last state of a run
\* through the elements in their order.
RunOf(iter, n) == [k \in 0..n |-> iter[1..k]]

IsRun(f, D, op, base, seq, n) ==
    /\ f \in [0..n -> D]
    /\ f[0] = base
    /\ \A k \in 1..n : f[k] = op[<<f[k - 1], seq[k]>>]

LEMMA FoldRun ==
    ASSUME NEW iter, NEW t, NEW D, NEW op, NEW base, NEW seq, NEW n,
           Follows(iter, t, D, op, base, seq, n)
    PROVE  IsRun(RunOf(iter, n), D, op, base, seq, n) /\ iter[1..n] = RunOf(iter, n)[n]
<1> USE DEF Follows
<1> DEFINE f == [k \in 0..n |-> t[1..k]]
           g == RunOf(iter, n)
<1>1. t[{}] = base
  BY DEF IsFoldTable
<1>2. ASSUME NEW k \in 1..n
      PROVE  /\ t[1..k] = op[<<t[1..(k - 1)], seq[k]>>]
             /\ iter[1..(k - 1)] = t[1..(k - 1)] => iter[1..k] = t[1..k]
  <2>1. /\ 1..k \in SUBSET (1..n) /\ 1..k # {} /\ Max(1..k) = k
        /\ (1..k) \ {k} = 1..(k - 1)
    BY FoldTableSteps
  <2> DEFINE K == 1..k
  <2> HIDE DEF K
  <2>2. /\ t[K] = op[<<t[K \ {Max(K)}], seq[Max(K)]>>]
        /\ iter[K \ {Max(K)}] = t[K \ {Max(K)}] => iter[K] = t[K]
    BY <2>1 DEF K, IsFoldTable, Follows
  <2>3. QED
    BY <2>1, <2>2 DEF K
<1>3. 1..0 = {} /\ 0 \in 0..n /\ n \in 0..n /\ \A k \in 1..n : k \in 0..n /\ k - 1 \in 0..n
  OBVIOUS
<1>4. f[0] = base /\ g[0] = base
  BY <1>1, <1>3 DEF RunOf
<1>5. \A k \in 1..n : /\ f[k] = op[<<f[k - 1], seq[k]>>]
                      /\ g[k - 1] = f[k - 1] => g[k] = f[k]
  BY <1>2, <1>3 DEF RunOf
<1>6. f \in [0..n -> D]
  <2>1. \A k \in 0..n : 1..k \in SUBSET (1..n)
    OBVIOUS
  <2>2. QED
    BY <2>1
<1>7. g[n] = iter[1..n] /\ g = [k \in 0..n |-> g[k]] /\ f = [k \in 0..n |-> f[k]]
  BY <1>3 DEF RunOf
<1> HIDE DEF f, g
<1>8. Lockstep(g, f, n)
  BY <1>4, <1>5 DEF Lockstep
<1>9. \A k \in 0..n : g[k] = f[k]
  BY <1>8, SameRuns
<1>10. g = f
  BY <1>7, <1>9
<1>11. IsRun(f, D, op, base, seq, n)
  BY <1>4, <1>5, <1>6 DEF IsRun
<1>12. QED
  BY <1>7, <1>9, <1>10, <1>11, <1>3 DEF g
\* A set that holds 0 and leads from each place to the next holds them all.
LEMMA StepsReach ==
    ASSUME NEW n \in Nat, NEW S, 0 \in S, \A k \in 1..n : k - 1 \in S => k \in S
    PROVE  \A k \in 0..n : k \in S
<1> DEFINE T == {k \in 0..n : k \notin S}
<1>1. SUFFICES ASSUME T # {} PROVE FALSE
  OBVIOUS
<1>2. PICK k \in T : \A j \in T : k <= j
  <2>1. T \in SUBSET Nat
    OBVIOUS
  <2> HIDE DEF T
  <2>2. QED
    BY <1>1, <2>1, LeastNat
<1>3. k \in 0..n /\ k \notin S
  OBVIOUS
<1>4. k \in 1..n /\ k - 1 \in 0..n /\ ~ (k <= k - 1)
  BY <1>3
<1>5. k - 1 \notin T
  <2> HIDE DEF T
  <2> QED
    BY <1>2, <1>4
<1>6. QED
  BY <1>3, <1>4, <1>5

-----------------------------------------------------------------------------
(* Ordinals.  A range that is larger than what is left to give goes to the  *)
(* first part whole, so the first part is all there is.                     *)

Ranges == Int \X Int

AllocateStep(s, r) ==
    IF Width(r) <= s.amount
    THEN [s EXCEPT !.amount = @ - Width(r), !.given = Append(@, r)]
    ELSE [s EXCEPT !.given = Append(@, <<r[1], r[1] + Width(r)>>),
                   !.rest = Append(@, <<r[1] + Width(r), r[2]>>)]

Allocating == [amount : Int, given : Seq(Ranges), rest : Seq(Ranges)]

LEMMA AllocateStepType ==
    ASSUME NEW s \in Allocating, NEW r \in Ranges
    PROVE  AllocateStep(s, r) \in Allocating
<1>1. /\ r[1] \in Int /\ r[2] \in Int /\ Width(r) \in Int
      /\ s.amount \in Int /\ s.given \in Seq(Ranges) /\ s.rest \in Seq(Ranges)
  BY DEF Allocating, Ranges, Width
<1>2. <<r[1], r[1] + Width(r)>> \in Ranges /\ <<r[1] + Width(r), r[2]>> \in Ranges
  BY <1>1 DEF Ranges
<1>3. /\ s.amount - Width(r) \in Int /\ Append(s.given, r) \in Seq(Ranges)
      /\ Append(s.given, <<r[1], r[1] + Width(r)>>) \in Seq(Ranges)
      /\ Append(s.rest, <<r[1] + Width(r), r[2]>>) \in Seq(Ranges)
  BY <1>1, <1>2
<1> HIDE DEF Ranges
<1>4. /\ Width(r) <= s.amount => AllocateStep(s, r) =
             [amount |-> s.amount - Width(r), given |-> Append(s.given, r), rest |-> s.rest]
      /\ ~ (Width(r) <= s.amount) => AllocateStep(s, r) =
             [amount |-> s.amount, given |-> Append(s.given, <<r[1], r[1] + Width(r)>>),
              rest |-> Append(s.rest, <<r[1] + Width(r), r[2]>>)]
  BY DEF AllocateStep, Allocating
<1>a. \A a \in Int, g \in Seq(Ranges), q \in Seq(Ranges) :
        [amount |-> a, given |-> g, rest |-> q] \in Allocating
  BY Zenon DEF Allocating
<1>5. CASE Width(r) <= s.amount
  BY <1>1, <1>3, <1>4, <1>5, <1>a, Zenon
<1>6. CASE ~ (Width(r) <= s.amount)
  BY <1>1, <1>3, <1>4, <1>6, <1>a, Zenon
<1>7. QED
  BY <1>5, <1>6

\* The states of an allocation, from none of the ranges to all of them.
LEMMA AllocateStates ==
    ASSUME NEW amount \in Int, NEW ranges \in Seq(Ranges)
    PROVE  \E f \in [0..Len(ranges) -> Allocating] :
             /\ f[0] = [amount |-> amount, given |-> <<>>, rest |-> <<>>]
             /\ \A k \in 1..Len(ranges) : f[k] = AllocateStep(f[k - 1], ranges[k])
             /\ Allocate(amount, ranges) = f[Len(ranges)]
<1> DEFINE n == Len(ranges)
           base == [amount |-> amount, given |-> <<>>, rest |-> <<>>]
           op == [p \in Allocating \X Ranges |-> AllocateStep(p[1], p[2])]
           Rec(t) == [s \in SUBSET (1..n) |-> IF s = {} THEN base
                        ELSE AllocateStep(t[s \ {Max(s)}], ranges[Max(s)])]
           iter == CHOOSE t : t = Rec(t)
<1>1. n \in Nat /\ n \in 0..n /\ DOMAIN ranges = 1..n /\ ranges \in [1..n -> Ranges]
  OBVIOUS
<1>2. Allocate(amount, ranges) = iter[1..n]
  BY <1>1 DEF Allocate, FoldLeft, MapThenFoldSet, AllocateStep
<1>3. base \in Allocating
  BY DEF Allocating
<1>4. op \in [Allocating \X Ranges -> Allocating]
  BY AllocateStepType
<1> HIDE DEF base, op
<1>5. PICK t \in [SUBSET (1..n) -> Allocating] : IsFoldTable(t, op, base, ranges, n)
  <2> HIDE DEF n
  <2>1. Folds(Allocating, Ranges, op, base, ranges, n)
    BY <1>1, <1>3, <1>4 DEF Folds
  <2>2. HasTable(Allocating, op, base, ranges, n)
    BY <2>1, FoldHasTable
  <2>3. QED
    BY <2>2 DEF HasTable
<1>6. \A s \in SUBSET (1..n) : s # {} =>
        op[<<t[s \ {Max(s)}], ranges[Max(s)]>>] = AllocateStep(t[s \ {Max(s)}], ranges[Max(s)])
  <2>1. SUFFICES ASSUME NEW s \in SUBSET (1..n), s # {}
                 PROVE  op[<<t[s \ {Max(s)}], ranges[Max(s)]>>] =
                          AllocateStep(t[s \ {Max(s)}], ranges[Max(s)])
    OBVIOUS
  <2>2. Max(s) \in 1..n /\ s \ {Max(s)} \in SUBSET (1..n)
    BY <1>1, <2>1, LastPlace
  <2>3. t[s \ {Max(s)}] \in Allocating /\ ranges[Max(s)] \in Ranges
    BY <2>2, <1>1
  <2>4. QED
    BY <2>3 DEF op
<1>7. t = Rec(t)
  <2>1. \A s \in SUBSET (1..n) : t[s] = Rec(t)[s]
    BY <1>5, <1>6 DEF IsFoldTable
  <2>2. QED
    BY <2>1
<1>8. iter = Rec(iter)
  BY <1>7
<1> HIDE DEF iter
<1>9. Follows(iter, t, Allocating, op, base, ranges, n)
  <2>1. iter[{}] = base
    BY <1>8
  <2>2. \A s \in SUBSET (1..n) :
          s # {} /\ iter[s \ {Max(s)}] = t[s \ {Max(s)}] => iter[s] = t[s]
    BY <1>7, <1>8
  <2>3. QED
    BY <2>1, <2>2, <1>1, <1>5 DEF Follows
<1> DEFINE f == RunOf(iter, n)
<1>10. IsRun(f, Allocating, op, base, ranges, n) /\ iter[1..n] = f[n]
  BY <1>9, FoldRun
<1> HIDE DEF f
<1>11. /\ f \in [0..n -> Allocating] /\ f[0] = base
       /\ \A k \in 1..n : f[k] = AllocateStep(f[k - 1], ranges[k])
  <2>1. \A k \in 1..n : f[k - 1] \in Allocating /\ ranges[k] \in Ranges
    BY <1>1, <1>10 DEF IsRun
  <2>2. QED
    BY <1>10, <2>1 DEF op, IsRun
<1>12. QED
  BY <1>2, <1>10, <1>11, Zenon DEF base
\* Everything is given, and nothing is left.
LEMMA AllocateGivesAll ==
    ASSUME NEW amount \in Int, NEW ranges \in Seq(Ranges)
    PROVE  /\ Allocate(amount, ranges).given \in Seq(Ranges)
           /\ Allocate(amount, ranges).rest \in Seq(Ranges)
           /\ SatsOf(Allocate(amount, ranges).given) = SatsOf(ranges)
           /\ SatsOf(Allocate(amount, ranges).rest) = {}
<1> DEFINE n == Len(ranges)
<1>1. PICK f \in [0..n -> Allocating] :
        /\ f[0] = [amount |-> amount, given |-> <<>>, rest |-> <<>>]
        /\ \A k \in 1..n : f[k] = AllocateStep(f[k - 1], ranges[k])
        /\ Allocate(amount, ranges) = f[n]
  BY AllocateStates
<1> DEFINE Done(k) ==
             /\ Len(f[k].given) = k
             /\ \A j \in 1..k : f[k].given[j][1] = ranges[j][1] /\ f[k].given[j][2] = ranges[j][2]
             /\ \A j \in 1..Len(f[k].rest) : f[k].rest[j][1] = f[k].rest[j][2]
           S == {k \in 0..n : Done(k)}
<1>2. n \in Nat /\ \A k \in 1..n : k - 1 \in 0..n /\ k \in 0..n /\ ranges[k] \in Ranges
  OBVIOUS
<1>3. 0 \in S
  BY <1>1, <1>2
<1>4. ASSUME NEW k \in 1..n, k - 1 \in S PROVE k \in S
  <2> DEFINE s == f[k - 1]
             r == ranges[k]
             whole == <<r[1], r[1] + Width(r)>>
             none == <<r[1] + Width(r), r[2]>>
  <2>1. /\ s.amount \in Int /\ s.given \in Seq(Ranges) /\ s.rest \in Seq(Ranges)
        /\ s = [amount |-> s.amount, given |-> s.given, rest |-> s.rest]
    BY <1>1, <1>2 DEF Allocating
  <2>2. /\ r[1] \in Int /\ r[2] \in Int /\ r[1] + Width(r) = r[2]
        /\ r \in Ranges /\ whole \in Ranges /\ none \in Ranges
    BY <1>2 DEF Ranges, Width
  <2>3. /\ Len(s.given) = k - 1
        /\ \A j \in 1..k - 1 : s.given[j][1] = ranges[j][1] /\ s.given[j][2] = ranges[j][2]
        /\ \A j \in 1..Len(s.rest) : s.rest[j][1] = s.rest[j][2]
    <3>1. Done(k - 1)
      BY <1>4, Zenon
    <3>2. QED
      BY <3>1
  <2>4. f[k] = AllocateStep(s, r)
    BY <1>1
  <2>4a. k \in Nat /\ \A j \in 1..k : j = k \/ j \in 1..k - 1
    BY <1>2
  <2> HIDE DEF s, r
  <2>4b. ASSUME NEW x \in Ranges, f[k].given = Append(s.given, x), x[1] = r[1], x[2] = r[2]
         PROVE  /\ Len(f[k].given) = k
                /\ \A j \in 1..k : /\ f[k].given[j][1] = ranges[j][1]
                                   /\ f[k].given[j][2] = ranges[j][2]
    <3>1. /\ Len(f[k].given) = k /\ f[k].given[k] = x
          /\ \A j \in 1..k - 1 : f[k].given[j] = s.given[j]
      BY <2>1, <2>3, <2>4a, <2>4b
    <3>2. QED
      BY <2>3, <2>4a, <2>4b, <3>1 DEF r
  <2>5. CASE Width(r) <= s.amount
    <3>1. f[k].given = Append(s.given, r) /\ f[k].rest = s.rest
      BY <2>1, <2>4, <2>5 DEF AllocateStep
    <3>2. \A j \in 1..Len(f[k].rest) : f[k].rest[j][1] = f[k].rest[j][2]
      BY <3>1, <2>3
    <3>3. Done(k)
      BY <3>1, <3>2, <2>2, <2>4b
    <3>4. QED
      BY <3>3, <1>2
  <2>6. CASE ~ (Width(r) <= s.amount)
    <3>1. f[k].given = Append(s.given, whole) /\ f[k].rest = Append(s.rest, none)
      BY <2>1, <2>4, <2>6 DEF AllocateStep
    <3>2. whole[1] = r[1] /\ whole[2] = r[2] /\ none[1] = none[2]
      BY <2>2
    <3> HIDE DEF whole, none
    <3>3. /\ Len(f[k].rest) = Len(s.rest) + 1 /\ f[k].rest[Len(s.rest) + 1] = none
          /\ \A j \in 1..Len(s.rest) : f[k].rest[j] = s.rest[j]
      BY <3>1, <2>1, <2>2
    <3>4. \A j \in 1..Len(f[k].rest) : j = Len(s.rest) + 1 \/ j \in 1..Len(s.rest)
      BY <3>3, <2>1
    <3>5. \A j \in 1..Len(f[k].rest) : f[k].rest[j][1] = f[k].rest[j][2]
      BY <3>2, <3>3, <3>4, <2>3
    <3>6. Done(k)
      BY <3>1, <3>2, <3>5, <2>2, <2>4b
    <3>7. QED
      BY <3>6, <1>2
  <2>7. QED
    BY <2>5, <2>6
<1>5. Done(n)
  <2>1. n \in 0..n
    BY <1>2
  <2> HIDE DEF S
  <2>2. n \in S
    BY <2>1, <1>2, <1>3, <1>4, StepsReach
  <2>3. QED
    BY <2>2 DEF S
<1>6. f[n].given \in Seq(Ranges) /\ f[n].rest \in Seq(Ranges)
  BY <1>1, <1>2 DEF Allocating
<1>7. SatsOf(f[n].given) = SatsOf(ranges)
  <2> DEFINE given == f[n].given
  <2>1. DOMAIN given = DOMAIN ranges
    BY <1>5, <1>6
  <2>2. \A j \in DOMAIN ranges : given[j][1] = ranges[j][1] /\ given[j][2] = ranges[j][2]
    BY <1>5
  <2> HIDE DEF given
  <2>3. \A j \in DOMAIN ranges :
          given[j][1] .. given[j][2] - 1 = ranges[j][1] .. ranges[j][2] - 1
    BY <2>2
  <2>4. SatsOf(given) = SatsOf(ranges)
    BY <2>1, <2>3 DEF SatsOf
  <2>5. QED
    BY <2>4 DEF given
<1>8. SatsOf(f[n].rest) = {}
  <2>1. \A j \in DOMAIN f[n].rest : f[n].rest[j][1] = f[n].rest[j][2] /\ f[n].rest[j][2] \in Int
    <3>1. DOMAIN f[n].rest = 1..Len(f[n].rest) /\ \A j \in DOMAIN f[n].rest : f[n].rest[j] \in Ranges
      BY <1>6
    <3>2. \A r \in Ranges : r[2] \in Int
      BY DEF Ranges
    <3>3. QED
      BY <3>1, <3>2, <1>5
  <2>2. \A j \in DOMAIN f[n].rest : f[n].rest[j][1] .. f[n].rest[j][2] - 1 = {}
    BY <2>1
  <2>3. QED
    BY <2>2 DEF SatsOf
<1>9. QED
  BY <1>1, <1>6, <1>7, <1>8
ToldStep(s, a) ==
    [told |-> Append(s.told, Allocate(a, s.rest).given), rest |-> Allocate(a, s.rest).rest]

Telling == [told : Seq(Seq(Ranges)), rest : Seq(Ranges)]

LEMMA ToldStepType ==
    ASSUME NEW s \in Telling, NEW a \in Int
    PROVE  ToldStep(s, a) \in Telling
<1>1. s.told \in Seq(Seq(Ranges)) /\ s.rest \in Seq(Ranges)
  BY DEF Telling
<1>2. Allocate(a, s.rest).given \in Seq(Ranges) /\ Allocate(a, s.rest).rest \in Seq(Ranges)
  BY <1>1, AllocateGivesAll
<1>3. Append(s.told, Allocate(a, s.rest).given) \in Seq(Seq(Ranges))
  BY <1>1, <1>2
<1>4. QED
  BY <1>2, <1>3 DEF ToldStep, Telling

\* The states in which the outputs of a transaction are told their ordinals.
LEMMA ToldStates ==
    ASSUME NEW amounts \in Seq(Int), NEW ranges \in Seq(Ranges)
    PROVE  \E f \in [0..Len(amounts) -> Telling] :
             /\ f[0] = [told |-> <<>>, rest |-> ranges]
             /\ \A k \in 1..Len(amounts) : f[k] = ToldStep(f[k - 1], amounts[k])
             /\ ToldToOutputs(amounts, ranges) = f[Len(amounts)]
<1> DEFINE n == Len(amounts)
           base == [told |-> <<>>, rest |-> ranges]
           op == [p \in Telling \X Int |-> ToldStep(p[1], p[2])]
           Rec(t) == [s \in SUBSET (1..n) |-> IF s = {} THEN base
                        ELSE ToldStep(t[s \ {Max(s)}], amounts[Max(s)])]
           iter == CHOOSE t : t = Rec(t)
<1>1. n \in Nat /\ n \in 0..n /\ DOMAIN amounts = 1..n /\ amounts \in [1..n -> Int]
  OBVIOUS
<1>2. ToldToOutputs(amounts, ranges) = iter[1..n]
  BY <1>1 DEF ToldToOutputs, FoldLeft, MapThenFoldSet, ToldStep
<1>3. base \in Telling
  BY DEF Telling
<1>4. op \in [Telling \X Int -> Telling]
  BY ToldStepType
<1> HIDE DEF base, op
<1>5. PICK t \in [SUBSET (1..n) -> Telling] : IsFoldTable(t, op, base, amounts, n)
  <2> HIDE DEF n
  <2>1. Folds(Telling, Int, op, base, amounts, n)
    BY <1>1, <1>3, <1>4 DEF Folds
  <2>2. HasTable(Telling, op, base, amounts, n)
    BY <2>1, FoldHasTable
  <2>3. QED
    BY <2>2 DEF HasTable
<1>6. \A s \in SUBSET (1..n) : s # {} =>
        op[<<t[s \ {Max(s)}], amounts[Max(s)]>>] = ToldStep(t[s \ {Max(s)}], amounts[Max(s)])
  <2>1. SUFFICES ASSUME NEW s \in SUBSET (1..n), s # {}
                 PROVE  op[<<t[s \ {Max(s)}], amounts[Max(s)]>>] =
                          ToldStep(t[s \ {Max(s)}], amounts[Max(s)])
    OBVIOUS
  <2>2. Max(s) \in 1..n /\ s \ {Max(s)} \in SUBSET (1..n)
    BY <1>1, <2>1, LastPlace
  <2>3. t[s \ {Max(s)}] \in Telling /\ amounts[Max(s)] \in Int
    BY <2>2, <1>1
  <2>4. QED
    BY <2>3 DEF op
<1>7. t = Rec(t)
  <2>1. \A s \in SUBSET (1..n) : t[s] = Rec(t)[s]
    BY <1>5, <1>6 DEF IsFoldTable
  <2>2. QED
    BY <2>1
<1>8. iter = Rec(iter)
  BY <1>7
<1> HIDE DEF iter
<1>9. Follows(iter, t, Telling, op, base, amounts, n)
  <2>1. iter[{}] = base
    BY <1>8
  <2>2. \A s \in SUBSET (1..n) :
          s # {} /\ iter[s \ {Max(s)}] = t[s \ {Max(s)}] => iter[s] = t[s]
    BY <1>7, <1>8
  <2>3. QED
    BY <2>1, <2>2, <1>1, <1>5 DEF Follows
<1> DEFINE f == RunOf(iter, n)
<1>10. IsRun(f, Telling, op, base, amounts, n) /\ iter[1..n] = f[n]
  BY <1>9, FoldRun
<1> HIDE DEF f
<1>11. /\ f \in [0..n -> Telling] /\ f[0] = base
       /\ \A k \in 1..n : f[k] = ToldStep(f[k - 1], amounts[k])
  <2>1. \A k \in 1..n : f[k - 1] \in Telling /\ amounts[k] \in Int
    <3>1. \A k \in 1..n : k - 1 \in 0..n
      BY <1>1
    <3>2. f \in [0..n -> Telling]
      BY <1>10 DEF IsRun
    <3> HIDE DEF n
    <3>3. QED
      BY <3>1, <3>2, <1>1
  <2>2. QED
    BY <1>10, <2>1 DEF op, IsRun
<1>12. QED
  BY <1>2, <1>10, <1>11, Zenon DEF base

\* The first output is told of everything, the others and the rest of nothing.
FirstHasAll(answered, amounts, ranges) ==
    LET told == answered.told
        rest == answered.rest
    IN  /\ told \in Seq(Seq(Ranges)) /\ Len(told) = Len(amounts)
        /\ rest \in Seq(Ranges)
        /\ told = <<>> => rest = ranges
        /\ told # <<>> => SatsOf(told[1]) = SatsOf(ranges) /\ SatsOf(rest) = {}
        /\ \A j \in 2..Len(told) : SatsOf(told[j]) = {}

LEMMA FirstToldAll ==
    ASSUME NEW amounts \in Seq(Int), NEW ranges \in Seq(Ranges)
    PROVE  FirstHasAll(ToldToOutputs(amounts, ranges), amounts, ranges)
<1> DEFINE n == Len(amounts)
<1>1. PICK f \in [0..n -> Telling] :
        /\ f[0] = [told |-> <<>>, rest |-> ranges]
        /\ \A k \in 1..n : f[k] = ToldStep(f[k - 1], amounts[k])
        /\ ToldToOutputs(amounts, ranges) = f[n]
  BY ToldStates
<1> DEFINE Done(k) ==
             /\ Len(f[k].told) = k
             /\ k = 0 => f[k].rest = ranges
             /\ k # 0 => SatsOf(f[k].told[1]) = SatsOf(ranges) /\ SatsOf(f[k].rest) = {}
             /\ \A j \in 2..k : SatsOf(f[k].told[j]) = {}
           S == {k \in 0..n : Done(k)}
<1>2. n \in Nat /\ \A k \in 1..n : k - 1 \in 0..n /\ k \in 0..n /\ amounts[k] \in Int
  OBVIOUS
<1>3. 0 \in S
  BY <1>1, <1>2
<1>4. ASSUME NEW k \in 1..n, k - 1 \in S PROVE k \in S
  <2> DEFINE s == f[k - 1]
             given == Allocate(amounts[k], s.rest).given
             rest == Allocate(amounts[k], s.rest).rest
  <2>1. s.told \in Seq(Seq(Ranges)) /\ s.rest \in Seq(Ranges)
    BY <1>1, <1>2 DEF Telling
  <2>2. /\ given \in Seq(Ranges) /\ SatsOf(given) = SatsOf(s.rest) /\ SatsOf(rest) = {}
    BY <2>1, <1>2, AllocateGivesAll
  <2>3. f[k].told = Append(s.told, given) /\ f[k].rest = rest
    <3>1. f[k] = ToldStep(s, amounts[k])
      BY <1>1
    <3>2. QED
      BY <3>1 DEF ToldStep
  <2>4. Done(k - 1) /\ k \in Nat /\ k # 0 /\ k \in 0..n
    <3>1. Done(k - 1)
      BY <1>4, Zenon
    <3>2. k \in Nat /\ k # 0 /\ k \in 0..n
      BY <1>2
    <3>3. QED
      BY <3>1, <3>2
  <2>4a. /\ Len(s.told) = k - 1
         /\ k - 1 = 0 => s.rest = ranges
         /\ k - 1 # 0 => SatsOf(s.told[1]) = SatsOf(ranges) /\ SatsOf(s.rest) = {}
         /\ \A j \in 2..k - 1 : SatsOf(s.told[j]) = {}
    BY <2>4, Zenon
  <2> HIDE DEF s, given, rest, Done
  <2>5. /\ Len(f[k].told) = k /\ f[k].told[k] = given
        /\ \A j \in 1..k - 1 : f[k].told[j] = s.told[j]
    <3>1. Append(s.told, given) = f[k].told
      BY <2>3
    <3>2. \A t \in Seq(Seq(Ranges)), x \in Seq(Ranges) :
            /\ Len(Append(t, x)) = Len(t) + 1 /\ Append(t, x)[Len(t) + 1] = x
            /\ \A j \in 1..Len(t) : Append(t, x)[j] = t[j]
      OBVIOUS
    <3>3. (k - 1) + 1 = k
      BY <2>4
    <3>4. /\ Len(Append(s.told, given)) = Len(s.told) + 1
          /\ Append(s.told, given)[Len(s.told) + 1] = given
          /\ \A j \in 1..Len(s.told) : Append(s.told, given)[j] = s.told[j]
      BY <3>2, <2>1, <2>2
    <3>5. QED
      BY <3>1, <3>3, <3>4, <2>4a
  <2>6. k # 1 => SatsOf(s.told[1]) = SatsOf(ranges) /\ SatsOf(s.rest) = {}
    BY <2>4, <2>4a
  <2>6a. k = 1 => s.rest = ranges
    BY <2>4, <2>4a
  <2>6b. \A j \in 2..k - 1 : SatsOf(s.told[j]) = {}
    BY <2>4a
  <2>7. SatsOf(f[k].told[1]) = SatsOf(ranges)
    <3>1. CASE k = 1
      BY <3>1, <2>2, <2>5, <2>6a
    <3>2. CASE k # 1
      BY <3>2, <2>4, <2>5, <2>6
    <3>3. QED
      BY <3>1, <3>2
  <2>7a. ASSUME NEW j \in 2..k PROVE SatsOf(f[k].told[j]) = {}
    <3>1. CASE j = k
      <4>1. SatsOf(s.rest) = {}
        BY <3>1, <2>4, <2>6
      <4>2. QED
        BY <4>1, <3>1, <2>2, <2>5
    <3>2. CASE j # k
      <4>1. j \in 2..k - 1 /\ j \in 1..k - 1
        BY <3>2, <2>4
      <4>2. QED
        BY <4>1, <2>5, <2>6b
    <3>3. QED
      BY <3>1, <3>2
  <2>7b. Done(k)
    BY <2>2, <2>3, <2>4, <2>5, <2>7, <2>7a DEF Done
  <2>8. QED
    BY <2>4, <2>7b
<1>5. Done(n)
  <2>1. n \in 0..n
    BY <1>2
  <2> HIDE DEF S
  <2>2. n \in S
    BY <2>1, <1>2, <1>3, <1>4, StepsReach
  <2>3. QED
    BY <2>2 DEF S
<1>6. /\ f[n].told \in Seq(Seq(Ranges)) /\ f[n].rest \in Seq(Ranges)
      /\ f[n] = [told |-> f[n].told, rest |-> f[n].rest]
  <2>1. n \in 0..n
    BY <1>2
  <2>2. f[n] \in Telling
    BY <1>1, <2>1
  <2>3. QED
    BY <2>2 DEF Telling
<1>7. f[n].told = <<>> <=> n = 0
  BY <1>5, <1>6
<1>8. FirstHasAll(f[n], amounts, ranges)
  BY <1>5, <1>6, <1>7 DEF FirstHasAll
<1>9. QED
  BY <1>1, <1>8

(***************************************************************************)
(* For any amounts and any ranges: the ordinals that the outputs and the   *)
(* parent are told of are all those of the coin, and none is told twice    *)
(* (allocate_ordinals, with_amount and spend_amount of context.rs).        *)
(***************************************************************************)
THEOREM OrdinalsToldOnceHolds == Spec => []OrdinalsToldOnce
<1>1. AnswersComputed => OrdinalsToldOnce
  <2> SUFFICES ASSUME AnswersComputed, Answered("split") PROVE OrdinalsToldOnce
    BY DEF OrdinalsToldOnce
  <2>1. answer.value = ToldToOutputs(task.amounts, task.ranges)
    BY DEF AnswersComputed
  <2>2. task \in Tasks /\ task.kind = "split"
    BY DEF AnswersComputed, Answered
  <2>3. task.ranges \in Seq(Nat \X Nat) /\ task.amounts \in Seq(Nat)
    BY <2>2, TaskAssumption, Zenon
  <2>4. task.ranges \in Seq(Ranges) /\ task.amounts \in Seq(Int)
    BY <2>3 DEF Ranges
  <2>5. FirstHasAll(answer.value, task.amounts, task.ranges)
    BY <2>1, <2>4, FirstToldAll
  <2> DEFINE told == answer.value.told
             rest == answer.value.rest
  <2> DEFINE parts == Append(told, rest)
             all == SatsOf(task.ranges)
             n == Len(told)
  <2> HIDE DEF all
  <2>5a. /\ told \in Seq(Seq(Ranges)) /\ rest \in Seq(Ranges)
         /\ told = <<>> => rest = task.ranges
         /\ told # <<>> => SatsOf(told[1]) = all /\ SatsOf(rest) = {}
         /\ \A j \in 2..n : SatsOf(told[j]) = {}
    BY <2>5 DEF FirstHasAll, all
  <2> HIDE DEF told, rest
  <2>6. /\ DOMAIN parts = 1..n + 1 /\ parts[n + 1] = rest /\ n \in Nat
        /\ \A j \in 1..n : parts[j] = told[j]
        /\ told = <<>> <=> n = 0
    BY <2>5a
  <2>7. SatsOf(parts[1]) = all /\ \A j \in 2..n + 1 : SatsOf(parts[j]) = {}
    <3>1. CASE n = 0
      BY <3>1, <2>5a, <2>6 DEF all
    <3>2. CASE n # 0
      <4>1. \A j \in 2..n + 1 : j = n + 1 \/ j \in 2..n
        BY <2>6
      <4>2. 1 \in 1..n /\ 2..n \subseteq 1..n
        BY <2>6, <3>2
      <4> HIDE DEF parts, n
      <4>3. QED
        BY <4>1, <4>2, <3>2, <2>5a, <2>6 DEF all, n
    <3>3. QED
      BY <3>1, <3>2
  <2>8. 1 \in DOMAIN parts /\ \A j \in DOMAIN parts : j = 1 \/ j \in 2..n + 1
    BY <2>6
  <2> HIDE DEF parts, n
  <2>9. UNION {SatsOf(parts[i]) : i \in DOMAIN parts} = all
    BY <2>7, <2>8
  <2>10. \A i, j \in DOMAIN parts : i # j => SatsOf(parts[i]) \cap SatsOf(parts[j]) = {}
    BY <2>7, <2>8
  <2>11. QED
    BY <2>9, <2>10 DEF OrdinalsToldOnce, all, parts, told, rest
<1>2. QED
  BY <1>1, InitComputed, AnswersComputedInductive, PTL DEF Spec
-----------------------------------------------------------------------------
(* Paths.  What is written of a path is read as the same path.              *)

\* Pushing puts a fragment before those pushed earlier.
LEMMA PushedType ==
    ASSUME NEW F, NEW path \in Seq(F), NEW x \in F
    PROVE  /\ Pushed(path, x) \in Seq(F) /\ Len(Pushed(path, x)) = Len(path) + 1
           /\ Pushed(path, x)[1] = x
           /\ \A i \in 1..Len(path) : Pushed(path, x)[i + 1] = path[i]
BY DEF Pushed

\* The paths pushed one after another, from none of the fragments to all.
LEMMA PushedStates ==
    ASSUME NEW F, NEW fs \in Seq(F)
    PROVE  \E f \in [0..Len(fs) -> Seq(F)] :
             /\ f[0] = <<>>
             /\ \A k \in 1..Len(fs) : f[k] = Pushed(f[k - 1], fs[k])
             /\ ReversePathOf(fs) = f[Len(fs)]
<1> DEFINE n == Len(fs)
           base == <<>>
           op == [p \in (Seq(F)) \X (F) |-> Pushed(p[1], p[2])]
           Rec(t) == [s \in SUBSET (1..n) |-> IF s = {} THEN base
                        ELSE Pushed(t[s \ {Max(s)}], fs[Max(s)])]
           iter == CHOOSE t : t = Rec(t)
<1>1. n \in Nat /\ n \in 0..n /\ DOMAIN fs = 1..n /\ fs \in [1..n -> F]
  OBVIOUS
<1>2. ReversePathOf(fs) = iter[1..n]
  BY <1>1 DEF ReversePathOf, FoldLeft, MapThenFoldSet
<1>3. base \in Seq(F)
  OBVIOUS
<1>4. op \in [(Seq(F)) \X (F) -> Seq(F)]
  BY PushedType
<1> HIDE DEF base, op
<1>5. PICK t \in [SUBSET (1..n) -> Seq(F)] : IsFoldTable(t, op, base, fs, n)
  <2> HIDE DEF n
  <2>1. Folds(Seq(F), F, op, base, fs, n)
    BY <1>1, <1>3, <1>4 DEF Folds
  <2>2. HasTable(Seq(F), op, base, fs, n)
    BY <2>1, FoldHasTable
  <2>3. QED
    BY <2>2 DEF HasTable
<1>6. \A s \in SUBSET (1..n) : s # {} =>
        op[<<t[s \ {Max(s)}], fs[Max(s)]>>] = Pushed(t[s \ {Max(s)}], fs[Max(s)])
  <2>1. SUFFICES ASSUME NEW s \in SUBSET (1..n), s # {}
                 PROVE  op[<<t[s \ {Max(s)}], fs[Max(s)]>>] =
                          Pushed(t[s \ {Max(s)}], fs[Max(s)])
    OBVIOUS
  <2>2. Max(s) \in 1..n /\ s \ {Max(s)} \in SUBSET (1..n)
    BY <1>1, <2>1, LastPlace
  <2>3. t[s \ {Max(s)}] \in Seq(F) /\ fs[Max(s)] \in F
    BY <2>2, <1>1
  <2>4. QED
    BY <2>3 DEF op
<1>7. t = Rec(t)
  <2>1. \A s \in SUBSET (1..n) : t[s] = Rec(t)[s]
    BY <1>5, <1>6 DEF IsFoldTable
  <2>2. QED
    BY <2>1
<1>8. iter = Rec(iter)
  BY <1>7
<1> HIDE DEF iter
<1>9. Follows(iter, t, Seq(F), op, base, fs, n)
  <2>1. iter[{}] = base
    BY <1>8
  <2>2. \A s \in SUBSET (1..n) :
          s # {} /\ iter[s \ {Max(s)}] = t[s \ {Max(s)}] => iter[s] = t[s]
    BY <1>7, <1>8
  <2>3. QED
    BY <2>1, <2>2, <1>1, <1>5 DEF Follows
<1> DEFINE f == RunOf(iter, n)
<1>10. IsRun(f, Seq(F), op, base, fs, n) /\ iter[1..n] = f[n]
  BY <1>9, FoldRun
<1> HIDE DEF f
<1>11. /\ f \in [0..n -> Seq(F)] /\ f[0] = base
       /\ \A k \in 1..n : f[k] = Pushed(f[k - 1], fs[k])
  <2>1. \A k \in 1..n : f[k - 1] \in Seq(F) /\ fs[k] \in F
    <3>1. \A k \in 1..n : k - 1 \in 0..n
      BY <1>1
    <3>2. f \in [0..n -> Seq(F)]
      BY <1>10 DEF IsRun
    <3> HIDE DEF n
    <3>3. QED
      BY <3>1, <3>2, <1>1
  <2>2. QED
    BY <1>10, <2>1 DEF op, IsRun
<1>12. QED
  BY <1>2, <1>10, <1>11, Zenon DEF base

\* A path is its fragments backwards, so reversing it gives them again.
LEMMA ReversedTwice ==
    ASSUME NEW F, NEW fs \in Seq(F)
    PROVE  ReversePathOf(fs) \in Seq(F) /\ Reverse(ReversePathOf(fs)) = fs
<1> DEFINE n == Len(fs)
<1>1. PICK f \in [0..n -> Seq(F)] :
        /\ f[0] = <<>>
        /\ \A k \in 1..n : f[k] = Pushed(f[k - 1], fs[k])
        /\ ReversePathOf(fs) = f[n]
  BY PushedStates
<1> DEFINE Done(k) == Len(f[k]) = k /\ \A i \in 1..k : f[k][k + 1 - i] = fs[i]
           S == {k \in 0..n : Done(k)}
<1>2. n \in Nat /\ \A k \in 1..n : k - 1 \in 0..n /\ k \in 0..n /\ fs[k] \in F
  OBVIOUS
<1>3. 0 \in S
  BY <1>1, <1>2
<1>4. ASSUME NEW k \in 1..n, k - 1 \in S PROVE k \in S
  <2>1. PICK built \in Seq(F) :
          built = f[k - 1] /\ f[k] = Pushed(built, fs[k]) /\ fs[k] \in F /\ k \in Nat
    <3>1. k \in Nat /\ k - 1 \in 0..n /\ fs[k] \in F
      BY <1>2
    <3> HIDE DEF n
    <3>2. QED
      BY <1>1, <3>1
  <2>2. Done(k - 1)
    BY <1>4, Zenon
  <2>3. Len(built) = k - 1 /\ \A i \in 1..k - 1 : built[k - i] = fs[i]
    BY <2>1, <2>2
  <2>4. /\ Len(f[k]) = k /\ f[k][1] = fs[k]
        /\ \A i \in 1..k - 1 : f[k][i + 1] = built[i]
    <3>1. /\ Len(Pushed(built, fs[k])) = Len(built) + 1
          /\ Pushed(built, fs[k])[1] = fs[k]
          /\ \A i \in 1..Len(built) : Pushed(built, fs[k])[i + 1] = built[i]
      <4>1. built \in Seq(F) /\ fs[k] \in F
        BY <2>1
      <4>2. QED
        BY <4>1 DEF Pushed
    <3>2. Len(built) + 1 = k
      BY <2>1, <2>3
    <3>3. f[k] = Pushed(built, fs[k]) /\ Len(built) = k - 1
      BY <2>1, <2>3
    <3>4. QED
      BY <3>1, <3>2, <3>3, Zenon
  <2>5. ASSUME NEW i \in 1..k PROVE f[k][k + 1 - i] = fs[i]
    <3>1. CASE i = k
      BY <3>1, <2>1, <2>4
    <3>2. CASE i # k
      <4>1. i \in 1..k - 1 /\ k - i \in 1..k - 1 /\ k + 1 - i = (k - i) + 1
        BY <3>2, <2>1
      <4>2. QED
        BY <4>1, <2>3, <2>4
    <3>3. QED
      BY <3>1, <3>2
  <2>6. Done(k) /\ k \in 0..n
    BY <2>4, <2>5, <1>2
  <2>7. QED
    BY <2>6
<1>5. Done(n)
  <2>1. n \in 0..n
    BY <1>2
  <2> HIDE DEF S
  <2>2. n \in S
    BY <2>1, <1>2, <1>3, <1>4, StepsReach
  <2>3. QED
    BY <2>2 DEF S
<1> DEFINE path == ReversePathOf(fs)
<1>6. path \in Seq(F) /\ Len(path) = n /\ \A i \in 1..n : path[n + 1 - i] = fs[i]
  BY <1>1, <1>2, <1>5
<1> HIDE DEF path
<1>7. Reverse(path) = [i \in 1..n |-> path[(n - i) + 1]]
  BY <1>6 DEF Reverse
<1>8. \A i \in 1..n : (n - i) + 1 = n + 1 - i
  BY <1>2
<1>9. \A i \in 1..n : Reverse(path)[i] = fs[i]
  BY <1>6, <1>7, <1>8
<1>10. fs = [i \in 1..n |-> fs[i]]
  OBVIOUS
<1>11. QED
  BY <1>6, <1>7, <1>9, <1>10 DEF path

\* Joining and cutting keep to characters, and a cut text has a last piece.
LEMMA JoinedType ==
    ASSUME NEW C, "/" \in C, NEW text \in Seq(C), NEW next \in Seq(C)
    PROVE  Joined(text, next) \in Seq(C)
BY DEF Joined

Pieces(C) == Seq(Seq(C)) \ {<<>>}

LEMMA CutType ==
    ASSUME NEW C, NEW pieces \in Pieces(C), NEW c \in C
    PROVE  Cut(pieces, c) \in Pieces(C)
<1>1. CASE c = "/"
  BY <1>1 DEF Cut, Pieces
<1>2. CASE c # "/"
  <2>1. pieces \in Seq(Seq(C)) /\ Len(pieces) \in 1..Len(pieces)
    BY DEF Pieces
  <2>2. Append(pieces[Len(pieces)], c) \in Seq(C)
    BY <2>1
  <2> DEFINE new == [pieces EXCEPT ![Len(pieces)] = Append(@, c)]
  <2>3. new \in Seq(Seq(C)) /\ Len(new) = Len(pieces)
    BY <2>1, <2>2
  <2>4. QED
    BY <1>2, <2>1, <2>3 DEF Cut, Pieces
<1>3. QED
  BY <1>1, <1>2

\* The texts joined one after another, from the first of them to all.
LEMMA JoinedStates ==
    ASSUME NEW C, "/" \in C, NEW texts \in Seq(Seq(C)) \ {<<>>}
    PROVE  \E f \in [0..Len(Tail(texts)) -> Seq(C)] :
             /\ f[0] = Head(texts)
             /\ \A k \in 1..Len(Tail(texts)) : f[k] = Joined(f[k - 1], Tail(texts)[k])
             /\ Join(texts) = f[Len(Tail(texts))]
<1> DEFINE n == Len(Tail(texts))
           base == Head(texts)
           op == [p \in (Seq(C)) \X (Seq(C)) |-> Joined(p[1], p[2])]
           Rec(t) == [s \in SUBSET (1..n) |-> IF s = {} THEN base
                        ELSE Joined(t[s \ {Max(s)}], Tail(texts)[Max(s)])]
           iter == CHOOSE t : t = Rec(t)
<1>1. n \in Nat /\ n \in 0..n /\ DOMAIN Tail(texts) = 1..n /\ Tail(texts) \in [1..n -> Seq(C)]
  <2>1. Tail(texts) \in Seq(Seq(C))
    OBVIOUS
  <2>2. \A rest \in Seq(Seq(C)) :
          /\ Len(rest) \in Nat /\ Len(rest) \in 0..Len(rest)
          /\ DOMAIN rest = 1..Len(rest) /\ rest \in [1..Len(rest) -> Seq(C)]
    OBVIOUS
  <2>3. QED
    BY <2>1, <2>2, Zenon
<1>2. Join(texts) = iter[1..n]
  BY <1>1 DEF Join, FoldLeft, MapThenFoldSet
<1>3. base \in Seq(C)
  OBVIOUS
<1>4. op \in [(Seq(C)) \X (Seq(C)) -> Seq(C)]
  BY JoinedType
<1> HIDE DEF base, op
<1>5. PICK t \in [SUBSET (1..n) -> Seq(C)] : IsFoldTable(t, op, base, Tail(texts), n)
  <2> HIDE DEF n
  <2>1. Folds(Seq(C), Seq(C), op, base, Tail(texts), n)
    BY <1>1, <1>3, <1>4 DEF Folds
  <2>2. HasTable(Seq(C), op, base, Tail(texts), n)
    BY <2>1, FoldHasTable
  <2>3. QED
    BY <2>2 DEF HasTable
<1>6. \A s \in SUBSET (1..n) : s # {} =>
        op[<<t[s \ {Max(s)}], Tail(texts)[Max(s)]>>] = Joined(t[s \ {Max(s)}], Tail(texts)[Max(s)])
  <2>1. SUFFICES ASSUME NEW s \in SUBSET (1..n), s # {}
                 PROVE  op[<<t[s \ {Max(s)}], Tail(texts)[Max(s)]>>] =
                          Joined(t[s \ {Max(s)}], Tail(texts)[Max(s)])
    OBVIOUS
  <2>2. Max(s) \in 1..n /\ s \ {Max(s)} \in SUBSET (1..n)
    BY <1>1, <2>1, LastPlace
  <2>3. t[s \ {Max(s)}] \in Seq(C) /\ Tail(texts)[Max(s)] \in Seq(C)
    BY <2>2, <1>1
  <2>4. QED
    BY <2>3 DEF op
<1>7. t = Rec(t)
  <2>1. \A s \in SUBSET (1..n) : t[s] = Rec(t)[s]
    BY <1>5, <1>6 DEF IsFoldTable
  <2>2. QED
    BY <2>1
<1>8. iter = Rec(iter)
  BY <1>7
<1> HIDE DEF iter
<1>9. Follows(iter, t, Seq(C), op, base, Tail(texts), n)
  <2>1. iter[{}] = base
    BY <1>8
  <2>2. \A s \in SUBSET (1..n) :
          s # {} /\ iter[s \ {Max(s)}] = t[s \ {Max(s)}] => iter[s] = t[s]
    BY <1>7, <1>8
  <2>3. QED
    BY <2>1, <2>2, <1>1, <1>5 DEF Follows
<1> DEFINE f == RunOf(iter, n)
<1>10. IsRun(f, Seq(C), op, base, Tail(texts), n) /\ iter[1..n] = f[n]
  BY <1>9, FoldRun
<1> HIDE DEF f
<1>11. /\ f \in [0..n -> Seq(C)] /\ f[0] = base
       /\ \A k \in 1..n : f[k] = Joined(f[k - 1], Tail(texts)[k])
  <2>1. \A k \in 1..n : f[k - 1] \in Seq(C) /\ Tail(texts)[k] \in Seq(C)
    <3>1. \A k \in 1..n : k - 1 \in 0..n
      BY <1>1
    <3>2. f \in [0..n -> Seq(C)]
      BY <1>10 DEF IsRun
    <3> HIDE DEF n
    <3>3. QED
      BY <3>1, <3>2, <1>1
  <2>2. QED
    BY <1>10, <2>1 DEF op, IsRun
<1>12. QED
  BY <1>2, <1>10, <1>11, Zenon DEF base

\* The pieces a text is cut into, from none of its characters to all.
LEMMA SplitStates ==
    ASSUME NEW C, NEW text \in Seq(C)
    PROVE  \E f \in [0..Len(text) -> Pieces(C)] :
             /\ f[0] = <<<<>>>>
             /\ \A k \in 1..Len(text) : f[k] = Cut(f[k - 1], text[k])
             /\ Split(text) = f[Len(text)]
<1> DEFINE n == Len(text)
           base == <<<<>>>>
           op == [p \in (Pieces(C)) \X (C) |-> Cut(p[1], p[2])]
           Rec(t) == [s \in SUBSET (1..n) |-> IF s = {} THEN base
                        ELSE Cut(t[s \ {Max(s)}], text[Max(s)])]
           iter == CHOOSE t : t = Rec(t)
<1>1. n \in Nat /\ n \in 0..n /\ DOMAIN text = 1..n /\ text \in [1..n -> C]
  OBVIOUS
<1>2. Split(text) = iter[1..n]
  BY <1>1 DEF Split, FoldLeft, MapThenFoldSet
<1>3. base \in Pieces(C)
  <2>1. <<>> \in Seq(C)
    OBVIOUS
  <2>2. <<<<>>>> \in Seq(Seq(C)) /\ <<<<>>>> # <<>>
    BY <2>1
  <2>3. QED
    BY <2>2, Zenon DEF Pieces
<1>4. op \in [(Pieces(C)) \X (C) -> Pieces(C)]
  BY CutType
<1> HIDE DEF base, op
<1>5. PICK t \in [SUBSET (1..n) -> Pieces(C)] : IsFoldTable(t, op, base, text, n)
  <2> HIDE DEF n
  <2>1. Folds(Pieces(C), C, op, base, text, n)
    BY <1>1, <1>3, <1>4 DEF Folds
  <2>2. HasTable(Pieces(C), op, base, text, n)
    BY <2>1, FoldHasTable
  <2>3. QED
    BY <2>2 DEF HasTable
<1>6. \A s \in SUBSET (1..n) : s # {} =>
        op[<<t[s \ {Max(s)}], text[Max(s)]>>] = Cut(t[s \ {Max(s)}], text[Max(s)])
  <2>1. SUFFICES ASSUME NEW s \in SUBSET (1..n), s # {}
                 PROVE  op[<<t[s \ {Max(s)}], text[Max(s)]>>] =
                          Cut(t[s \ {Max(s)}], text[Max(s)])
    OBVIOUS
  <2>2. Max(s) \in 1..n /\ s \ {Max(s)} \in SUBSET (1..n)
    BY <1>1, <2>1, LastPlace
  <2>3. t[s \ {Max(s)}] \in Pieces(C) /\ text[Max(s)] \in C
    BY <2>2, <1>1
  <2>4. QED
    BY <2>3 DEF op
<1>7. t = Rec(t)
  <2>1. \A s \in SUBSET (1..n) : t[s] = Rec(t)[s]
    BY <1>5, <1>6 DEF IsFoldTable
  <2>2. QED
    BY <2>1
<1>8. iter = Rec(iter)
  BY <1>7
<1> HIDE DEF iter
<1>9. Follows(iter, t, Pieces(C), op, base, text, n)
  <2>1. iter[{}] = base
    BY <1>8
  <2>2. \A s \in SUBSET (1..n) :
          s # {} /\ iter[s \ {Max(s)}] = t[s \ {Max(s)}] => iter[s] = t[s]
    BY <1>7, <1>8
  <2>3. QED
    BY <2>1, <2>2, <1>1, <1>5 DEF Follows
<1> DEFINE f == RunOf(iter, n)
<1>10. IsRun(f, Pieces(C), op, base, text, n) /\ iter[1..n] = f[n]
  BY <1>9, FoldRun
<1> HIDE DEF f
<1>11. /\ f \in [0..n -> Pieces(C)] /\ f[0] = base
       /\ \A k \in 1..n : f[k] = Cut(f[k - 1], text[k])
  <2>1. \A k \in 1..n : f[k - 1] \in Pieces(C) /\ text[k] \in C
    <3>1. \A k \in 1..n : k - 1 \in 0..n
      BY <1>1
    <3>2. f \in [0..n -> Pieces(C)]
      BY <1>10 DEF IsRun
    <3> HIDE DEF n
    <3>3. QED
      BY <3>1, <3>2, <1>1
  <2>2. QED
    BY <1>10, <2>1 DEF op, IsRun
<1>12. QED
  BY <1>2, <1>10, <1>11, Zenon DEF base

\* One more character of a text is one more cut.
LEMMA SplitNone == Split(<<>>) = <<<<>>>>
<1>1. <<>> \in Seq({}) /\ Len(<<>>) = 0
  OBVIOUS
<1>2. PICK f \in [0..Len(<<>>) -> Pieces({})] :
        f[0] = <<<<>>>> /\ Split(<<>>) = f[Len(<<>>)]
  BY <1>1, SplitStates
<1>3. QED
  BY <1>1, <1>2, Zenon

LEMMA SplitSnoc ==
    ASSUME NEW C, NEW text \in Seq(C), NEW c \in C
    PROVE  /\ Split(text) \in Pieces(C)
           /\ Split(Append(text, c)) = Cut(Split(text), c)
<1> DEFINE n == Len(text)
           more == Append(text, c)
<1>1. /\ n \in Nat /\ n \in 0..n /\ n + 1 \in 1..n + 1 /\ (n + 1) - 1 = n
      /\ more \in Seq(C) /\ Len(more) = n + 1 /\ more[n + 1] = c
      /\ \A k \in 1..n : k \in 1..n + 1 /\ more[k] = text[k]
  OBVIOUS
<1>2. PICK g \in [0..n -> Pieces(C)] :
        /\ g[0] = <<<<>>>>
        /\ \A k \in 1..n : g[k] = Cut(g[k - 1], text[k])
        /\ Split(text) = g[n]
  BY SplitStates
<1> HIDE DEF more
<1>3. PICK f \in [0..Len(more) -> Pieces(C)] :
        /\ f[0] = <<<<>>>>
        /\ \A k \in 1..Len(more) : f[k] = Cut(f[k - 1], more[k])
        /\ Split(more) = f[Len(more)]
  BY <1>1, SplitStates
<1> HIDE DEF n
<1>4. Lockstep(f, g, n)
  BY <1>1, <1>2, <1>3 DEF Lockstep
<1>5. f[n] = g[n]
  BY <1>1, <1>4, SameRuns
<1>6. f[n + 1] = Cut(f[n], c)
  BY <1>1, <1>3
<1>7. Split(text) \in Pieces(C) /\ Split(more) = Cut(Split(text), c)
  BY <1>1, <1>2, <1>3, <1>5, <1>6
<1>8. QED
  BY <1>7 DEF more

\* What a slash and another character do to the pieces.
LEMMA CutGives ==
    ASSUME NEW C, NEW front \in Seq(Seq(C)), NEW last \in Seq(C), NEW c \in C
    PROVE  /\ c = "/" => Cut(front, c) = Append(front, <<>>)
           /\ c # "/" => Cut(Append(front, last), c) = Append(front, Append(last, c))
<1> DEFINE m == Len(front)
           pieces == Append(front, last)
           new == [pieces EXCEPT ![Len(pieces)] = Append(@, c)]
<1>1. /\ m \in Nat /\ pieces \in Seq(Seq(C)) /\ Len(pieces) = m + 1
      /\ pieces[m + 1] = last /\ \A i \in 1..m : pieces[i] = front[i]
  OBVIOUS
<1>2. Append(last, c) \in Seq(C)
  OBVIOUS
<1>3. /\ new \in Seq(Seq(C)) /\ Len(new) = m + 1 /\ new[m + 1] = Append(last, c)
      /\ \A i \in 1..m : new[i] = front[i]
  <2> HIDE DEF pieces, m
  <2>1. DOMAIN pieces = 1..m + 1 /\ m + 1 \in 1..m + 1
    BY <1>1
  <2>2. \A i \in 1..m : i # m + 1 /\ i \in 1..m + 1
    BY <1>1
  <2>3. QED
    BY <1>1, <1>2, <2>1, <2>2
<1>4. new = Append(front, Append(last, c))
  <2> DEFINE want == Append(front, Append(last, c))
  <2>1. /\ want \in Seq(Seq(C)) /\ Len(want) = m + 1 /\ want[m + 1] = Append(last, c)
        /\ \A i \in 1..m : want[i] = front[i]
    BY <1>2
  <2> HIDE DEF want, new, m
  <2>2. new = [i \in 1..m + 1 |-> new[i]] /\ want = [i \in 1..m + 1 |-> want[i]]
    BY <1>3, <2>1
  <2>3. \A i \in 1..m + 1 : i \in 1..m \/ i = m + 1
    BY <1>1
  <2>4. \A i \in 1..m + 1 : new[i] = want[i]
    BY <1>3, <2>1, <2>3
  <2>5. QED
    BY <2>2, <2>4 DEF want
<1>5. QED
  BY <1>4 DEF Cut

\* Characters other than a slash all go to the last piece.
Plain(C) == Seq(C \ {"/"})

LEMMA SplitPlain ==
    ASSUME NEW C, NEW text \in Seq(C), NEW front \in Seq(Seq(C)), NEW p \in Plain(C),
           Split(text) = Append(front, <<>>)
    PROVE  Split(text \o p) = Append(front, p)
<1> DEFINE n == Len(p)
           Read(j) == SubSeq(p, 1, j)
           S == {j \in 0..n : Split(text \o Read(j)) = Append(front, Read(j))}
<1>1. n \in Nat /\ n \in 0..n /\ 0 \in 0..n /\ p \in Seq(C \ {"/"}) /\ p \in Seq(C)
  BY DEF Plain
<1>2. Read(0) = <<>> /\ text \o <<>> = text /\ Read(n) = p
  BY <1>1
<1>3. 0 \in S
  BY <1>1, <1>2
<1>4. ASSUME NEW k \in 1..n, k - 1 \in S PROVE k \in S
  <2>1. /\ k \in 0..n /\ k - 1 \in 0..n /\ p[k] \in C /\ p[k] # "/"
        /\ Split(text \o Read(k - 1)) = Append(front, Read(k - 1))
    BY <1>1, <1>4
  <2>2. PICK r \in Seq(C) : r = Read(k - 1) /\ Read(k) = Append(r, p[k])
    <3>1. Read(k - 1) \in Seq(C)
      BY <1>1, <2>1
    <3>2. Read(k) = Append(Read(k - 1), p[k])
      BY <1>1, <2>1
    <3>3. QED
      BY <3>1, <3>2
  <2>3. text \o r \in Seq(C) /\ text \o Read(k) = Append(text \o r, p[k])
    <3>1. text \o r \in Seq(C)
      OBVIOUS
    <3>2. text \o Append(r, p[k]) = Append(text \o r, p[k])
      <4>1. p[k] \in C
        BY <2>1
      <4>2. QED
        BY <4>1
    <3>3. QED
      BY <2>2, <3>1, <3>2, Zenon
  <2>4. Split(Append(text \o r, p[k])) = Cut(Append(front, r), p[k])
    BY <2>1, <2>2, <2>3, SplitSnoc
  <2>5. Cut(Append(front, r), p[k]) = Append(front, Append(r, p[k]))
    BY <2>1, CutGives
  <2>6. QED
    BY <2>1, <2>2, <2>3, <2>4, <2>5
<1>5. n \in S
  <2> HIDE DEF S
  <2> QED
    BY <1>1, <1>3, <1>4, StepsReach
<1>6. QED
  BY <1>2, <1>5

\* Texts without slashes, joined and cut again, are the same texts.
LEMMA SplitJoin ==
    ASSUME NEW C, "/" \in C, NEW texts \in Seq(Plain(C)) \ {<<>>}
    PROVE  Split(Join(texts)) = texts
<1> DEFINE n == Len(Tail(texts))
           Upto(k) == SubSeq(texts, 1, k + 1)
<1>1. \A t \in Plain(C) : t \in Seq(C)
  BY DEF Plain
<1>2. texts \in Seq(Seq(C)) \ {<<>>}
  BY <1>1
<1>3. /\ n \in Nat /\ Len(texts) = n + 1 /\ Head(texts) = texts[1]
      /\ \A k \in 1..n : Tail(texts)[k] = texts[k + 1]
  BY <1>2
<1>4. PICK f \in [0..n -> Seq(C)] :
        /\ f[0] = Head(texts)
        /\ \A k \in 1..n : f[k] = Joined(f[k - 1], Tail(texts)[k])
        /\ Join(texts) = f[n]
  BY <1>2, JoinedStates
<1> HIDE DEF n
<1>5. \A k \in 0..n : /\ k + 1 \in 1..n + 1 /\ texts[k + 1] \in Plain(C)
                      /\ Upto(k) \in Seq(Seq(C))
  BY <1>2, <1>3
<1>6. /\ 0 \in 0..n /\ n \in 0..n
      /\ \A k \in 1..n : k \in 0..n /\ k - 1 \in 0..n /\ (k - 1) + 1 = k
  BY <1>3
<1> DEFINE S == {k \in 0..n : Split(f[k]) = Upto(k)}
<1>7. 0 \in S
  <2>1. Split(<<>>) = Append(<<>>, <<>>)
    BY SplitNone
  <2>2. PICK p \in Plain(C) : p = texts[1] /\ f[0] = p
    BY <1>3, <1>4, <1>5, <1>6
  <2>3. <<>> \in Seq(C) /\ <<>> \in Seq(Seq(C))
    OBVIOUS
  <2>4. Split(<<>> \o p) = Append(<<>>, p)
    BY <2>1, <2>3, SplitPlain
  <2>5. <<>> \o p = p /\ Append(<<>>, p) = <<p>>
    BY <1>1
  <2>6. Upto(0) = <<p>>
    <3> DEFINE one == SubSeq(texts, 1, 1)
    <3>1. one \in Seq(Seq(C)) /\ Len(one) = 1 /\ one[1] = texts[1]
      BY <1>2, <1>3
    <3> HIDE DEF one
    <3>2. one = [i \in 1..1 |-> one[i]] /\ <<p>> = [i \in 1..1 |-> <<p>>[i]]
      BY <3>1
    <3>3. \A i \in 1..1 : one[i] = <<p>>[i]
      BY <2>2, <3>1
    <3>4. one = <<p>>
      BY <3>2, <3>3
    <3>5. 0 + 1 = 1
      OBVIOUS
    <3>6. QED
      BY <3>4, <3>5, Zenon DEF one
  <2>7. QED
    BY <2>2, <2>4, <2>5, <2>6, <1>6
<1>8. ASSUME NEW k \in 1..n, k - 1 \in S PROVE k \in S
  <2>1. PICK t \in Seq(C), p \in Plain(C), front \in Seq(Seq(C)) :
          /\ t = f[k - 1] /\ p = texts[k + 1] /\ front = Upto(k - 1)
          /\ Split(t) = front /\ f[k] = Joined(t, p)
    <3>1. k - 1 \in 0..n /\ k \in 0..n /\ Split(f[k - 1]) = Upto(k - 1)
      BY <1>6, <1>8
    <3>2. f[k - 1] \in Seq(C) /\ f[k] = Joined(f[k - 1], texts[k + 1])
      BY <1>3, <1>4, <3>1
    <3>3. texts[k + 1] \in Plain(C) /\ Upto(k - 1) \in Seq(Seq(C))
      BY <1>5, <3>1
    <3> HIDE DEF Upto
    <3>4. QED
      BY <3>1, <3>2, <3>3
  <2>2. Append(t, "/") \in Seq(C) /\ p \in Seq(C)
    BY <1>1
  <2>3. Split(Append(t, "/")) = Append(front, <<>>)
    <3>1. Split(Append(t, "/")) = Cut(front, "/")
      BY <2>1, SplitSnoc
    <3>2. <<>> \in Seq(C)
      OBVIOUS
    <3>3. Cut(front, "/") = Append(front, <<>>)
      BY <3>2, CutGives
    <3>4. QED
      BY <3>1, <3>3
  <2>4. Split(Append(t, "/") \o p) = Append(front, p)
    BY <2>2, <2>3, SplitPlain
  <2>5. Joined(t, p) = Append(t, "/") \o p
    <3>1. Append(t, "/") = t \o <<"/">>
      OBVIOUS
    <3>2. QED
      BY <3>1 DEF Joined
  <2>6. Upto(k) = Append(front, p)
    <3>1. k \in 1..n /\ n \in Nat /\ Len(texts) = n + 1
      BY <1>3
    <3>2. SubSeq(texts, 1, k + 1) = Append(SubSeq(texts, 1, k), texts[k + 1])
      BY <1>2, <3>1
    <3>3. QED
      BY <2>1, <3>2, <1>6
  <2>7. Split(f[k]) = Upto(k) /\ k \in 0..n
    BY <2>1, <2>4, <2>5, <2>6, <1>6
  <2>8. QED
    BY <2>7
<1>9. n \in S
  <2> HIDE DEF S
  <2> QED
    BY <1>3, <1>6, <1>7, <1>8, StepsReach
<1>10. SubSeq(texts, 1, n + 1) = texts
  BY <1>2, <1>3
<1>11. QED
  BY <1>4, <1>9, <1>10

\* The characters of written paths.  A fragment written and parsed is the same.
Chars == Reserved \cup NameChars \cup {"#", "/"}

LEMMA FragmentBack ==
    ASSUME NEW f \in PathFragment
    PROVE  /\ FragmentText(f) \in Plain(Chars)
           /\ ParseFragment(FragmentText(f)) = f /\ f # Bad
<1> USE TextAssumption
<1>1. CASE f \in [is : {"reserved"}, word : Reserved]
  <2>1. /\ f = [is |-> "reserved", word |-> f.word] /\ f.is = "reserved"
        /\ f.word \in Reserved /\ f.word \in Chars \ {"/"}
    BY <1>1 DEF Chars
  <2>2. FragmentText(f) = <<f.word>>
    BY <2>1 DEF FragmentText
  <2>3. <<f.word>> \in Seq(Chars \ {"/"}) /\ Len(<<f.word>>) = 1 /\ <<f.word>>[1] = f.word
    BY <2>1
  <2>4. ParseFragment(<<f.word>>) = Reserve(f.word)
    BY <2>1, <2>3 DEF ParseFragment
  <2>5. f # Bad
    BY <2>1 DEF Bad
  <2>6. QED
    BY <2>1, <2>2, <2>3, <2>4, <2>5 DEF Plain, Reserve
<1>2. CASE f \in [is : {"branch"}, n : Numerals]
  <2>1. /\ f = [is |-> "branch", n |-> f.n] /\ f.is = "branch"
        /\ f.n \in Numerals /\ f.n \in Chars \ {"/"} /\ "#" \in Chars \ {"/"}
    BY <1>2 DEF Chars, NameChars
  <2> DEFINE text == <<"#", f.n>>
  <2>2. FragmentText(f) = text
    BY <2>1 DEF FragmentText
  <2>3. /\ text \in Seq(Chars \ {"/"}) /\ Len(text) = 2 /\ text # <<>>
        /\ text[1] = "#" /\ text[2] = f.n
    BY <2>1
  <2> HIDE DEF text
  <2>4. ParseFragment(text) = Branch(f.n)
    BY <2>1, <2>3 DEF ParseFragment
  <2>5. f # Bad
    BY <2>1 DEF Bad
  <2>6. QED
    BY <2>1, <2>2, <2>3, <2>4, <2>5 DEF Plain, Branch
<1>3. CASE f \in [is : {"named"}, name : Seq(NameChars)]
  <2>1. f = [is |-> "named", name |-> f.name] /\ f.is = "named" /\ f.name \in Seq(NameChars)
    BY <1>3
  <2>2. FragmentText(f) = f.name
    BY <2>1 DEF FragmentText
  <2>3. \A i \in DOMAIN f.name : /\ f.name[i] \in NameChars
                                 /\ f.name[i] \notin Reserved /\ f.name[i] # "#"
    BY <2>1
  <2>4. Len(f.name) = 1 \/ f.name # <<>> => 1 \in DOMAIN f.name
    BY <2>1
  <2>5. ParseFragment(f.name) = Named(f.name)
    BY <2>3, <2>4 DEF ParseFragment, IsNameChar
  <2>6. f.name \in Seq(Chars \ {"/"})
    <3>1. NameChars \subseteq Chars \ {"/"}
      BY DEF Chars
    <3>2. QED
      BY <2>1, <3>1
  <2>7. f # Bad
    BY <2>1 DEF Bad
  <2>8. QED
    BY <2>1, <2>2, <2>5, <2>6, <2>7 DEF Plain, Named
<1>4. QED
  BY <1>1, <1>2, <1>3 DEF PathFragment

\* So is a path of them.
LEMMA PathBack ==
    ASSUME NEW fs \in Seq(PathFragment) \ {<<>>}
    PROVE  ParsePath(PathText(ReversePathOf(fs))) = [is |-> "path", path |-> ReversePathOf(fs)]
<1> DEFINE path == ReversePathOf(fs)
           n == Len(fs)
           texts == [i \in 1..n |-> FragmentText(fs[i])]
<1>1. /\ n \in Nat /\ n # 0 /\ DOMAIN fs = 1..n /\ fs = [i \in 1..n |-> fs[i]]
      /\ \A i \in 1..n : fs[i] \in PathFragment
  OBVIOUS
<1>2. path \in Seq(PathFragment) /\ Reverse(path) = fs
  BY ReversedTwice
<1>3. DOMAIN path = 1..n
  <2>1. PICK p \in Seq(PathFragment) : p = path /\ Reverse(p) = fs
    BY <1>2
  <2>2. Len(Reverse(p)) = Len(p) /\ DOMAIN p = 1..Len(p)
    BY DEF Reverse
  <2>3. QED
    BY <2>1, <2>2
<1> HIDE DEF path
<1>4. PathText(path) = Join(texts)
  BY <1>2, <1>3 DEF PathText, Iter
<1>5. texts \in Seq(Plain(Chars)) \ {<<>>}
  <2>1. \A i \in 1..n : FragmentText(fs[i]) \in Plain(Chars)
    BY <1>1, FragmentBack
  <2> HIDE DEF n
  <2>2. Len(texts) = n /\ texts \in Seq(Plain(Chars))
    BY <1>1, <2>1
  <2>3. Len(<<>>) = 0
    OBVIOUS
  <2>4. QED
    BY <1>1, <2>2, <2>3
<1>6. Split(PathText(path)) = texts
  <2>1. "/" \in Chars
    BY DEF Chars
  <2> HIDE DEF texts
  <2>2. QED
    BY <1>4, <1>5, <2>1, SplitJoin
<1> DEFINE fragments == [k \in DOMAIN Split(PathText(path)) |->
                           ParseFragment(Split(PathText(path))[k])]
<1>7. fragments = fs
  <2>1. DOMAIN texts = 1..n /\ \A k \in 1..n : texts[k] = FragmentText(fs[k])
    OBVIOUS
  <2>2. \A k \in 1..n : ParseFragment(FragmentText(fs[k])) = fs[k]
    BY <1>1, FragmentBack
  <2>3. fragments = [k \in 1..n |-> ParseFragment(texts[k])]
    BY <1>6, <2>1
  <2> HIDE DEF texts, n, fragments
  <2>4. QED
    BY <1>1, <2>1, <2>2, <2>3
<1>8. ~ \E k \in DOMAIN fs : fs[k] = Bad
  BY <1>1, FragmentBack
<1>9. ParsePath(PathText(path)) =
        IF \E k \in DOMAIN fragments : fragments[k] = Bad THEN Bad
        ELSE [is |-> "path", path |-> ReversePathOf(fragments)]
  BY DEF ParsePath
<1> HIDE DEF fragments
<1>10. QED
  BY <1>7, <1>8, <1>9 DEF path

\* Whatever is parsed as a path is a path of fragments.
LEMMA ParsedPath ==
    ASSUME NEW C, NEW text \in Seq(C), ParsePath(text) # Bad
    PROVE  \E fs \in Seq(PathFragment) \ {<<>>} :
             ParsePath(text) = [is |-> "path", path |-> ReversePathOf(fs)]
<1> DEFINE pieces == Split(text)
           fs == [k \in DOMAIN pieces |-> ParseFragment(pieces[k])]
<1>1. pieces \in Seq(Seq(C)) \ {<<>>}
  <2>1. CASE text = <<>>
    <3>1. <<>> \in Seq(C)
      OBVIOUS
    <3>2. <<<<>>>> \in Seq(Seq(C)) /\ <<<<>>>> # <<>>
      BY <3>1
    <3>3. <<<<>>>> \in Seq(Seq(C)) \ {<<>>}
      BY <3>2, Zenon
    <3>4. QED
      BY <2>1, <3>3, SplitNone
  <2>2. CASE text # <<>>
    <3>1. text[1] \in C
      BY <2>2
    <3>2. QED
      BY <3>1, SplitSnoc DEF Pieces
  <2>3. QED
    BY <2>1, <2>2
<1>2. /\ ~ \E k \in DOMAIN fs : fs[k] = Bad
      /\ ParsePath(text) = [is |-> "path", path |-> ReversePathOf(fs)]
  BY DEF ParsePath
<1> HIDE DEF pieces
<1>3. ASSUME NEW t \in Seq(C) PROVE ParseFragment(t) \in PathFragment \cup {Bad}
  <2>1. CASE Len(t) = 1 /\ t[1] \in Reserved
    <3>1. ParseFragment(t) = [is |-> "reserved", word |-> t[1]]
      BY <2>1 DEF ParseFragment, Reserve
    <3>2. QED
      BY <2>1, <3>1 DEF PathFragment
  <2>2. CASE Len(t) = 2 /\ t[1] = "#" /\ t[2] \in Numerals
    <3>1. ~ (Len(t) = 1 /\ t[1] \in Reserved) /\ t # <<>>
      BY <2>2
    <3>2. ParseFragment(t) = [is |-> "branch", n |-> t[2]]
      BY <2>2, <3>1 DEF ParseFragment, Branch
    <3>3. QED
      BY <2>2, <3>2 DEF PathFragment
  <2>3. CASE \A i \in DOMAIN t : IsNameChar(t[i])
    <3>1. t \in Seq(NameChars)
      BY <2>3 DEF IsNameChar
    <3>2. ~ (Len(t) = 1 /\ t[1] \in Reserved) /\ ~ (t # <<>> /\ t[1] = "#")
      BY <3>1, TextAssumption
    <3>3. ParseFragment(t) = [is |-> "named", name |-> t]
      BY <2>3, <3>2 DEF ParseFragment, Named
    <3>4. QED
      BY <3>1, <3>3 DEF PathFragment
  <2>4. QED
    BY <2>1, <2>2, <2>3 DEF ParseFragment
<1>4. fs \in Seq(PathFragment) \ {<<>>}
  <2> DEFINE m == Len(pieces)
  <2>1. /\ m \in Nat /\ m # 0 /\ DOMAIN pieces = 1..m
        /\ \A k \in 1..m : pieces[k] \in Seq(C)
    BY <1>1
  <2>2. \A k \in 1..m : ParseFragment(pieces[k]) \in PathFragment
    BY <1>2, <1>3, <2>1
  <2>3. fs = [k \in 1..m |-> ParseFragment(pieces[k])]
    BY <2>1
  <2> HIDE DEF m
  <2>4. [k \in 1..m |-> ParseFragment(pieces[k])] \in Seq(PathFragment)
    BY <2>1, <2>2
  <2>5. Len([k \in 1..m |-> ParseFragment(pieces[k])]) = m /\ Len(<<>>) = 0
    BY <2>1
  <2>6. QED
    BY <2>1, <2>3, <2>4, <2>5
<1>5. QED
  BY <1>2, <1>4

\* A file that loads has the network it loads active and no other.
LEMMA OneActive ==
    ASSUME NEW file \in [Networks -> Entries], Load(file).ok
    PROVE  /\ Load(file).network \in Networks
           /\ Load(file).active = "active"
           /\ \A n \in Networks : n # Load(file).network => file[n] = "absent"
           /\ file[Load(file).network] = "active"
           /\ Load(file) = [ok |-> TRUE, network |-> Load(file).network, active |-> "active"]
<1> DEFINE product == GetN(file)
           network == GetNetwork(file)
<1>1. network \in Networks /\ Load(file) = [ok |-> TRUE, network |-> network, active |-> file[network]]
  BY DEF Load
<1>2. /\ Prime["bitcoin"] = 3 /\ Prime["signet"] = 5
      /\ Prime["regtest"] = 7 /\ Prime["testnet"] = 11
  BY DEF Prime
<1>3. Prime[network] = product
  <2>1. network \notin {"NoActiveConfig", "TooManyActiveNetworks"}
    BY <1>1 DEF Networks
  <2>2. network = CHOOSE n \in Networks : Prime[n] = product
    BY <2>1 DEF GetNetwork
  <2>3. \E n \in Networks : Prime[n] = product
    BY <2>1 DEF GetNetwork
  <2>4. QED
    BY <2>2, <2>3
<1> HIDE DEF network, product
<1> DEFINE a == Factor(file, "bitcoin")
           b == Factor(file, "signet")
           c == Factor(file, "regtest")
           d == Factor(file, "testnet")
<1>4. product = a * b * c * d
  BY DEF product, GetN
<1>5. \A n \in Networks :
        \/ file[n] = "absent" /\ Factor(file, n) = 1
        \/ file[n] = "inactive" /\ Factor(file, n) = 0
        \/ file[n] = "active" /\ Factor(file, n) = Prime[n]
  BY DEF Factor, Entries
<1>6. /\ a \in {0, 1, 3} /\ b \in {0, 1, 5} /\ c \in {0, 1, 7} /\ d \in {0, 1, 11}
  BY <1>2, <1>5 DEF Networks
<1> HIDE DEF a, b, c, d
<1>7. a * b \in {0, 1, 3, 5, 15}
  BY <1>6
<1>8. (a * b) * c \in {0, 1, 3, 5, 15, 7, 21, 35, 105}
  BY <1>6, <1>7
<1>9. /\ product = 3 => a = 3 /\ b = 1 /\ c = 1 /\ d = 1
      /\ product = 5 => a = 1 /\ b = 5 /\ c = 1 /\ d = 1
      /\ product = 7 => a = 1 /\ b = 1 /\ c = 7 /\ d = 1
      /\ product = 11 => a = 1 /\ b = 1 /\ c = 1 /\ d = 11
  <2>1. /\ product = 3 => a * b * c = 3 /\ d = 1
        /\ product = 5 => a * b * c = 5 /\ d = 1
        /\ product = 7 => a * b * c = 7 /\ d = 1
        /\ product = 11 => a * b * c = 1 /\ d = 11
    BY <1>4, <1>6, <1>8
  <2>2. /\ a * b * c = 3 => a * b = 3 /\ c = 1
        /\ a * b * c = 5 => a * b = 5 /\ c = 1
        /\ a * b * c = 7 => a * b = 1 /\ c = 7
        /\ a * b * c = 1 => a * b = 1 /\ c = 1
    BY <1>6, <1>7
  <2>3. /\ a * b = 3 => a = 3 /\ b = 1
        /\ a * b = 5 => a = 1 /\ b = 5
        /\ a * b = 1 => a = 1 /\ b = 1
    BY <1>6
  <2>4. QED
    BY <2>1, <2>2, <2>3
<1>10. \A n \in Networks : IF n = network THEN file[n] = "active" ELSE file[n] = "absent"
  <2>1. \A n \in Networks : /\ Factor(file, n) = 1 => file[n] = "absent"
                            /\ Factor(file, n) \notin {0, 1} => file[n] = "active"
    <3>1. \A n \in Networks : Prime[n] # 1
      BY <1>2 DEF Networks
    <3>2. QED
      BY <1>5, <3>1
  <2>2. CASE network = "bitcoin"
    BY <2>1, <2>2, <1>2, <1>3, <1>9 DEF Networks, a, b, c, d
  <2>3. CASE network = "signet"
    BY <2>1, <2>3, <1>2, <1>3, <1>9 DEF Networks, a, b, c, d
  <2>4. CASE network = "regtest"
    BY <2>1, <2>4, <1>2, <1>3, <1>9 DEF Networks, a, b, c, d
  <2>5. CASE network = "testnet"
    BY <2>1, <2>5, <1>2, <1>3, <1>9 DEF Networks, a, b, c, d
  <2>6. QED
    BY <1>1, <2>2, <2>3, <2>4, <2>5 DEF Networks
<1>11. file[network] = "active" /\ \A n \in Networks : n # network => file[n] = "absent"
  BY <1>1, <1>10
<1>12. Load(file) = [ok |-> TRUE, network |-> network, active |-> "active"]
  BY <1>1, <1>11
<1>13. Load(file).network = network /\ Load(file).active = "active"
  BY <1>12
<1>14. QED
  BY <1>1, <1>11, <1>12, <1>13

(***************************************************************************)
(* For any path, any text and any configuration: a path written into a     *)
(* contract's JSON is read back as itself, a text that is read as a path   *)
(* is that path again when it is written and read, a file that loads names *)
(* its only active network, and it is the same saved and loaded again.     *)
(***************************************************************************)
THEOREM WrittenIsReadBackHolds == Spec => []WrittenIsReadBack
<1>1. ASSUME AnswersComputed PROVE WrittenIsReadBack
  <2>1. ASSUME Answered("path")
        PROVE  answer.value = [is |-> "path", path |-> ReversePathOf(task.fragments)]
    <3>1. answer.value = ParsePath(PathText(ReversePathOf(task.fragments)))
      BY <1>1, <2>1 DEF AnswersComputed
    <3>2. task \in Tasks /\ task.kind = "path"
      BY <1>1, <2>1 DEF AnswersComputed, Answered
    <3>3. task.fragments \in Seq(PathFragment) \ {<<>>}
      BY <3>2, TaskAssumption, Zenon
    <3>4. QED
      BY <3>1, <3>3, PathBack
  <2>2. ASSUME Answered("text"), answer.value # Bad
        PROVE  ParsePath(PathText(answer.value.path)) = answer.value
    <3>1. answer.value = ParsePath(task.text)
      BY <1>1, <2>2 DEF AnswersComputed
    <3>2. task \in Tasks /\ task.kind = "text"
      BY <1>1, <2>2 DEF AnswersComputed, Answered
    <3>3. task.text \in Seq(STRING)
      BY <3>2, TaskAssumption, Zenon
    <3>4. PICK fs \in Seq(PathFragment) \ {<<>>} :
            answer.value = [is |-> "path", path |-> ReversePathOf(fs)]
      BY <2>2, <3>1, <3>3, ParsedPath
    <3>5. answer.value.path = ReversePathOf(fs)
      BY <3>4
    <3>6. QED
      BY <3>4, <3>5, PathBack
  <2>3. ASSUME Answered("config"), answer.value.ok
        PROVE  /\ {n \in Networks : task.file[n] = "active"} = {answer.value.network}
               /\ Load(Save(answer.value)) = answer.value
    <3>1. answer.value = Load(task.file)
      BY <1>1, <2>3 DEF AnswersComputed
    <3>2. task \in Tasks /\ task.kind = "config"
      BY <1>1, <2>3 DEF AnswersComputed, Answered
    <3>3. task.file \in [Networks -> Entries]
      BY <3>2, TaskAssumption, Zenon
    <3>4. /\ answer.value.network \in Networks /\ answer.value.active = "active"
          /\ \A n \in Networks : n # answer.value.network => task.file[n] = "absent"
          /\ task.file[answer.value.network] = "active"
      BY <2>3, <3>1, <3>3, OneActive
    <3>5. Save(answer.value) = task.file
      BY <3>3, <3>4 DEF Save
    <3>6. QED
      BY <3>1, <3>4, <3>5
  <2>4. QED
    BY <2>1, <2>2, <2>3, Zenon DEF WrittenIsReadBack
<1>2. QED
  BY <1>1, InitComputed, AnswersComputedInductive, PTL DEF Spec
-----------------------------------------------------------------------------
(* Sums over finite sets.  SumFunctionOnSet is a fold in an order nobody    *)
(* knows; these lemmas take it apart at any element.                        *)

\* s is the table of the sums of f over the subsets of S.
IsSumTable(s, f, S) ==
    /\ s \in [SUBSET S -> Int]
    /\ s[{}] = 0
    /\ \A t \in SUBSET S : \A x \in t : s[t] = f[x] + s[t \ {x}]

LEMMA SmallerByOne ==
    ASSUME NEW S, IsFiniteSet(S), NEW x \in S
    PROVE  Cardinality(S \ {x}) = Cardinality(S) - 1 /\ Cardinality(S) - 1 \in Nat
<1>1. Cardinality(S) \in Nat /\ Cardinality(S) # 0
  BY FS_CardinalityType, FS_EmptySet
<1>2. Cardinality(S \ {x}) = IF x \in S THEN Cardinality(S) - 1 ELSE Cardinality(S)
  BY FS_RemoveElement
<1>3. QED
  BY <1>1, <1>2

LEMMA SumTableExists ==
    ASSUME NEW S, IsFiniteSet(S), NEW f, \A x \in S : f[x] \in Int
    PROVE  \E s : IsSumTable(s, f, S)
<1> DEFINE Missing == {n \in Nat : \E U \in SUBSET S :
                         Cardinality(U) = n /\ ~ \E s : IsSumTable(s, f, U)}
<1>1. SUFFICES ASSUME Missing # {} PROVE FALSE
  BY FS_CardinalityType
<1>2. PICK n \in Missing : \A k \in Missing : n <= k
  <2> HIDE DEF Missing
  <2>1. Missing \in SUBSET Nat
    BY DEF Missing
  <2>2. QED
    BY <1>1, <2>1, LeastNat
<1>3. PICK U \in SUBSET S : Cardinality(U) = n /\ ~ \E s : IsSumTable(s, f, U)
  BY <1>2
<1>4. IsFiniteSet(U)
  BY FS_Subset
<1>5. U # {}
  <2>1. IsSumTable([t \in SUBSET {} |-> 0], f, {})
    BY DEF IsSumTable
  <2>2. QED
    BY <1>3, <2>1
<1>6. PICK a \in U : TRUE
  BY <1>5
<1> DEFINE V == U \ {a}
<1>7. Cardinality(V) = n - 1 /\ V \in SUBSET S /\ n - 1 \in Nat
  BY <1>3, <1>4, <1>6, SmallerByOne
<1>8. PICK s : IsSumTable(s, f, V)
  BY <1>2, <1>7
<1> DEFINE g == [t \in SUBSET U |-> IF a \in t THEN f[a] + s[t \ {a}] ELSE s[t]]
<1>9. \A t \in SUBSET U : t \ {a} \in SUBSET V /\ (a \notin t => t \in SUBSET V)
  OBVIOUS
<1>10. \A t \in SUBSET V : s[t] \in Int
  BY <1>8 DEF IsSumTable
<1>11. f[a] \in Int /\ \A x \in U : f[x] \in Int
  BY <1>3, <1>6
<1>12. g \in [SUBSET U -> Int] /\ g[{}] = 0
  <2>1. \A t \in SUBSET U : g[t] \in Int
    BY <1>9, <1>10, <1>11
  <2>2. g[{}] = s[{}]
    OBVIOUS
  <2>3. QED
    BY <2>1, <2>2, <1>8 DEF IsSumTable
<1>13. ASSUME NEW t \in SUBSET U, NEW x \in t PROVE g[t] = f[x] + g[t \ {x}]
  <2>1. CASE x = a
    <3>1. g[t] = f[a] + s[t \ {a}] /\ g[t \ {x}] = s[t \ {a}]
      BY <2>1
    <3>2. QED
      BY <2>1, <3>1
  <2>2. CASE x # a /\ a \in t
    <3>1. g[t] = f[a] + s[t \ {a}] /\ g[t \ {x}] = f[a] + s[(t \ {x}) \ {a}]
      BY <2>2
    <3>2. (t \ {x}) \ {a} = (t \ {a}) \ {x} /\ x \in t \ {a} /\ t \ {a} \in SUBSET V
      BY <2>2
    <3>3. s[t \ {a}] = f[x] + s[(t \ {a}) \ {x}]
      BY <3>2, <1>8 DEF IsSumTable
    <3>4. f[x] \in Int /\ s[(t \ {a}) \ {x}] \in Int
      BY <1>10, <1>11, <3>2
    <3>5. g[t \ {x}] = f[a] + s[(t \ {a}) \ {x}]
      BY <3>1, <3>2, Zenon
    <3> HIDE DEF g
    <3>6. QED
      BY <3>1, <3>3, <3>4, <3>5, <1>11
  <2>3. CASE a \notin t
    <3>1. g[t] = s[t] /\ g[t \ {x}] = s[t \ {x}] /\ t \in SUBSET V
      BY <2>3
    <3>2. \A u \in SUBSET V : \A y \in u : s[u] = f[y] + s[u \ {y}]
      BY <1>8 DEF IsSumTable
    <3>3. s[t] = f[x] + s[t \ {x}]
      BY <3>1, <3>2, Zenon
    <3>4. QED
      BY <3>1, <3>3
  <2>4. QED
    BY <2>1, <2>2, <2>3
<1>14. IsSumTable(g, f, U)
  <2> HIDE DEF g
  <2>1. QED
    BY <1>12, <1>13, Zenon DEF IsSumTable
<1>15. QED
  BY <1>3, <1>14

\* The fold computes the table's entry for the whole set.
LEMMA SumIsEntry ==
    ASSUME NEW S, IsFiniteSet(S), NEW f, NEW s, IsSumTable(s, f, S)
    PROVE  SumFunctionOnSet(f, S) = s[S]
<1> DEFINE Rec(g) == [t \in SUBSET S |-> IF t = {} THEN 0
                        ELSE f[CHOOSE x \in t : TRUE] + g[t \ {CHOOSE x \in t : TRUE}]]
           r == CHOOSE g : g = Rec(g)
<1>1. SumFunctionOnSet(f, S) = r[S]
  BY DEF SumFunctionOnSet, FoldFunctionOnSet, MapThenFoldSet
<1>2. s = Rec(s)
  <2>1. ASSUME NEW t \in SUBSET S PROVE s[t] = Rec(s)[t]
    <3>1. CASE t = {}
      BY <3>1 DEF IsSumTable
    <3>2. CASE t # {}
      <4>1. (CHOOSE x \in t : TRUE) \in t
        BY <3>2
      <4>2. QED
        BY <3>2, <4>1 DEF IsSumTable
    <3>3. QED
      BY <3>1, <3>2
  <2>2. s = [t \in SUBSET S |-> s[t]]
    BY DEF IsSumTable
  <2>3. QED
    BY <2>1, <2>2
<1>3. r = Rec(r)
  BY <1>2
<1> DEFINE Wrong == {n \in Nat : \E t \in SUBSET S : Cardinality(t) = n /\ r[t] # s[t]}
<1>4. Wrong = {}
  <2>1. SUFFICES ASSUME Wrong # {} PROVE FALSE
    OBVIOUS
  <2>2. PICK n \in Wrong : \A k \in Wrong : n <= k
    <3> HIDE DEF Wrong, r
    <3>1. Wrong \in SUBSET Nat
      BY DEF Wrong
    <3>2. QED
      BY <2>1, <3>1, LeastNat
  <2>3. PICK t \in SUBSET S : Cardinality(t) = n /\ r[t] # s[t]
    BY <2>2
  <2> HIDE DEF r
  <2>4. IsFiniteSet(t)
    BY FS_Subset
  <2>5. t # {}
    BY <2>3, <1>2, <1>3
  <2> DEFINE x == CHOOSE y \in t : TRUE
  <2>6. x \in t
    BY <2>5
  <2>7. Cardinality(t \ {x}) = n - 1 /\ n - 1 \in Nat
    BY <2>3, <2>4, <2>6, SmallerByOne
  <2>8. r[t \ {x}] = s[t \ {x}]
    BY <2>2, <2>7
  <2>9. r[t] = f[x] + r[t \ {x}]
    BY <1>3, <2>5
  <2>10. s[t] = f[x] + s[t \ {x}]
    BY <1>2, <2>5
  <2>11. QED
    BY <2>3, <2>8, <2>9, <2>10
<1>5. QED
  <2> HIDE DEF r
  <2>1. Cardinality(S) \in Nat /\ S \in SUBSET S
    BY FS_CardinalityType
  <2>2. QED
    BY <1>1, <1>4, <2>1

\* A sum is an integer, nothing for the empty set, and one element more adds
\* its number; it depends on the numbers only.
LEMMA SumEmpty == ASSUME NEW f PROVE SumFunctionOnSet(f, {}) = 0
<1>1. IsSumTable([t \in SUBSET {} |-> 0], f, {})
  BY DEF IsSumTable
<1>2. QED
  BY <1>1, SumIsEntry, FS_EmptySet

\* f is summed over one element more than g, and is as g on the others.
OneMore(f, g, S, x) ==
    /\ IsFiniteSet(S) /\ x \notin S
    /\ \A y \in S \cup {x} : f[y] \in Int
    /\ \A y \in S : g[y] = f[y]

LEMMA OneMoreAdds ==
    ASSUME NEW f, NEW g, NEW S, NEW x, OneMore(f, g, S, x)
    PROVE  /\ SumFunctionOnSet(f, S \cup {x}) = f[x] + SumFunctionOnSet(g, S)
           /\ SumFunctionOnSet(g, S) \in Int
<1>0. /\ IsFiniteSet(S) /\ x \notin S
      /\ \A y \in S \cup {x} : f[y] \in Int
      /\ \A y \in S : g[y] = f[y]
  BY DEF OneMore
<1> USE <1>0
<1> DEFINE T == S \cup {x}
<1>1. IsFiniteSet(T)
  BY FS_AddElement
<1>2. PICK s : IsSumTable(s, f, T)
  BY <1>1, SumTableExists
<1>3. SumFunctionOnSet(f, T) = s[T]
  BY <1>1, <1>2, SumIsEntry
<1> DEFINE r == [t \in SUBSET S |-> s[t]]
<1>4. IsSumTable(r, g, S)
  <2>1. \A t \in SUBSET S : t \in SUBSET T
    OBVIOUS
  <2>2. r \in [SUBSET S -> Int] /\ r[{}] = 0
    BY <1>2, <2>1 DEF IsSumTable
  <2>3. ASSUME NEW t \in SUBSET S, NEW y \in t PROVE r[t] = g[y] + r[t \ {y}]
    BY <1>2, <2>1 DEF IsSumTable
  <2>4. QED
    BY <2>2, <2>3, Zenon DEF IsSumTable
<1>5. SumFunctionOnSet(g, S) = s[S]
  BY <1>4, SumIsEntry
<1>6. s[T] = f[x] + s[T \ {x}] /\ T \ {x} = S /\ s[S] \in Int
  BY <1>2 DEF IsSumTable
<1>7. QED
  BY <1>3, <1>5, <1>6

\* Sums over the first places of a sequence.
OneLonger(f, g, k) ==
    /\ k \in Nat \ {0} /\ DOMAIN f = 1..k /\ DOMAIN g = 1..(k - 1)
    /\ \A j \in 1..k : f[j] \in Int
    /\ \A j \in 1..(k - 1) : g[j] = f[j]

LEMMA SumOneLonger ==
    ASSUME NEW f, NEW g, NEW k, OneLonger(f, g, k)
    PROVE  SumFunction(f) = f[k] + SumFunction(g) /\ SumFunction(g) \in Int
<1>1. PICK S : S = 1..(k - 1)
  OBVIOUS
<1>2. k \in Nat \ {0} /\ 1..k = S \cup {k} /\ k \notin S
  BY <1>1 DEF OneLonger
<1>3. IsFiniteSet(S)
  BY <1>1, <1>2, FS_Interval
<1>4. /\ \A y \in S \cup {k} : f[y] \in Int
      /\ \A y \in S : g[y] = f[y]
  BY <1>1, <1>2 DEF OneLonger
<1>5. OneMore(f, g, S, k)
  BY <1>2, <1>3, <1>4 DEF OneMore
<1>6. /\ SumFunctionOnSet(f, S \cup {k}) = f[k] + SumFunctionOnSet(g, S)
      /\ SumFunctionOnSet(g, S) \in Int
  BY <1>5, OneMoreAdds
<1>7. SumFunction(f) = SumFunctionOnSet(f, S \cup {k}) /\ SumFunction(g) = SumFunctionOnSet(g, S)
  BY <1>1, <1>2 DEF SumFunction, OneLonger
<1>8. QED
  BY <1>6, <1>7

LEMMA SumOfNone == ASSUME NEW g, DOMAIN g = {} PROVE SumFunction(g) = 0
BY SumEmpty DEF SumFunction

-----------------------------------------------------------------------------
(* The sale of an ordinal.                                                  *)

\* The sats of the first k ranges of a coin.
Before(ranges, k) == SumFunction([j \in 1..k |-> Width(ranges[j])])

LEMMA BeforeGrows ==
    ASSUME NEW ranges, OfACoin(ranges), NEW k \in 1..Len(ranges)
    PROVE  /\ Before(ranges, k) = Before(ranges, k - 1) + Width(ranges[k])
           /\ Width(ranges[k]) \in Nat
<1>1. \A j \in 1..Len(ranges) : Width(ranges[j]) \in Nat
  BY DEF OfACoin, Width
<1>2. PICK f : f = [j \in 1..k |-> Width(ranges[j])]
  OBVIOUS
<1>3. PICK g : g = [j \in 1..(k - 1) |-> Width(ranges[j])]
  OBVIOUS
<1>4. \A j \in 1..k : j \in 1..Len(ranges)
  BY DEF OfACoin
<1>5. OneLonger(f, g, k)
  BY <1>1, <1>2, <1>3, <1>4 DEF OneLonger
<1>6. SumFunction(f) = f[k] + SumFunction(g) /\ SumFunction(g) \in Int
  BY <1>5, SumOneLonger
<1>7. Before(ranges, k) = SumFunction(f) /\ Before(ranges, k - 1) = SumFunction(g)
  BY <1>2, <1>3 DEF Before
<1>8. f[k] = Width(ranges[k])
  BY <1>2
<1>9. QED
  BY <1>1, <1>6, <1>7, <1>8

LEMMA BeforeNone == ASSUME NEW ranges PROVE Before(ranges, 0) = 0
<1>1. DOMAIN [j \in 1..0 |-> Width(ranges[j])] = {}
  OBVIOUS
<1>2. QED
  BY <1>1, SumOfNone DEF Before

Seeking == [found : BOOLEAN, index : Int]
IndexStep(ord, s, r) ==
    IF s.found THEN s
    ELSE IF r[1] <= ord /\ ord < r[2]
    THEN [found |-> TRUE, index |-> s.index + ord - r[1]]
    ELSE [s EXCEPT !.index = @ + Width(r)]

LEMMA IndexStepType ==
    ASSUME NEW ord \in Nat, NEW s \in Seeking, NEW r \in Nat \X Nat
    PROVE  IndexStep(ord, s, r) \in Seeking
BY DEF IndexStep, Seeking, Width

\* The states of the search for an ordinal, from none of the ranges to all.
LEMMA IndexStates ==
    ASSUME NEW ord \in Nat, NEW ranges \in Seq(Nat \X Nat)
    PROVE  \E f \in [0..Len(ranges) -> Seeking] :
             /\ f[0] = [found |-> FALSE, index |-> 0]
             /\ \A k \in 1..Len(ranges) : f[k] = IndexStep(ord, f[k - 1], ranges[k])
             /\ IndexOf(ranges, ord) = f[Len(ranges)]
<1> DEFINE n == Len(ranges)
           base == [found |-> FALSE, index |-> 0]
           op == [p \in (Seeking) \X (Nat \X Nat) |-> IndexStep(ord, p[1], p[2])]
           Rec(t) == [s \in SUBSET (1..n) |-> IF s = {} THEN base
                        ELSE IndexStep(ord, t[s \ {Max(s)}], ranges[Max(s)])]
           iter == CHOOSE t : t = Rec(t)
<1>1. n \in Nat /\ n \in 0..n /\ DOMAIN ranges = 1..n /\ ranges \in [1..n -> Nat \X Nat]
  OBVIOUS
<1>2. IndexOf(ranges, ord) = iter[1..n]
  BY <1>1 DEF IndexOf, FoldLeft, MapThenFoldSet, IndexStep
<1>3. base \in Seeking
  BY DEF Seeking
<1>4. op \in [(Seeking) \X (Nat \X Nat) -> Seeking]
  BY IndexStepType
<1> HIDE DEF base, op
<1>5. PICK t \in [SUBSET (1..n) -> Seeking] : IsFoldTable(t, op, base, ranges, n)
  <2> HIDE DEF n
  <2>1. Folds(Seeking, Nat \X Nat, op, base, ranges, n)
    BY <1>1, <1>3, <1>4 DEF Folds
  <2>2. HasTable(Seeking, op, base, ranges, n)
    BY <2>1, FoldHasTable
  <2>3. QED
    BY <2>2 DEF HasTable
<1>6. \A s \in SUBSET (1..n) : s # {} =>
        op[<<t[s \ {Max(s)}], ranges[Max(s)]>>] = IndexStep(ord, t[s \ {Max(s)}], ranges[Max(s)])
  <2>1. SUFFICES ASSUME NEW s \in SUBSET (1..n), s # {}
                 PROVE  op[<<t[s \ {Max(s)}], ranges[Max(s)]>>] =
                          IndexStep(ord, t[s \ {Max(s)}], ranges[Max(s)])
    OBVIOUS
  <2>2. Max(s) \in 1..n /\ s \ {Max(s)} \in SUBSET (1..n)
    BY <1>1, <2>1, LastPlace
  <2>3. t[s \ {Max(s)}] \in Seeking /\ ranges[Max(s)] \in Nat \X Nat
    BY <2>2, <1>1
  <2>4. QED
    BY <2>3 DEF op
<1>7. t = Rec(t)
  <2>1. \A s \in SUBSET (1..n) : t[s] = Rec(t)[s]
    BY <1>5, <1>6 DEF IsFoldTable
  <2>2. QED
    BY <2>1
<1>8. iter = Rec(iter)
  BY <1>7
<1> HIDE DEF iter
<1>9. Follows(iter, t, Seeking, op, base, ranges, n)
  <2>1. iter[{}] = base
    BY <1>8
  <2>2. \A s \in SUBSET (1..n) :
          s # {} /\ iter[s \ {Max(s)}] = t[s \ {Max(s)}] => iter[s] = t[s]
    BY <1>7, <1>8
  <2>3. QED
    BY <2>1, <2>2, <1>1, <1>5 DEF Follows
<1> DEFINE f == RunOf(iter, n)
<1>10. IsRun(f, Seeking, op, base, ranges, n) /\ iter[1..n] = f[n]
  BY <1>9, FoldRun
<1> HIDE DEF f
<1>11. /\ f \in [0..n -> Seeking] /\ f[0] = base
       /\ \A k \in 1..n : f[k] = IndexStep(ord, f[k - 1], ranges[k])
  <2>1. \A k \in 1..n : f[k - 1] \in Seeking /\ ranges[k] \in Nat \X Nat
    <3>1. \A k \in 1..n : k - 1 \in 0..n
      BY <1>1
    <3>2. f \in [0..n -> Seeking]
      BY <1>10 DEF IsRun
    <3> HIDE DEF n
    <3>3. QED
      BY <3>1, <3>2, <1>1
  <2>2. QED
    BY <1>10, <2>1 DEF op, IsRun
<1>12. QED
  BY <1>2, <1>10, <1>11, Zenon DEF base

Holds(r, ord) == r[1] <= ord /\ ord < r[2]
AtIndex(ranges, ord, i, index) ==
    /\ i \in 1..Len(ranges) /\ Holds(ranges[i], ord)
    /\ Before(ranges, i - 1) \in Nat
    /\ index = Before(ranges, i - 1) + ord - ranges[i][1]

\* What is found is in one of the ranges, after all the sats of those before.
LEMMA IndexFound ==
    ASSUME NEW ord \in Nat, NEW ranges, OfACoin(ranges), IndexOf(ranges, ord).found
    PROVE  \E i : AtIndex(ranges, ord, i, IndexOf(ranges, ord).index)
<1> DEFINE n == Len(ranges)
<1>1. ranges \in Seq(Nat \X Nat) /\ n \in Nat
  BY DEF OfACoin
<1>2. PICK f \in [0..n -> Seeking] :
        /\ f[0] = [found |-> FALSE, index |-> 0]
        /\ \A k \in 1..n : f[k] = IndexStep(ord, f[k - 1], ranges[k])
        /\ IndexOf(ranges, ord) = f[n]
  BY <1>1, IndexStates
<1> DEFINE Good(k) == /\ Before(ranges, k) \in Nat
                      /\ ~f[k].found => f[k].index = Before(ranges, k)
                      /\ f[k].found => \E i : AtIndex(ranges, ord, i, f[k].index)
           S == {k \in 0..n : Good(k)}
<1>3. 0 \in S
  BY <1>1, <1>2, BeforeNone
<1>4. ASSUME NEW k \in 1..n, k - 1 \in S PROVE k \in S
  <2>1. Good(k - 1) /\ k \in 0..n /\ k - 1 \in 0..n
    BY <1>4
  <2>2. PICK s, r : s = f[k - 1] /\ r = ranges[k] /\ f[k] = IndexStep(ord, s, r)
    BY <1>2
  <2>3. s \in Seeking /\ r \in Nat \X Nat
    <3>1. s \in Seeking
      BY <2>1, <2>2
    <3>2. r \in Nat \X Nat
      BY <1>1, <2>2
    <3>3. QED
      BY <3>1, <3>2
  <2>4. Before(ranges, k) = Before(ranges, k - 1) + Width(r) /\ Width(r) \in Nat
    BY <1>1, <2>2, BeforeGrows
  <2>5. Before(ranges, k - 1) \in Nat /\ Before(ranges, k) \in Nat
    BY <2>1, <2>4
  <2>6. CASE s.found
    <3>1. f[k] = s
      BY <2>2, <2>6 DEF IndexStep
    <3>2. \E i : AtIndex(ranges, ord, i, s.index)
      BY <2>1, <2>2, <2>6
    <3>3. Good(k)
      BY <2>5, <2>6, <3>1, <3>2
    <3>4. QED
      BY <2>1, <3>3
  <2>7. CASE ~s.found /\ Holds(r, ord)
    <3>1. f[k] = [found |-> TRUE, index |-> s.index + ord - r[1]]
      BY <2>2, <2>7 DEF IndexStep, Holds
    <3>2. s.index = Before(ranges, k - 1)
      BY <2>1, <2>2, <2>7
    <3>3. AtIndex(ranges, ord, k, f[k].index)
      BY <2>2, <2>5, <2>7, <3>1, <3>2 DEF AtIndex
    <3>4. Good(k)
      BY <2>5, <3>1, <3>3
    <3>5. QED
      BY <2>1, <3>4
  <2>8. CASE ~s.found /\ ~Holds(r, ord)
    <3>1. f[k] = [s EXCEPT !.index = @ + Width(r)]
      BY <2>2, <2>8 DEF IndexStep, Holds
    <3>2. f[k].found = FALSE /\ f[k].index = s.index + Width(r)
      BY <2>3, <2>8, <3>1 DEF Seeking
    <3>3. s.index = Before(ranges, k - 1)
      BY <2>1, <2>2, <2>8
    <3>4. Good(k)
      BY <2>4, <2>5, <3>2, <3>3
    <3>5. QED
      BY <2>1, <3>4
  <2>9. QED
    BY <2>6, <2>7, <2>8
<1>5. Good(n)
  <2>1. n \in 0..n
    BY <1>1
  <2> HIDE DEF S
  <2>2. n \in S
    BY <2>1, <1>1, <1>3, <1>4, StepsReach
  <2>3. QED
    BY <2>2 DEF S
<1>6. QED
  BY <1>2, <1>5

\* No other range holds the ordinal, so that place is its offset.
LEMMA OffsetIsIndex ==
    ASSUME NEW ord \in Nat, NEW ranges, OfACoin(ranges), NEW i, NEW index,
           AtIndex(ranges, ord, i, index)
    PROVE  OffsetOf(ranges, ord) = index /\ index \in Nat
<1>1. /\ ranges \in Seq(Nat \X Nat) /\ i \in DOMAIN ranges /\ Holds(ranges[i], ord)
      /\ ranges[i][1] \in Nat
  BY DEF AtIndex, OfACoin
<1>2. ASSUME NEW j \in DOMAIN ranges, Holds(ranges[j], ord) PROVE j = i
  <2>1. /\ ranges[j][1] \in Nat /\ ranges[j][2] \in Nat
        /\ ranges[i][1] \in Nat /\ ranges[i][2] \in Nat
    BY <1>1
  <2>2. j # i => ranges[i][2] <= ranges[j][1] \/ ranges[j][2] <= ranges[i][1]
    BY <1>1, Zenon DEF OfACoin
  <2>3. QED
    BY <1>1, <1>2, <2>1, <2>2 DEF Holds
<1>3. (CHOOSE j \in DOMAIN ranges : ranges[j][1] <= ord /\ ord < ranges[j][2]) = i
  BY <1>1, <1>2 DEF Holds
<1>4. OffsetOf(ranges, ord) = Before(ranges, i - 1) + ord - ranges[i][1]
  BY <1>3 DEF OffsetOf, Before
<1>5. PICK before, first : before = Before(ranges, i - 1) /\ first = ranges[i][1]
  OBVIOUS
<1>6. index = before + ord - first /\ before \in Nat
  BY <1>5 DEF AtIndex
<1>7. first \in Nat /\ first <= ord
  BY <1>1, <1>5 DEF Holds
<1>8. index \in Nat
  BY <1>6, <1>7
<1>9. QED
  BY <1>4, <1>5, <1>6, <1>8

\* What is before the ordinal goes to the owner, all but one sat of it, and the
\* next output to the buyer.
LEMMA SaleDelivers ==
    ASSUME NEW ord \in Nat, NEW ranges, OfACoin(ranges), NEW funds, NEW sale,
           NEW sold, sold = Sell(funds, ranges, ord, sale), sold.ok
    PROVE  /\ 2 \in DOMAIN sold.outs /\ sold.outs[2].to = "buyer"
           /\ OffsetOf(ranges, ord) \in
                StartOf(sold.outs, 2) .. StartOf(sold.outs, 2) + sold.outs[2].sats - 1
<1>1. PICK index : index = IndexOf(ranges, ord).index
  OBVIOUS
<1>2. IndexOf(ranges, ord).found
  BY DEF Sell, Failed
<1>3. OffsetOf(ranges, ord) = index /\ index \in Nat
  <2>1. PICK i : AtIndex(ranges, ord, i, index)
    BY <1>1, <1>2, IndexFound
  <2>2. QED
    BY <2>1, OffsetIsIndex
<1>4. PICK before : before = BeforeOrdinal(index)
  OBVIOUS
<1>5. before \in Nat /\ before <= index /\ index <= before + 1
  BY <1>3, <1>4 DEF BeforeOrdinal
<1>6. PICK last, change :
        sold.outs = <<[to |-> "owner", sats |-> before], [to |-> "buyer", sats |-> Padding + 1],
                      last, change>>
  BY <1>1, <1>2, <1>4 DEF Sell, Failed
<1>7. /\ 2 \in DOMAIN sold.outs /\ sold.outs[2].to = "buyer"
      /\ sold.outs[2].sats = Padding + 1 /\ sold.outs[1].sats = before
  BY <1>6
<1>8. StartOf(sold.outs, 2) = before
  <2>1. PICK f : f = [j \in 1..(2 - 1) |-> sold.outs[j].sats]
    OBVIOUS
  <2>2. PICK g : g = [j \in 1..0 |-> 0]
    OBVIOUS
  <2>3. OneLonger(f, g, 1) /\ f[1] = before /\ DOMAIN g = {}
    BY <1>5, <1>7, <2>1, <2>2 DEF OneLonger
  <2>4. SumFunction(f) = before + SumFunction(g) /\ SumFunction(g) = 0
    BY <2>3, SumOneLonger, SumOfNone
  <2>5. QED
    BY <1>5, <2>1, <2>4 DEF StartOf
<1>9. QED
  BY <1>3, <1>5, <1>7, <1>8, PaddingAssumption

\* SimpleOrdinal::sell counts the sats before the ordinal and leaves one of
\* them out; the ordinal is in the buyer's output all the same.
LEMMA ComputedSalesDeliver == AnswersComputed => SoldOrdinalReachesBuyer
<1> SUFFICES ASSUME AnswersComputed, Answered("sell"), answer.value.ok
             PROVE  SoldOrdinalReachesBuyer
  BY DEF SoldOrdinalReachesBuyer
<1>1. /\ task \in Tasks /\ task.kind = "sell"
      /\ answer.value = Sell(TotalSats(task.ranges), task.ranges, task.ord, task.sale)
  BY DEF AnswersComputed, Answered
<1>2. OfACoin(task.ranges) /\ task.ord \in Nat
  BY <1>1, TaskAssumption
<1>3. PICK sold : sold = answer.value
  OBVIOUS
<1>4. /\ 2 \in DOMAIN sold.outs /\ sold.outs[2].to = "buyer"
      /\ OffsetOf(task.ranges, task.ord) \in
           StartOf(sold.outs, 2) .. StartOf(sold.outs, 2) + sold.outs[2].sats - 1
  BY <1>1, <1>2, <1>3, SaleDelivers
<1>5. QED
  BY <1>3, <1>4, Zenon DEF SoldOrdinalReachesBuyer

-----------------------------------------------------------------------------
(* Plans.  A plan counts the sats of a coin from its front; what it counts  *)
(* twice is missing when its outputs are paid.                              *)

\* R puts the members of S in an order.
Orders(S, R) ==
    \A x, y \in S : /\ x # y => <<x, y>> \in R \/ <<y, x>> \in R
                    /\ <<x, x>> \notin R
                    /\ \A z \in S : <<x, y>> \in R /\ <<y, z>> \in R => <<x, z>> \in R
Below(S, R, x) == {y \in S : <<y, x>> \in R}

LEMMA BelowGrows ==
    ASSUME NEW S, IsFiniteSet(S), NEW R, Orders(S, R), NEW x \in S
    PROVE  /\ Cardinality(Below(S, R, x)) \in 0..Cardinality(S) - 1
           /\ \A y \in S : <<y, x>> \in R =>
                Cardinality(Below(S, R, y)) < Cardinality(Below(S, R, x))
<1>1. /\ Below(S, R, x) \in SUBSET S /\ Below(S, R, x) # S
      /\ IsFiniteSet(Below(S, R, x))
  <2>1. x \notin Below(S, R, x) /\ Below(S, R, x) \in SUBSET S
    BY DEF Below, Orders
  <2>2. QED
    BY <2>1, FS_Subset
<1>2. Cardinality(S) \in Nat /\ Cardinality(Below(S, R, x)) \in Nat
  BY <1>1, FS_CardinalityType
<1>3. /\ Cardinality(Below(S, R, x)) <= Cardinality(S)
      /\ Cardinality(S) # Cardinality(Below(S, R, x))
  BY <1>1, FS_Subset
<1>4. ASSUME NEW y \in S, <<y, x>> \in R
      PROVE  Cardinality(Below(S, R, y)) < Cardinality(Below(S, R, x))
  <2>1. y \in Below(S, R, x) /\ y \notin Below(S, R, y)
    BY <1>4 DEF Below, Orders
  <2>2. Below(S, R, y) \in SUBSET Below(S, R, x)
    BY <1>4 DEF Below, Orders
  <2>3. /\ IsFiniteSet(Below(S, R, y))
        /\ Cardinality(Below(S, R, y)) <= Cardinality(Below(S, R, x))
        /\ Cardinality(Below(S, R, x)) # Cardinality(Below(S, R, y))
    BY <1>1, <2>1, <2>2, FS_Subset
  <2>4. Cardinality(Below(S, R, y)) \in Nat
    BY <2>3, FS_CardinalityType
  <2>5. QED
    BY <1>2, <2>3, <2>4
<1>5. QED
  BY <1>2, <1>3, <1>4

\* Each member of a finite set is listed, and nothing else is.
LEMMA ListedAll ==
    ASSUME NEW S, IsFiniteSet(S), NEW R, Orders(S, R)
    PROVE  /\ Cardinality(S) \in Nat
           /\ Listed(S, R) \in [1..Cardinality(S) -> S]
           /\ \A x \in S : \E i \in 1..Cardinality(S) : Listed(S, R)[i] = x
<1> DEFINE n == Cardinality(S)
           r == [x \in S |-> Cardinality(Below(S, R, x)) + 1]
<1>1. n \in Nat
  BY FS_CardinalityType
<1>2. \A x \in S : /\ Cardinality(Below(S, R, x)) \in 0..n - 1
                   /\ \A y \in S : <<y, x>> \in R =>
                        Cardinality(Below(S, R, y)) < Cardinality(Below(S, R, x))
  BY BelowGrows
<1> HIDE DEF n
<1>3. r \in [S -> 1..n]
  BY <1>1, <1>2
<1>4. ASSUME NEW x \in S, NEW y \in S, r[x] = r[y] PROVE x = y
  <2>1. <<x, y>> \notin R /\ <<y, x>> \notin R
    BY <1>2, <1>4
  <2>2. QED
    BY <2>1 DEF Orders
<1>5. r \in Injection(S, 1..n)
  <2> HIDE DEF r
  <2>1. DOMAIN r = S
    BY <1>3
  <2>2. QED
    BY <1>3, <1>4, <2>1 DEF Injection, IsInjective
<1>6. IsFiniteSet(1..n) /\ Cardinality(1..n) = n
  BY <1>1, FS_Interval
<1>7. r \in Surjection(S, 1..n)
  <2> HIDE DEF r
  <2>1. QED
    BY <1>5, <1>6, FS_Injection DEF n
<1>8. \A i \in 1..n : \E x \in S : r[x] = i
  <2> HIDE DEF r
  <2>1. QED
    BY <1>7 DEF Surjection
<1> DEFINE l == Listed(S, R)
<1>9. ASSUME NEW i \in 1..n PROVE l[i] \in S /\ r[l[i]] = i
  <2>1. PICK x \in S : r[x] = i
    BY <1>8
  <2>2. Cardinality({y \in S : <<y, x>> \in R}) = i - 1
    BY <2>1, <1>2 DEF Below
  <2>3. l[i] = CHOOSE z \in S : Cardinality({y \in S : <<y, z>> \in R}) = i - 1
    BY DEF Listed, n
  <2>4. l[i] \in S /\ Cardinality({y \in S : <<y, l[i]>> \in R}) = i - 1
    <3> HIDE DEF l
    <3>1. QED
      BY <2>2, <2>3
  <2>5. QED
    BY <2>4, <1>2 DEF Below
<1>10. l = [i \in 1..n |-> l[i]]
  <2>1. l = [i \in 1..Cardinality(S) |-> l[i]]
    <3> DEFINE At(i) == CHOOSE x \in S : Cardinality({y \in S : <<y, x>> \in R}) = i - 1
    <3>1. l = [i \in 1..Cardinality(S) |-> At(i)]
      BY Zenon DEF Listed
    <3> HIDE DEF At, l
    <3>2. QED
      BY <3>1
  <2>2. QED
    BY <2>1, Zenon DEF n
<1>11. ASSUME NEW x \in S PROVE \E i \in 1..n : l[i] = x
  <2> HIDE DEF l, r
  <2>1. r[x] \in 1..n /\ r[l[r[x]]] = r[x] /\ l[r[x]] \in S
    BY <1>3, <1>9
  <2>2. QED
    BY <2>1, <1>4
<1>12. QED
  <2> HIDE DEF l, r
  <2>1. l \in [1..n -> S]
    BY <1>9, <1>10
  <2>2. QED
    BY <1>1, <1>11, <2>1 DEF l, n

\* Ranges in the order of their sats are listed in the order they have.
RowAt(ranges, i) == [lo |-> ranges[i][1], hi |-> ranges[i][2], idx |-> i]

LEMMA SortedIsSame ==
    ASSUME NEW ranges, OfACoin(ranges), InOrder(ranges)
    PROVE  Sorted(ranges) = [i \in 1..Len(ranges) |-> RowAt(ranges, i)]
<1> DEFINE n == Len(ranges)
           S == Rows(ranges)
           R == {p \in S \X S : \/ p[1].lo < p[2].lo
                                \/ p[1].lo = p[2].lo /\ p[1].idx < p[2].idx}
<1>1. n \in Nat /\ DOMAIN ranges = 1..n /\ S = {RowAt(ranges, i) : i \in 1..n}
  BY DEF OfACoin, Rows, RowAt
<1>2. \A i \in 1..n : /\ ranges[i][1] \in Nat /\ ranges[i][2] \in Nat
                      /\ ranges[i][1] <= ranges[i][2]
                      /\ \A j \in 1..n : i < j => ranges[i][2] <= ranges[j][1]
  <2>1. \A i \in 1..n : /\ ranges[i][1] \in Nat /\ ranges[i][2] \in Nat
                        /\ ranges[i][1] <= ranges[i][2]
    BY <1>1 DEF OfACoin
  <2>2. \A i, j \in 1..n : i < j => ranges[i][2] <= ranges[j][1]
    BY <1>1, Zenon DEF InOrder
  <2> HIDE DEF n
  <2>3. QED
    BY <2>1, <2>2
<1>3. \A i \in 1..n : /\ RowAt(ranges, i).lo = ranges[i][1] /\ RowAt(ranges, i).idx = i
                      /\ RowAt(ranges, i) \in S
  <2> HIDE DEF S
  <2>1. QED
    BY <1>1, Zenon DEF RowAt
<1>4. \A i, j \in 1..n : <<RowAt(ranges, j), RowAt(ranges, i)>> \in R <=> j < i
  <2>1. SUFFICES ASSUME NEW i \in 1..n, NEW j \in 1..n
                 PROVE  <<RowAt(ranges, j), RowAt(ranges, i)>> \in R <=> j < i
    OBVIOUS
  <2>2. <<RowAt(ranges, j), RowAt(ranges, i)>> \in R <=>
          \/ ranges[j][1] < ranges[i][1]
          \/ ranges[j][1] = ranges[i][1] /\ j < i
    BY <1>3
  <2> HIDE DEF R
  <2>3. i \in Nat /\ j \in Nat
    OBVIOUS
  <2>4. j < i => ranges[j][1] <= ranges[j][2] /\ ranges[j][2] <= ranges[i][1]
    BY <1>2
  <2>5. i < j => ranges[i][1] <= ranges[i][2] /\ ranges[i][2] <= ranges[j][1]
    BY <1>2
  <2>6. /\ ranges[i][1] \in Nat /\ ranges[i][2] \in Nat
        /\ ranges[j][1] \in Nat /\ ranges[j][2] \in Nat
    BY <1>2
  <2>7. CASE j < i
    BY <2>2, <2>4, <2>6, <2>7
  <2>8. CASE i = j
    BY <2>2, <2>3, <2>6, <2>8
  <2>9. CASE i < j
    BY <2>2, <2>3, <2>5, <2>6, <2>9
  <2>10. QED
    BY <2>3, <2>7, <2>8, <2>9
<1> HIDE DEF R, S
<1>5. ASSUME NEW k \in 0..n, NEW T, T = {RowAt(ranges, i) : i \in 1..k}
      PROVE  Cardinality(T) = k
  <2> DEFINE b == [i \in 1..k |-> RowAt(ranges, i)]
  <2>1. \A i, j \in 1..k : RowAt(ranges, i) = RowAt(ranges, j) => i = j
    BY <1>3
  <2>2. b \in Bijection(1..k, T)
    BY <1>5, <2>1 DEF Bijection, Injection, Surjection, IsInjective
  <2>3. k \in Nat
    BY <1>1
  <2> HIDE DEF b
  <2>4. QED
    BY <2>2, <2>3, FS_CountingElements DEF ExistsBijection
<1>6. Cardinality(S) = n
  BY <1>1, <1>5
<1>7. ASSUME NEW i \in 1..n
      PROVE  Cardinality({y \in S : <<y, RowAt(ranges, i)>> \in R}) = i - 1
  <2>1. {y \in S : <<y, RowAt(ranges, i)>> \in R} = {RowAt(ranges, j) : j \in 1..i - 1}
    <3>1. \A j \in 1..n : j \in 1..i - 1 <=> j < i
      OBVIOUS
    <3>2. \A j \in 1..i - 1 : j \in 1..n
      OBVIOUS
    <3>3. QED
      BY <1>1, <1>4, <3>1, <3>2
  <2>2. i - 1 \in 0..n
    BY <1>1
  <2>3. QED
    BY <2>1, <2>2, <1>5
<1>8. ASSUME NEW i \in 1..n
      PROVE  (CHOOSE x \in S : Cardinality({y \in S : <<y, x>> \in R}) = i - 1)
                = RowAt(ranges, i)
  <2>1. ASSUME NEW x \in S, Cardinality({y \in S : <<y, x>> \in R}) = i - 1
        PROVE  x = RowAt(ranges, i)
    <3>1. PICK j \in 1..n : x = RowAt(ranges, j)
      BY <1>1
    <3>2. j - 1 = i - 1
      BY <3>1, <2>1, <1>7
    <3>3. QED
      BY <3>1, <3>2
  <2>2. RowAt(ranges, i) \in S /\ Cardinality({y \in S : <<y, RowAt(ranges, i)>> \in R}) = i - 1
    BY <1>3, <1>7
  <2>3. QED
    BY <2>1, <2>2
<1>9. Listed(S, R) = [i \in 1..n |-> RowAt(ranges, i)]
  BY <1>6, <1>8 DEF Listed
<1>10. QED
  BY <1>9 DEF Sorted, S, R

\* A function on the first numbers is a sequence.
LEMMA LenOf ==
    ASSUME NEW n \in Nat, NEW D, NEW f \in [1..n -> D]
    PROVE  f \in Seq(D) /\ Len(f) = n
OBVIOUS

\* The rows of a coin of which some sats are taken, and those still whole.
Row == [lo : Int, hi : Int, idx : Int]
MovedOn(info, ranges) ==
    /\ info \in [1..Len(ranges) -> Row]
    /\ \A j \in 1..Len(ranges) :
         /\ info[j].idx = j /\ info[j].hi = ranges[j][2]
         /\ ranges[j][1] <= info[j].lo /\ info[j].lo <= info[j].hi
Whole(info, ranges, at) ==
    \A j \in 1..Len(ranges) : j > at => info[j].lo = ranges[j][1]

\* How many sats of the coin are before the first that is left.
Position(info, ranges, at) ==
    Before(ranges, at - 1) +
      (IF at <= Len(ranges) THEN info[at].lo - ranges[at][1] ELSE 0)

LEMMA RowIs ==
    ASSUME NEW ranges, OfACoin(ranges), NEW info, MovedOn(info, ranges),
           NEW k \in 1..Len(ranges)
    PROVE  /\ info[k] \in Row /\ info[k].lo \in Nat /\ info[k].hi \in Nat
           /\ info[k].hi = ranges[k][2] /\ info[k].idx = k
           /\ ranges[k][1] \in Nat /\ ranges[k][1] <= info[k].lo
           /\ info[k].lo <= info[k].hi
           /\ Width(ranges[k]) = info[k].hi - ranges[k][1]
<1>1. /\ info[k] \in Row
      /\ info[k].hi = ranges[k][2] /\ info[k].idx = k
      /\ ranges[k][1] <= info[k].lo /\ info[k].lo <= info[k].hi
  BY DEF MovedOn
<1>2. ranges[k][1] \in Nat /\ ranges[k][2] \in Nat
  BY DEF OfACoin
<1>3. info[k].lo \in Int
  BY <1>1 DEF Row
<1>4. QED
  BY <1>1, <1>2, <1>3 DEF Width

LEMMA BetweenStep ==
    ASSUME NEW ranges, Len(ranges) \in Nat, NEW info, MovedOn(info, ranges),
           NEW a \in Nat \ {0}, NEW b \in 1..Len(ranges), a <= b
    PROVE  /\ Between(info, a, b + 1) = Between(info, a, b) + info[b].hi - info[b].lo
           /\ Between(info, a, b) \in Int
<1>1. \A i \in a..b : info[i].hi - info[i].lo \in Int
  <2>1. \A i \in a..b : i \in 1..Len(ranges)
    OBVIOUS
  <2>2. \A i \in 1..Len(ranges) : info[i] \in Row
    BY DEF MovedOn
  <2>3. \A i \in 1..Len(ranges) : info[i].hi - info[i].lo \in Int
    BY <2>2 DEF Row
  <2>4. QED
    BY <2>1, <2>3
<1>2. PICK S : S = a..b - 1
  OBVIOUS
<1>3. a..b = S \cup {b} /\ b \notin S /\ IsFiniteSet(S) /\ (b + 1) - 1 = b
  <2>1. a..b = S \cup {b} /\ b \notin S /\ a \in Int /\ b - 1 \in Int /\ (b + 1) - 1 = b
    BY <1>2
  <2>2. QED
    BY <2>1, <1>2, FS_Interval
<1>4. PICK f : f = [i \in a..b |-> info[i].hi - info[i].lo]
  OBVIOUS
<1>5. PICK g : g = [i \in a..b - 1 |-> info[i].hi - info[i].lo]
  OBVIOUS
<1>6. /\ \A y \in S \cup {b} : f[y] \in Int
      /\ \A y \in S : g[y] = f[y]
      /\ f[b] = info[b].hi - info[b].lo /\ f[b] \in Int
  BY <1>1, <1>2, <1>3, <1>4, <1>5
<1>7. OneMore(f, g, S, b)
  BY <1>3, <1>6 DEF OneMore
<1>8. /\ SumFunctionOnSet(f, S \cup {b}) = f[b] + SumFunctionOnSet(g, S)
      /\ SumFunctionOnSet(g, S) \in Int
  BY <1>7, OneMoreAdds
<1>9. Between(info, a, b + 1) = SumFunctionOnSet(f, S \cup {b})
  <2>1. Between(info, a, b + 1) = SumFunction(f)
    BY <1>3, <1>4, Zenon DEF Between
  <2>2. DOMAIN f = S \cup {b}
    BY <1>3, <1>4
  <2>3. QED
    BY <2>1, <2>2, Zenon DEF SumFunction
<1>10. Between(info, a, b) = SumFunctionOnSet(g, S)
  <2>1. Between(info, a, b) = SumFunction(g)
    BY <1>5, Zenon DEF Between
  <2>2. DOMAIN g = S
    BY <1>2, <1>5
  <2>3. QED
    BY <2>1, <2>2, Zenon DEF SumFunction
<1>11. info[b].hi \in Int /\ info[b].lo \in Int
  <2>1. info[b] \in Row
    BY DEF MovedOn
  <2>2. QED
    BY <2>1 DEF Row
<1>12. QED
  BY <1>6, <1>8, <1>9, <1>10, <1>11

LEMMA BetweenNothing ==
    ASSUME NEW info, NEW a \in Int
    PROVE  Between(info, a, a) = 0
<1>1. DOMAIN [i \in a..a - 1 |-> info[i].hi - info[i].lo] = {}
  OBVIOUS
<1>2. QED
  BY <1>1, SumOfNone DEF Between

LEMMA BeforeNat ==
    ASSUME NEW ranges, OfACoin(ranges)
    PROVE  \A k \in 0..Len(ranges) : Before(ranges, k) \in Nat
<1> DEFINE n == Len(ranges)
           S == {k \in 0..n : Before(ranges, k) \in Nat}
<1>1. n \in Nat
  BY DEF OfACoin
<1>2. 0 \in S
  BY <1>1, BeforeNone
<1>3. ASSUME NEW k \in 1..n, k - 1 \in S PROVE k \in S
  <2>1. Before(ranges, k) = Before(ranges, k - 1) + Width(ranges[k]) /\ Width(ranges[k]) \in Nat
    BY BeforeGrows
  <2>2. Before(ranges, k - 1) \in Nat
    BY <1>3
  <2>3. QED
    BY <2>1, <2>2
<1> HIDE DEF S, n
<1>4. \A k \in 0..n : k \in S
  BY <1>1, <1>2, <1>3, StepsReach
<1>5. QED
  BY <1>4 DEF S, n

\* What is left of the ranges up to one is what is before it, less the position.
LEMMA BetweenIs ==
    ASSUME NEW ranges, OfACoin(ranges), NEW info, MovedOn(info, ranges),
           NEW at \in Nat \ {0}, Whole(info, ranges, at)
    PROVE  \A k \in 0..Len(ranges) :
             at <= k => Between(info, at, k + 1) = Before(ranges, k) - Position(info, ranges, at)
<1> DEFINE n == Len(ranges)
           Good(k) == at <= k =>
                        Between(info, at, k + 1) = Before(ranges, k) - Position(info, ranges, at)
           S == {k \in 0..n : Good(k)}
<1>1. n \in Nat
  BY DEF OfACoin
<1>2. 0 \in S
  BY <1>1
<1>3. ASSUME NEW k \in 1..n, k - 1 \in S PROVE k \in S
  <2>1. SUFFICES ASSUME at <= k PROVE Good(k)
    BY <1>1
  <2>2. /\ Before(ranges, k) = Before(ranges, k - 1) + Width(ranges[k])
        /\ Width(ranges[k]) \in Nat
    BY BeforeGrows
  <2>3. /\ k \in 0..n /\ k - 1 \in 0..n /\ Before(ranges, k) \in Nat
        /\ Before(ranges, k - 1) \in Nat
    <3>1. k \in 0..n /\ k - 1 \in 0..n
      BY <1>1
    <3>2. QED
      BY <3>1, BeforeNat
  <2>4. /\ Between(info, at, k + 1) = Between(info, at, k) + info[k].hi - info[k].lo
        /\ Between(info, at, k) \in Int
    BY <1>1, <2>1, BetweenStep
  <2>5. /\ info[k].lo \in Nat /\ info[k].hi \in Nat /\ ranges[k][1] \in Nat
        /\ Width(ranges[k]) = info[k].hi - ranges[k][1]
    BY RowIs
  <2>6. CASE at = k
    <3>1. Position(info, ranges, at) = Before(ranges, k - 1) + (info[k].lo - ranges[k][1])
      BY <2>6 DEF Position
    <3>2. Between(info, at, k) = 0
      BY <2>6, BetweenNothing
    <3>3. Between(info, at, k + 1) = info[k].hi - info[k].lo
      BY <2>4, <2>5, <3>2, <2>6
    <3>4. PICK p, b, c, lo, hi, first :
            /\ p = Before(ranges, k - 1) /\ b = Before(ranges, k)
            /\ c = Position(info, ranges, at)
            /\ lo = info[k].lo /\ hi = info[k].hi /\ first = ranges[k][1]
      OBVIOUS
    <3>5. p \in Nat /\ lo \in Nat /\ hi \in Nat /\ first \in Nat
      BY <2>3, <2>5, <3>4
    <3>6. b = p + (hi - first) /\ c = p + (lo - first)
      BY <2>2, <2>5, <3>1, <3>4, Zenon
    <3>7. Between(info, at, k + 1) = b - c
      <4>1. b - c = hi - lo
        BY <3>5, <3>6
      <4>2. QED
        BY <3>3, <3>4, <4>1, Zenon
    <3>8. QED
      BY <3>4, <3>7
  <2>7. CASE at # k
    <3>1. at <= k - 1 /\ k > at /\ (k - 1) + 1 = k
      BY <2>1, <2>7
    <3>2. info[k].lo = ranges[k][1]
      BY <3>1 DEF Whole
    <3>3. Between(info, at, k) = Before(ranges, k - 1) - Position(info, ranges, at)
      BY <1>3, <3>1
    <3>4. Position(info, ranges, at) \in Int
      <4>1. at \in 1..n /\ at - 1 \in 0..n /\ at <= Len(ranges)
        BY <3>1, <1>1
      <4>2. Before(ranges, at - 1) \in Nat
        BY <4>1, BeforeNat
      <4>3. info[at].lo \in Int /\ ranges[at][1] \in Int
        BY <4>1, RowIs
      <4>4. QED
        BY <4>1, <4>2, <4>3 DEF Position
    <3>5. QED
      BY <2>2, <2>3, <2>4, <2>5, <3>2, <3>3, <3>4
  <2>8. QED
    BY <2>6, <2>7
<1> HIDE DEF S, n
<1>4. \A k \in 0..n : k \in S
  BY <1>1, <1>2, <1>3, StepsReach
<1>5. QED
  BY <1>4 DEF S, n

\* Advancing, range by range.
Advancing(n) == [info : [1..n -> Row], left : Int, at : Nat \ {0}]
AdvanceStep(info, at, s, i) ==
    IF i < at \/ s.left = 0 THEN s
    ELSE LET had == info[i].hi - info[i].lo
             took == IF had <= s.left THEN had ELSE s.left
         IN  [info |-> [s.info EXCEPT ![i].lo = @ + took],
              left |-> s.left - took,
              at |-> IF s.left > had THEN i + 1 ELSE i]

\* A step that takes sats from range i, and what it makes of the state s.
StepTakes(n, info, at, s, i, took) ==
    /\ n \in Nat /\ info \in [1..n -> Row] /\ at \in Nat \ {0} /\ s \in Advancing(n)
    /\ i \in 1..n /\ ~ (i < at \/ s.left = 0)
    /\ took = IF info[i].hi - info[i].lo <= s.left THEN info[i].hi - info[i].lo ELSE s.left
TookFrom(n, info, s, i, took, t) ==
    /\ t \in Advancing(n) /\ took \in Int /\ t.left = s.left - took
    /\ t.at = IF s.left > info[i].hi - info[i].lo THEN i + 1 ELSE i
    /\ \A j \in 1..n :
         /\ t.info[j].lo = IF j = i THEN s.info[i].lo + took ELSE s.info[j].lo
         /\ t.info[j].hi = s.info[j].hi /\ t.info[j].idx = s.info[j].idx

LEMMA AdvanceStepIs ==
    ASSUME NEW n, NEW info, NEW at, NEW s, NEW i, NEW took,
           StepTakes(n, info, at, s, i, took)
    PROVE  TookFrom(n, info, s, i, took, AdvanceStep(info, at, s, i))
<1>0. /\ n \in Nat /\ info \in [1..n -> Row] /\ at \in Nat \ {0} /\ s \in Advancing(n)
      /\ i \in 1..n /\ ~ (i < at \/ s.left = 0)
      /\ took = IF info[i].hi - info[i].lo <= s.left
                THEN info[i].hi - info[i].lo ELSE s.left
  BY DEF StepTakes
<1>1. /\ info[i].hi \in Int /\ info[i].lo \in Int /\ s.left \in Int /\ s.info \in [1..n -> Row]
      /\ took \in Int
  <2>1. info[i] \in Row /\ s.left \in Int /\ s.info \in [1..n -> Row]
    BY <1>0 DEF Advancing
  <2>2. info[i].hi \in Int /\ info[i].lo \in Int
    BY <2>1 DEF Row
  <2>3. QED
    BY <1>0, <2>1, <2>2
<1>2. PICK to : to = IF s.left > info[i].hi - info[i].lo THEN i + 1 ELSE i
  OBVIOUS
<1>3. PICK moved : moved = [s.info EXCEPT ![i].lo = @ + took]
  OBVIOUS
<1>4. AdvanceStep(info, at, s, i) = [info |-> moved, left |-> s.left - took, at |-> to]
  BY <1>0, <1>2, <1>3 DEF AdvanceStep
<1>5. /\ moved \in [1..n -> Row]
      /\ \A j \in 1..n : /\ moved[j].lo = IF j = i THEN s.info[i].lo + took ELSE s.info[j].lo
                         /\ moved[j].hi = s.info[j].hi /\ moved[j].idx = s.info[j].idx
  <2>1. PICK old : old = s.info[i]
    OBVIOUS
  <2>2. PICK row : row = [lo |-> old.lo + took, hi |-> old.hi, idx |-> old.idx]
    OBVIOUS
  <2>3. old \in Row /\ old.lo \in Int /\ old.hi \in Int /\ old.idx \in Int
    <3>1. old \in Row
      BY <1>0, <1>1, <2>1
    <3>2. QED
      BY <3>1 DEF Row
  <2>4. row \in Row /\ row.lo = old.lo + took /\ row.hi = old.hi /\ row.idx = old.idx
    BY <1>1, <2>2, <2>3 DEF Row
  <2>6. moved = [s.info EXCEPT ![i] = row]
    <3>1. [old EXCEPT !.lo = @ + took] = row
      BY <2>2, <2>3 DEF Row
    <3>2. QED
      BY <2>1, <3>1, <1>3, Zenon
  <2>5. QED
    BY <1>0, <1>1, <2>1, <2>4, <2>6
<1>6. to \in Nat \ {0}
  BY <1>0, <1>2
<1>7. [info |-> moved, left |-> s.left - took, at |-> to] \in Advancing(n)
  BY <1>1, <1>5, <1>6 DEF Advancing
<1>8. PICK t : t = [info |-> moved, left |-> s.left - took, at |-> to]
  OBVIOUS
<1>9. t.info = moved /\ t.left = s.left - took /\ t.at = to
  BY <1>8
<1>10. QED
  BY <1>1, <1>2, <1>4, <1>5, <1>7, <1>8, <1>9 DEF TookFrom

LEMMA AdvanceStepType ==
    ASSUME NEW n, n \in Nat, NEW info, info \in [1..n -> Row], NEW at \in Nat \ {0},
           NEW s \in Advancing(n), NEW i \in 1..n
    PROVE  AdvanceStep(info, at, s, i) \in Advancing(n)
<1>1. CASE i < at \/ s.left = 0
  BY <1>1 DEF AdvanceStep
<1>2. CASE ~ (i < at \/ s.left = 0)
  <2>1. PICK took : took = IF info[i].hi - info[i].lo <= s.left
                           THEN info[i].hi - info[i].lo ELSE s.left
    OBVIOUS
  <2>2. StepTakes(n, info, at, s, i, took)
    BY <1>2, <2>1 DEF StepTakes
  <2>3. TookFrom(n, info, s, i, took, AdvanceStep(info, at, s, i))
    BY <2>2, AdvanceStepIs
  <2>4. QED
    BY <2>3 DEF TookFrom
<1>3. QED
  BY <1>1, <1>2

\* The ranges an advance goes over are all of them, in order.
AdvanceOver(info, at, left, places) ==
    FoldLeft(LAMBDA s, i : AdvanceStep(info, at, s, i),
             [info |-> info, left |-> left, at |-> at], places)

LEMMA AdvanceIsOver ==
    ASSUME NEW info, NEW at, NEW left
    PROVE  Advance(info, at, left) = AdvanceOver(info, at, left, [i \in 1..Len(info) |-> i])
BY Zenon DEF Advance, AdvanceOver, AdvanceStep

\* What an advance goes over, and that it has states, as one fact each.
GoesOver(m, info, at, left, places) ==
    /\ m \in Nat /\ info \in [1..m -> Row] /\ at \in Nat \ {0} /\ left \in Int
    /\ places \in Seq(1..m)
HasAdvance(m, info, at, left, places) ==
    \E f \in [0..Len(places) -> Advancing(m)] :
      /\ f[0] = [info |-> info, left |-> left, at |-> at]
      /\ \A k \in 1..Len(places) : f[k] = AdvanceStep(info, at, f[k - 1], places[k])
      /\ AdvanceOver(info, at, left, places) = f[Len(places)]

\* The states of an advance, range by range.
LEMMA AdvanceRuns ==
    ASSUME NEW m, NEW info, NEW at, NEW left, NEW places, GoesOver(m, info, at, left, places)
    PROVE  HasAdvance(m, info, at, left, places)
<1> DEFINE n == Len(places)
           base == [info |-> info, left |-> left, at |-> at]
           op == [p \in (Advancing(m)) \X (1..m) |-> AdvanceStep(info, at, p[1], p[2])]
           Rec(t) == [s \in SUBSET (1..n) |-> IF s = {} THEN base
                        ELSE AdvanceStep(info, at, t[s \ {Max(s)}], places[Max(s)])]
           iter == CHOOSE t : t = Rec(t)
<1>0. /\ m \in Nat /\ info \in [1..m -> Row] /\ at \in Nat \ {0} /\ left \in Int
      /\ places \in Seq(1..m)
  BY DEF GoesOver
<1>1. n \in Nat /\ n \in 0..n /\ DOMAIN places = 1..n /\ places \in [1..n -> 1..m]
  BY <1>0
<1>2. AdvanceOver(info, at, left, places) = iter[1..n]
  BY <1>1 DEF AdvanceOver, FoldLeft, MapThenFoldSet
<1>3. base \in Advancing(m)
  BY <1>0 DEF Advancing
<1>4. op \in [(Advancing(m)) \X (1..m) -> Advancing(m)]
  BY <1>0, AdvanceStepType
<1> HIDE DEF base, op
<1>5. PICK t \in [SUBSET (1..n) -> Advancing(m)] : IsFoldTable(t, op, base, places, n)
  <2> HIDE DEF n
  <2>1. Folds(Advancing(m), 1..m, op, base, places, n)
    BY <1>1, <1>3, <1>4 DEF Folds
  <2>2. HasTable(Advancing(m), op, base, places, n)
    BY <2>1, FoldHasTable
  <2>3. QED
    BY <2>2 DEF HasTable
<1>6. \A s \in SUBSET (1..n) : s # {} =>
        op[<<t[s \ {Max(s)}], places[Max(s)]>>] =
          AdvanceStep(info, at, t[s \ {Max(s)}], places[Max(s)])
  <2>1. SUFFICES ASSUME NEW s \in SUBSET (1..n), s # {}
                 PROVE  op[<<t[s \ {Max(s)}], places[Max(s)]>>] =
                          AdvanceStep(info, at, t[s \ {Max(s)}], places[Max(s)])
    OBVIOUS
  <2>2. Max(s) \in 1..n /\ s \ {Max(s)} \in SUBSET (1..n)
    BY <1>1, <2>1, LastPlace
  <2>3. t[s \ {Max(s)}] \in Advancing(m) /\ places[Max(s)] \in 1..m
    BY <2>2, <1>1
  <2>4. QED
    BY <2>3 DEF op
<1>7. t = Rec(t)
  <2>1. \A s \in SUBSET (1..n) : t[s] = Rec(t)[s]
    BY <1>5, <1>6 DEF IsFoldTable
  <2>2. QED
    BY <2>1
<1>8. iter = Rec(iter)
  BY <1>7
<1> HIDE DEF iter
<1>9. Follows(iter, t, Advancing(m), op, base, places, n)
  <2>1. iter[{}] = base
    BY <1>8
  <2>2. \A s \in SUBSET (1..n) :
          s # {} /\ iter[s \ {Max(s)}] = t[s \ {Max(s)}] => iter[s] = t[s]
    BY <1>7, <1>8
  <2>3. QED
    BY <2>1, <2>2, <1>1, <1>5 DEF Follows
<1> DEFINE f == RunOf(iter, n)
<1>10. IsRun(f, Advancing(m), op, base, places, n) /\ iter[1..n] = f[n]
  BY <1>9, FoldRun
<1> HIDE DEF f
<1>11. /\ f \in [0..n -> Advancing(m)] /\ f[0] = base
       /\ \A k \in 1..n : f[k] = AdvanceStep(info, at, f[k - 1], places[k])
  <2>1. \A k \in 1..n : f[k - 1] \in Advancing(m) /\ places[k] \in 1..m
    <3>1. \A k \in 1..n : k - 1 \in 0..n
      BY <1>1
    <3>2. f \in [0..n -> Advancing(m)]
      BY <1>10 DEF IsRun
    <3> HIDE DEF n
    <3>3. QED
      BY <3>1, <3>2, <1>1
  <2>2. QED
    BY <1>10, <2>1 DEF op, IsRun
<1>12. QED
  BY <1>2, <1>10, <1>11, Zenon DEF base, HasAdvance

\* How far an advance of m sats is after k ranges, and what it does if the
\* ranges have that many.
Taken(info, ranges, at, m, s) ==
    /\ s.at \in at..Len(ranges) /\ MovedOn(s.info, ranges) /\ Whole(s.info, ranges, s.at)
    /\ Position(s.info, ranges, s.at) = Position(info, ranges, at) + m
AdvancedTo(info, ranges, at, m, s, k) ==
    /\ s \in Advancing(Len(ranges)) /\ s.left \in Nat
    /\ MovedOn(s.info, ranges)
    /\ \A j \in 1..Len(ranges) : j > k => s.info[j].lo = info[j].lo
    /\ k < at => s.left = m
    /\ k >= at /\ s.left > 0 => m - s.left = Between(info, at, k + 1)
    /\ k >= at /\ s.left = 0 => Taken(info, ranges, at, m, s)

LEMMA AdvanceGoesOn ==
    ASSUME NEW ranges, OfACoin(ranges), NEW info, MovedOn(info, ranges),
           NEW at \in 1..Len(ranges), Whole(info, ranges, at), NEW m \in Nat \ {0},
           NEW k \in 1..Len(ranges), NEW s, AdvancedTo(info, ranges, at, m, s, k - 1),
           NEW t, t = AdvanceStep(info, at, s, k)
    PROVE  AdvancedTo(info, ranges, at, m, t, k)
<1> DEFINE n == Len(ranges)
<1>1. n \in Nat /\ at \in Int /\ at \in Nat \ {0} /\ k \in Int /\ k \in 0..n /\ k - 1 \in 0..n
  BY DEF OfACoin
<1>2. /\ s \in Advancing(n) /\ s.left \in Nat /\ MovedOn(s.info, ranges)
      /\ \A j \in 1..n : j > k - 1 => s.info[j].lo = info[j].lo
      /\ k - 1 < at => s.left = m
      /\ k - 1 >= at /\ s.left > 0 => m - s.left = Between(info, at, (k - 1) + 1)
      /\ k - 1 >= at /\ s.left = 0 => Taken(info, ranges, at, m, s)
  BY DEF AdvancedTo
<1>3. \A j \in 1..n : j > k => s.info[j].lo = info[j].lo
  BY <1>1, <1>2
<1>4. CASE k < at
  <2>1. t = s /\ k - 1 < at /\ ~ (k >= at)
    BY <1>4, <1>1 DEF AdvanceStep
  <2>2. QED
    BY <1>2, <1>3, <2>1 DEF AdvancedTo
<1>5. CASE k >= at /\ s.left = 0
  <2>1. t = s
    BY <1>5 DEF AdvanceStep
  <2>2. k - 1 >= at
    BY <1>1, <1>2, <1>5
  <2>3. QED
    BY <1>2, <1>3, <1>5, <2>1, <2>2 DEF AdvancedTo
<1>6. CASE k >= at /\ s.left # 0
  <2>1. PICK had : had = info[k].hi - info[k].lo
    OBVIOUS
  <2>2. PICK took : took = IF info[k].hi - info[k].lo <= s.left
                           THEN info[k].hi - info[k].lo ELSE s.left
    OBVIOUS
  <2>3. /\ info[k].lo \in Nat /\ info[k].hi \in Nat /\ info[k].lo <= info[k].hi
        /\ info[k].hi = ranges[k][2] /\ ranges[k][1] \in Nat /\ ranges[k][1] <= info[k].lo
    BY RowIs
  <2>a. MovedOn(s.info, ranges) /\ n = Len(ranges)
    BY <1>2
  <2>4. /\ s.info[k].lo = info[k].lo /\ s.info[k].hi = info[k].hi
    <3>1. s.info[k].hi = ranges[k][2]
      BY <2>a, RowIs
    <3>2. k > k - 1
      BY <1>1
    <3>3. QED
      BY <1>2, <2>3, <3>1, <3>2
  <2>5. /\ t \in Advancing(n) /\ took \in Int
        /\ t.left = s.left - took
        /\ t.at = IF s.left > info[k].hi - info[k].lo THEN k + 1 ELSE k
        /\ \A j \in 1..n : /\ t.info[j].lo = IF j = k THEN s.info[k].lo + took
                                             ELSE s.info[j].lo
                           /\ t.info[j].hi = s.info[j].hi
                           /\ t.info[j].idx = s.info[j].idx
    <3>1. info \in [1..n -> Row] /\ ~ (k < at \/ s.left = 0)
      BY <1>1, <1>6 DEF MovedOn
    <3>2. StepTakes(n, info, at, s, k, took)
      BY <1>1, <1>2, <2>2, <3>1 DEF StepTakes
    <3>3. TookFrom(n, info, s, k, took, t)
      BY <3>2, AdvanceStepIs
    <3>4. QED
      BY <3>3 DEF TookFrom
  <2>6. had \in Nat /\ took \in 0..had /\ took <= s.left /\ t.left \in Nat
    <3>1. had \in Nat /\ s.left \in Nat
      BY <1>2, <2>1, <2>3
    <3>2. took = IF had <= s.left THEN had ELSE s.left
      BY <2>1, <2>2
    <3>3. t.left = s.left - took
      BY <2>5
    <3>4. QED
      BY <3>1, <3>2, <3>3
  <2>7. MovedOn(t.info, ranges)
    <3>1. t.info \in [1..n -> Row]
      BY <2>5 DEF Advancing
    <3>2. ASSUME NEW j \in 1..n
          PROVE  /\ t.info[j].idx = j /\ t.info[j].hi = ranges[j][2]
                 /\ ranges[j][1] <= t.info[j].lo /\ t.info[j].lo <= t.info[j].hi
      <4>1. /\ s.info[j].idx = j /\ s.info[j].hi = ranges[j][2]
            /\ ranges[j][1] <= s.info[j].lo /\ s.info[j].lo <= s.info[j].hi
        BY <2>a, RowIs
      <4>2. CASE j # k
        BY <2>5, <4>1, <4>2
      <4>3. CASE j = k
        <5>1. t.info[k].lo = info[k].lo + took /\ t.info[k].hi = info[k].hi /\ t.info[k].idx = k
          BY <2>4, <2>5, <4>1, <4>3
        <5>2. info[k].lo + took <= info[k].hi /\ ranges[k][1] <= info[k].lo + took
          <6>1. took \in Nat /\ took <= info[k].hi - info[k].lo
            BY <2>1, <2>6
          <6>2. PICK lo, hi, first : lo = info[k].lo /\ hi = info[k].hi /\ first = ranges[k][1]
            OBVIOUS
          <6>3. lo \in Nat /\ hi \in Nat /\ first \in Nat /\ first <= lo /\ took <= hi - lo
            BY <2>3, <6>1, <6>2
          <6>4. lo + took <= hi /\ first <= lo + took
            BY <6>1, <6>3
          <6>5. QED
            BY <6>2, <6>4
        <5>3. QED
          BY <2>3, <4>3, <5>1, <5>2
      <4>4. QED
        BY <4>2, <4>3
    <3>3. QED
      BY <3>1, <3>2 DEF MovedOn
  <2>8. \A j \in 1..n : j > k => t.info[j].lo = info[j].lo
    BY <1>1, <1>3, <2>5
  <2>9. m - s.left = Between(info, at, k) /\ Between(info, at, k) \in Int
    <3>1. CASE k = at
      BY <3>1, <1>1, <1>2, BetweenNothing
    <3>2. CASE k # at
      <4>1. k - 1 >= at /\ (k - 1) + 1 = k
        BY <1>1, <1>6, <3>2
      <4>2. QED
        BY <1>2, <1>6, <4>1
    <3>3. QED
      BY <3>1, <3>2
  <2>10. ASSUME t.left > 0 PROVE m - t.left = Between(info, at, k + 1)
    <3>1. took = had
      BY <1>2, <2>1, <2>2, <2>3, <2>5, <2>10
    <3>2. Between(info, at, k + 1) = Between(info, at, k) + info[k].hi - info[k].lo
      BY <1>1, <1>6, BetweenStep
    <3>3. PICK between, left, lo, hi : /\ between = Between(info, at, k) /\ left = s.left
                                       /\ lo = info[k].lo /\ hi = info[k].hi
      OBVIOUS
    <3>4. /\ between \in Int /\ left \in Nat /\ lo \in Nat /\ hi \in Nat /\ m \in Int
          /\ m - left = between
      BY <1>2, <2>3, <2>9, <3>3
    <3>5. t.left = left - (hi - lo)
      BY <2>1, <2>5, <3>1, <3>3
    <3>6. Between(info, at, k + 1) = between + hi - lo
      BY <3>2, <3>3
    <3>7. m - (left - (hi - lo)) = between + hi - lo
      BY <3>4
    <3>8. QED
      BY <3>5, <3>6, <3>7
  <2>11. ASSUME t.left = 0 PROVE Taken(info, ranges, at, m, t)
    <3>1. took = s.left /\ t.at = k
      <4>1. s.left - took = 0 /\ s.left \in Nat
        BY <1>2, <2>5, <2>11
      <4>2. took = s.left /\ ~ (s.left > had)
        BY <2>6, <4>1
      <4>3. QED
        BY <2>1, <2>5, <4>2
    <3>2. t.info[k].lo = info[k].lo + s.left
      BY <2>4, <2>5, <3>1
    <3>3. Whole(t.info, ranges, k)
      <4>1. \A j \in 1..n : j > k => j > at /\ info[j].lo = ranges[j][1]
        BY <1>1, <1>6 DEF Whole
      <4>2. QED
        BY <2>8, <4>1 DEF Whole
    <3>4. PICK p, first, lo, l, c, u : /\ p = Before(ranges, k - 1) /\ first = ranges[k][1]
                                    /\ lo = info[k].lo /\ l = s.left
                                    /\ c = Position(info, ranges, at)
                                    /\ u = Between(info, at, k)
      OBVIOUS
    <3>5. p \in Nat /\ first \in Nat /\ lo \in Nat /\ l \in Nat /\ u \in Int /\ m - l = u
      <4>1. p \in Nat
        BY <1>1, <3>4, BeforeNat
      <4>2. QED
        BY <1>2, <2>3, <2>9, <3>4, <4>1
    <3>6. Position(t.info, ranges, k) = p + ((lo + l) - first)
      BY <3>2, <3>4 DEF Position
    <3>7. p + ((lo + l) - first) = c + m
      <4>1. CASE k = at
        <5>1. c = p + (lo - first) /\ u = 0
          <6>1. c = p + (lo - first)
            BY <3>4, <4>1 DEF Position
          <6>2. u = 0
            BY <1>1, <3>4, <4>1, BetweenNothing
          <6>3. QED
            BY <6>1, <6>2
        <5>2. QED
          BY <3>5, <5>1
      <4>2. CASE k # at
        <5>1. k - 1 >= at /\ (k - 1) + 1 = k /\ k > at
          BY <1>1, <1>6, <4>2
        <5>2. lo = first
          BY <5>1, <3>4 DEF Whole
        <5>3. Between(info, at, (k - 1) + 1) = Before(ranges, k - 1) - Position(info, ranges, at)
          BY <1>1, <5>1, BetweenIs
        <5>4. u = p - c /\ c \in Int
          <6>1. c \in Int
            <7>1. at - 1 \in 0..n
              BY <1>1
            <7>2. /\ Before(ranges, at - 1) \in Nat /\ info[at].lo \in Int
                  /\ ranges[at][1] \in Int
              BY <7>1, BeforeNat, RowIs
            <7>3. QED
              BY <3>4, <7>2 DEF Position
          <6>2. QED
            BY <3>4, <5>1, <5>3, <6>1
        <5>5. QED
          BY <3>5, <5>2, <5>4
      <4>3. QED
        BY <4>1, <4>2
    <3>8. Position(t.info, ranges, t.at) = Position(info, ranges, at) + m
      BY <3>1, <3>4, <3>6, <3>7
    <3>9. t.at \in at..n
      BY <1>1, <1>6, <3>1
    <3>10. QED
      BY <2>7, <3>1, <3>3, <3>8, <3>9 DEF Taken
  <2>12. QED
    <3>1. ~ (k < at)
      BY <1>1, <1>6
    <3>2. QED
      BY <2>5, <2>6, <2>7, <2>8, <2>10, <2>11, <3>1 DEF AdvancedTo
<1>7. QED
  BY <1>1, <1>4, <1>5, <1>6

\* An advance that finds its sats is that much further in the coin.
LEMMA AdvanceMoves ==
    ASSUME NEW ranges, OfACoin(ranges), NEW info, MovedOn(info, ranges),
           NEW at \in 1..Len(ranges), Whole(info, ranges, at), NEW m \in Nat \ {0},
           NEW next, next = Advance(info, at, m)
    PROVE  /\ next \in Advancing(Len(ranges)) /\ next.left \in Nat
           /\ next.left = 0 => Taken(info, ranges, at, m, next)
<1> DEFINE n == Len(ranges)
<1>1. n \in Nat /\ info \in [1..n -> Row] /\ at \in Nat \ {0} /\ m \in Int
  BY DEF OfACoin, MovedOn
<1>2. Len(info) = n
  BY <1>1, LenOf
<1>3. PICK places : places = [i \in 1..Len(info) |-> i]
  OBVIOUS
<1>4. places \in Seq(1..n) /\ Len(places) = n /\ \A k \in 1..n : places[k] = k
  <2>1. places \in [1..n -> 1..n]
    BY <1>1, <1>2, <1>3
  <2>2. places \in Seq(1..n) /\ Len(places) = n
    BY <1>1, <2>1, LenOf
  <2>3. QED
    BY <1>2, <1>3, <2>2
<1>5. next = AdvanceOver(info, at, m, places)
  BY <1>3, AdvanceIsOver
<1>6. PICK f \in [0..n -> Advancing(n)] :
        /\ f[0] = [info |-> info, left |-> m, at |-> at]
        /\ \A k \in 1..n : f[k] = AdvanceStep(info, at, f[k - 1], places[k])
        /\ AdvanceOver(info, at, m, places) = f[n]
  <2> HIDE DEF n
  <2>1. HasAdvance(n, info, at, m, places)
    <3>1. GoesOver(n, info, at, m, places)
      BY <1>1, <1>4 DEF GoesOver
    <3>2. QED
      BY <3>1, AdvanceRuns
  <2>2. QED
    BY <1>4, <2>1 DEF HasAdvance
<1> DEFINE S == {k \in 0..n : AdvancedTo(info, ranges, at, m, f[k], k)}
<1>7. 0 \in S
  <2>1. f[0] \in Advancing(n) /\ f[0].info = info /\ f[0].left = m
    BY <1>1, <1>6
  <2>2. 0 < at /\ ~ (0 >= at) /\ m \in Nat /\ 0 \in 0..n
    BY <1>1
  <2>3. QED
    BY <2>1, <2>2 DEF AdvancedTo
<1>8. ASSUME NEW k \in 1..n, k - 1 \in S PROVE k \in S
  <2>1. AdvancedTo(info, ranges, at, m, f[k - 1], k - 1) /\ k \in 0..n
    BY <1>8
  <2>2. f[k] = AdvanceStep(info, at, f[k - 1], k)
    BY <1>4, <1>6
  <2>3. PICK s, t : s = f[k - 1] /\ t = f[k]
    OBVIOUS
  <2>4. AdvancedTo(info, ranges, at, m, s, k - 1) /\ t = AdvanceStep(info, at, s, k)
    BY <2>1, <2>2, <2>3
  <2>5. AdvancedTo(info, ranges, at, m, t, k)
    BY <2>4, AdvanceGoesOn
  <2>6. QED
    BY <2>1, <2>3, <2>5
<1>9. n \in S
  <2> HIDE DEF S, n
  <2>1. \A k \in 0..n : k \in S
    BY <1>1, <1>7, <1>8, StepsReach
  <2>2. QED
    BY <1>1, <2>1
<1>10. AdvancedTo(info, ranges, at, m, next, n)
  BY <1>5, <1>6, <1>9
<1>11. n >= at
  BY <1>1
<1>12. QED
  BY <1>10, <1>11 DEF AdvancedTo

\* Sums over the first places of a sequence of numbers.
SumTo(v, k) == SumFunction([j \in 1..k |-> v[j]])

LEMMA SumToNone == ASSUME NEW v PROVE SumTo(v, 0) = 0
<1>1. DOMAIN [j \in 1..0 |-> v[j]] = {}
  OBVIOUS
<1>2. QED
  BY <1>1, SumOfNone DEF SumTo

LEMMA SumToStep ==
    ASSUME NEW v \in Seq(Int), NEW k \in 1..Len(v)
    PROVE  SumTo(v, k) = SumTo(v, k - 1) + v[k] /\ SumTo(v, k - 1) \in Int /\ v[k] \in Int
<1>1. PICK f : f = [j \in 1..k |-> v[j]]
  OBVIOUS
<1>2. PICK g : g = [j \in 1..(k - 1) |-> v[j]]
  OBVIOUS
<1>3. \A j \in 1..k : v[j] \in Int
  OBVIOUS
<1>4. OneLonger(f, g, k)
  BY <1>1, <1>2, <1>3 DEF OneLonger
<1>5. SumFunction(f) = f[k] + SumFunction(g) /\ SumFunction(g) \in Int
  BY <1>4, SumOneLonger
<1>6. SumTo(v, k) = SumFunction(f) /\ SumTo(v, k - 1) = SumFunction(g)
  BY <1>1, <1>2 DEF SumTo
<1>7. f[k] = v[k]
  BY <1>1
<1>8. QED
  BY <1>3, <1>5, <1>6, <1>7

LEMMA SumToInt ==
    ASSUME NEW v \in Seq(Int)
    PROVE  \A k \in 0..Len(v) : SumTo(v, k) \in Int
<1>1. ASSUME NEW k \in 0..Len(v) PROVE SumTo(v, k) \in Int
  <2>1. CASE k = 0
    BY <2>1, SumToNone
  <2>2. CASE k # 0
    <3>1. k \in 1..Len(v)
      BY <2>2
    <3>2. SumTo(v, k) = SumTo(v, k - 1) + v[k] /\ SumTo(v, k - 1) \in Int /\ v[k] \in Int
      BY <3>1, SumToStep
    <3>3. QED
      BY <3>2
  <2>3. QED
    BY <2>1, <2>2
<1>2. QED
  BY <1>1

LEMMA SumToSame ==
    ASSUME NEW v, NEW w, NEW k, \A j \in 1..k : v[j] = w[j]
    PROVE  SumTo(v, k) = SumTo(w, k)
<1>1. [j \in 1..k |-> v[j]] = [j \in 1..k |-> w[j]]
  OBVIOUS
<1>2. QED
  BY <1>1 DEF SumTo

LEMMA SumToZero ==
    ASSUME NEW v \in Seq(Int), \A j \in 1..Len(v) : v[j] = 0
    PROVE  \A k \in 0..Len(v) : SumTo(v, k) = 0
<1> DEFINE n == Len(v)
           S == {k \in 0..n : SumTo(v, k) = 0}
<1>1. n \in Nat /\ 0 \in S
  BY SumToNone
<1>2. ASSUME NEW k \in 1..n, k - 1 \in S PROVE k \in S
  <2>1. SumTo(v, k) = SumTo(v, k - 1) + v[k]
    BY SumToStep
  <2>2. k \in 0..n /\ SumTo(v, k - 1) = 0 /\ v[k] = 0
    BY <1>2
  <2>3. QED
    BY <2>1, <2>2
<1> HIDE DEF S, n
<1>3. \A k \in 0..n : k \in S
  BY <1>1, <1>2, StepsReach
<1>4. QED
  BY <1>3 DEF S, n

\* c is a with b after it.
Joins(a, b, c) ==
    /\ a \in Seq(Int) /\ b \in Seq(Int) /\ c \in Seq(Int)
    /\ Len(c) = Len(a) + Len(b)
    /\ \A j \in 1..Len(a) : c[j] = a[j]
    /\ \A j \in 1..Len(b) : c[Len(a) + j] = b[j]

LEMMA SumToConcat ==
    ASSUME NEW a, NEW b, NEW c, Joins(a, b, c)
    PROVE  /\ \A k \in 0..Len(a) : SumTo(c, k) = SumTo(a, k)
           /\ \A k \in 0..Len(b) : SumTo(c, Len(a) + k) = SumTo(a, Len(a)) + SumTo(b, k)
<1>1. a \in Seq(Int) /\ b \in Seq(Int)
  BY DEF Joins
<1>2. /\ c \in Seq(Int) /\ Len(c) = Len(a) + Len(b)
      /\ Len(a) \in Nat /\ Len(b) \in Nat
      /\ \A j \in 1..Len(a) : c[j] = a[j]
      /\ \A j \in 1..Len(b) : c[Len(a) + j] = b[j]
  BY <1>1 DEF Joins
<1>3. ASSUME NEW k \in 0..Len(a) PROVE SumTo(c, k) = SumTo(a, k)
  <2>1. \A j \in 1..k : c[j] = a[j]
    BY <1>2
  <2>2. QED
    BY <2>1, SumToSame
<1> DEFINE n == Len(b)
           S == {k \in 0..n : SumTo(c, Len(a) + k) = SumTo(a, Len(a)) + SumTo(b, k)}
<1>4. SumTo(a, Len(a)) \in Int
  BY <1>1, <1>2, SumToInt
<1>5. 0 \in S
  <2>1. SumTo(c, Len(a)) = SumTo(a, Len(a)) /\ Len(a) + 0 = Len(a)
    BY <1>2, <1>3
  <2>2. SumTo(b, 0) = 0
    BY SumToNone
  <2>3. QED
    BY <1>2, <1>4, <2>1, <2>2
<1>6. ASSUME NEW k \in 1..n, k - 1 \in S PROVE k \in S
  <2>1. SumTo(b, k) = SumTo(b, k - 1) + b[k] /\ SumTo(b, k - 1) \in Int /\ b[k] \in Int
    BY <1>1, SumToStep
  <2>2. Len(a) + k \in 1..Len(c) /\ (Len(a) + k) - 1 = Len(a) + (k - 1)
    BY <1>2
  <2>3. SumTo(c, Len(a) + k) = SumTo(c, Len(a) + (k - 1)) + c[Len(a) + k]
    <3>1. PICK m : m = Len(a) + k
      OBVIOUS
    <3>2. m \in 1..Len(c)
      BY <2>2, <3>1
    <3>3. SumTo(c, m) = SumTo(c, m - 1) + c[m]
      BY <1>2, <3>2, SumToStep
    <3>4. QED
      BY <2>2, <3>1, <3>3
  <2>4. SumTo(c, Len(a) + (k - 1)) = SumTo(a, Len(a)) + SumTo(b, k - 1)
    BY <1>6
  <2>5. c[Len(a) + k] = b[k]
    BY <1>2
  <2>6. SumTo(c, Len(a) + k) = SumTo(a, Len(a)) + SumTo(b, k)
    BY <1>4, <2>1, <2>3, <2>4, <2>5
  <2>7. QED
    BY <2>6
<1>7. \A k \in 0..n : k \in S
  <2> HIDE DEF S
  <2>1. QED
    BY <1>2, <1>5, <1>6, StepsReach
<1>8. QED
  BY <1>1, <1>3, <1>7

LEMMA TotalIs == ASSUME NEW v \in Seq(Int) PROVE Total(v) = SumTo(v, Len(v))
<1>1. v = [j \in 1..Len(v) |-> v[j]]
  OBVIOUS
<1>2. QED
  BY <1>1 DEF Total, SumTo

\* Payouts are taken while what is left covers them.
Assigning == [left : Int, paid : Seq(Nat), kept : Seq(Nat)]
GreedyStep(s, p) ==
    IF s.left > 0 /\ p <= s.left
    THEN [s EXCEPT !.left = @ - p, !.paid = Append(@, p)]
    ELSE [s EXCEPT !.kept = Append(@, p)]

LEMMA GreedyStepType ==
    ASSUME NEW s \in Assigning, NEW p \in Nat
    PROVE  GreedyStep(s, p) \in Assigning
<1>1. s.left \in Int /\ s.paid \in Seq(Nat) /\ s.kept \in Seq(Nat)
  BY DEF Assigning
<1>2. s = [left |-> s.left, paid |-> s.paid, kept |-> s.kept]
  BY DEF Assigning
<1>3. CASE s.left > 0 /\ p <= s.left
  <2>1. GreedyStep(s, p) = [left |-> s.left - p, paid |-> Append(s.paid, p), kept |-> s.kept]
    BY <1>2, <1>3 DEF GreedyStep
  <2>2. s.left - p \in Int /\ Append(s.paid, p) \in Seq(Nat)
    BY <1>1
  <2>3. QED
    BY <1>1, <2>1, <2>2 DEF Assigning
<1>4. CASE ~ (s.left > 0 /\ p <= s.left)
  <2>1. GreedyStep(s, p) = [left |-> s.left, paid |-> s.paid, kept |-> Append(s.kept, p)]
    BY <1>2, <1>4 DEF GreedyStep
  <2>2. Append(s.kept, p) \in Seq(Nat)
    BY <1>1
  <2>3. QED
    BY <1>1, <2>1, <2>2 DEF Assigning
<1>5. QED
  BY <1>3, <1>4

\* The states of an assignment, payout by payout.
LEMMA GreedyStates ==
    ASSUME NEW total \in Int, NEW payouts \in Seq(Nat)
    PROVE  \E f \in [0..Len(payouts) -> Assigning] :
             /\ f[0] = [left |-> total, paid |-> <<>>, kept |-> <<>>]
             /\ \A k \in 1..Len(payouts) : f[k] = GreedyStep(f[k - 1], payouts[k])
             /\ GreedyAssignOuts(total, payouts) = f[Len(payouts)]
<1> DEFINE n == Len(payouts)
           base == [left |-> total, paid |-> <<>>, kept |-> <<>>]
           op == [p \in (Assigning) \X (Nat) |-> GreedyStep(p[1], p[2])]
           Rec(t) == [s \in SUBSET (1..n) |-> IF s = {} THEN base
                        ELSE GreedyStep(t[s \ {Max(s)}], payouts[Max(s)])]
           iter == CHOOSE t : t = Rec(t)
<1>1. n \in Nat /\ n \in 0..n /\ DOMAIN payouts = 1..n /\ payouts \in [1..n -> Nat]
  OBVIOUS
<1>2. GreedyAssignOuts(total, payouts) = iter[1..n]
  BY <1>1 DEF GreedyAssignOuts, FoldLeft, MapThenFoldSet, GreedyStep
<1>3. base \in Assigning
  BY DEF Assigning
<1>4. op \in [(Assigning) \X (Nat) -> Assigning]
  BY GreedyStepType
<1> HIDE DEF base, op
<1>5. PICK t \in [SUBSET (1..n) -> Assigning] : IsFoldTable(t, op, base, payouts, n)
  <2> HIDE DEF n
  <2>1. Folds(Assigning, Nat, op, base, payouts, n)
    BY <1>1, <1>3, <1>4 DEF Folds
  <2>2. HasTable(Assigning, op, base, payouts, n)
    BY <2>1, FoldHasTable
  <2>3. QED
    BY <2>2 DEF HasTable
<1>6. \A s \in SUBSET (1..n) : s # {} =>
        op[<<t[s \ {Max(s)}], payouts[Max(s)]>>] = GreedyStep(t[s \ {Max(s)}], payouts[Max(s)])
  <2>1. SUFFICES ASSUME NEW s \in SUBSET (1..n), s # {}
                 PROVE  op[<<t[s \ {Max(s)}], payouts[Max(s)]>>] =
                          GreedyStep(t[s \ {Max(s)}], payouts[Max(s)])
    OBVIOUS
  <2>2. Max(s) \in 1..n /\ s \ {Max(s)} \in SUBSET (1..n)
    BY <1>1, <2>1, LastPlace
  <2>3. t[s \ {Max(s)}] \in Assigning /\ payouts[Max(s)] \in Nat
    BY <2>2, <1>1
  <2>4. QED
    BY <2>3 DEF op
<1>7. t = Rec(t)
  <2>1. \A s \in SUBSET (1..n) : t[s] = Rec(t)[s]
    BY <1>5, <1>6 DEF IsFoldTable
  <2>2. QED
    BY <2>1
<1>8. iter = Rec(iter)
  BY <1>7
<1> HIDE DEF iter
<1>9. Follows(iter, t, Assigning, op, base, payouts, n)
  <2>1. iter[{}] = base
    BY <1>8
  <2>2. \A s \in SUBSET (1..n) :
          s # {} /\ iter[s \ {Max(s)}] = t[s \ {Max(s)}] => iter[s] = t[s]
    BY <1>7, <1>8
  <2>3. QED
    BY <2>1, <2>2, <1>1, <1>5 DEF Follows
<1> DEFINE f == RunOf(iter, n)
<1>10. IsRun(f, Assigning, op, base, payouts, n) /\ iter[1..n] = f[n]
  BY <1>9, FoldRun
<1> HIDE DEF f
<1>11. /\ f \in [0..n -> Assigning] /\ f[0] = base
       /\ \A k \in 1..n : f[k] = GreedyStep(f[k - 1], payouts[k])
  <2>1. \A k \in 1..n : f[k - 1] \in Assigning /\ payouts[k] \in Nat
    <3>1. \A k \in 1..n : k - 1 \in 0..n
      BY <1>1
    <3>2. f \in [0..n -> Assigning]
      BY <1>10 DEF IsRun
    <3> HIDE DEF n
    <3>3. QED
      BY <3>1, <3>2, <1>1
  <2>2. QED
    BY <1>10, <2>1 DEF op, IsRun
<1>12. QED
  BY <1>2, <1>10, <1>11, Zenon DEF base

\* What is paid and what is left are all there was.
LEMMA GreedyAssigns ==
    ASSUME NEW total \in Int, NEW payouts \in Seq(Nat),
           NEW outs, outs = GreedyAssignOuts(total, payouts)
    PROVE  /\ outs \in Assigning
           /\ total >= 0 => /\ outs.left >= 0
                            /\ SumTo(outs.paid, Len(outs.paid)) = total - outs.left
<1> DEFINE n == Len(payouts)
<1>1. n \in Nat /\ \A k \in 1..n : payouts[k] \in Nat
  OBVIOUS
<1>2. PICK f \in [0..n -> Assigning] :
        /\ f[0] = [left |-> total, paid |-> <<>>, kept |-> <<>>]
        /\ \A k \in 1..n : f[k] = GreedyStep(f[k - 1], payouts[k])
        /\ GreedyAssignOuts(total, payouts) = f[n]
  BY GreedyStates
<1> DEFINE Good(s) == total >= 0 => /\ s.left >= 0
                                    /\ SumTo(s.paid, Len(s.paid)) = total - s.left
           S == {k \in 0..n : Good(f[k])}
<1>3. 0 \in S
  <2>1. f[0].left = total /\ f[0].paid = <<>> /\ Len(<<>>) = 0
    BY <1>2
  <2>2. SumTo(f[0].paid, Len(f[0].paid)) = 0
    BY <2>1, SumToNone
  <2>3. 0 \in 0..n
    BY <1>1
  <2>4. QED
    BY <2>1, <2>2, <2>3
<1>4. ASSUME NEW k \in 1..n, k - 1 \in S PROVE k \in S
  <2>1. PICK s, t, p : s = f[k - 1] /\ t = f[k] /\ p = payouts[k] /\ t = GreedyStep(s, p)
    BY <1>2
  <2>2. k - 1 \in 0..n /\ k \in 0..n /\ Good(s)
    BY <1>4, <2>1
  <2>3. s \in Assigning /\ p \in Nat
    BY <1>1, <1>2, <2>1, <2>2
  <2>4. s.left \in Int /\ s.paid \in Seq(Nat)
    BY <2>3 DEF Assigning
  <2>5. CASE s.left > 0 /\ p <= s.left
    <3>1. t.left = s.left - p /\ t.paid = Append(s.paid, p)
      BY <2>1, <2>3, <2>5 DEF GreedyStep, Assigning
    <3>2. PICK v : v = t.paid
      OBVIOUS
    <3>3. /\ v \in Seq(Int) /\ Len(v) = Len(s.paid) + 1 /\ v[Len(s.paid) + 1] = p
          /\ Len(s.paid) \in Nat /\ \A j \in 1..Len(s.paid) : v[j] = s.paid[j]
      <4>1. PICK paid : paid = s.paid
        OBVIOUS
      <4>2. paid \in Seq(Int) /\ p \in Int /\ v = Append(paid, p)
        BY <2>3, <2>4, <3>1, <3>2, <4>1
      <4>3. QED
        BY <4>1, <4>2
    <3>4. SumTo(v, Len(v)) = SumTo(v, Len(v) - 1) + v[Len(v)]
      <4>1. Len(v) \in 1..Len(v)
        BY <3>3
      <4>2. QED
        BY <3>3, <4>1, SumToStep
    <3>5. SumTo(v, Len(s.paid)) = SumTo(s.paid, Len(s.paid))
      BY <3>3, SumToSame
    <3>6. Len(v) - 1 = Len(s.paid)
      BY <3>3
    <3>7. SumTo(v, Len(v)) = SumTo(s.paid, Len(s.paid)) + p
      BY <3>3, <3>4, <3>5, <3>6
    <3>8. PICK left, paidSum : left = s.left /\ paidSum = SumTo(s.paid, Len(s.paid))
      OBVIOUS
    <3>9. /\ left \in Int /\ p \in Int /\ p <= left
          /\ t.left = left - p /\ SumTo(t.paid, Len(t.paid)) = paidSum + p
      BY <2>3, <2>4, <2>5, <3>1, <3>2, <3>7, <3>8
    <3>10. total >= 0 => paidSum = total - left
      BY <2>2, <3>8
    <3>11. total >= 0 => left - p >= 0 /\ paidSum + p = total - (left - p)
      BY <3>9, <3>10
    <3>12. Good(t)
      BY <3>9, <3>11
    <3>13. QED
      BY <2>1, <2>2, <3>12
  <2>6. CASE ~ (s.left > 0 /\ p <= s.left)
    <3>1. t.left = s.left /\ t.paid = s.paid
      BY <2>1, <2>3, <2>6 DEF GreedyStep, Assigning
    <3>2. Good(t)
      BY <2>2, <3>1
    <3>3. QED
      BY <2>1, <2>2, <3>2
  <2>7. QED
    BY <2>5, <2>6
<1>5. n \in S
  <2> HIDE DEF S, n
  <2>1. \A k \in 0..n : k \in S
    BY <1>1, <1>3, <1>4, StepsReach
  <2>2. QED
    BY <1>1, <2>1
<1>6. QED
  BY <1>1, <1>2, <1>5

\* The states of a count of all the sats.
LEMMA TotalStates ==
    ASSUME NEW ranges \in Seq(Nat \X Nat)
    PROVE  \E f \in [0..Len(ranges) -> Int] :
             /\ f[0] = 0
             /\ \A k \in 1..Len(ranges) : f[k] = f[k - 1] + Width(ranges[k])
             /\ TotalSats(ranges) = f[Len(ranges)]
<1> DEFINE n == Len(ranges)
           base == 0
           op == [p \in (Int) \X (Nat \X Nat) |-> p[1] + Width(p[2])]
           Rec(t) == [s \in SUBSET (1..n) |-> IF s = {} THEN base
                        ELSE t[s \ {Max(s)}] + Width(ranges[Max(s)])]
           iter == CHOOSE t : t = Rec(t)
<1>1. n \in Nat /\ n \in 0..n /\ DOMAIN ranges = 1..n /\ ranges \in [1..n -> Nat \X Nat]
  OBVIOUS
<1>2. TotalSats(ranges) = iter[1..n]
  BY <1>1 DEF TotalSats, FoldLeft, MapThenFoldSet
<1>3. base \in Int
  OBVIOUS
<1>4. op \in [(Int) \X (Nat \X Nat) -> Int]
  BY DEF Width
<1> HIDE DEF base, op
<1>5. PICK t \in [SUBSET (1..n) -> Int] : IsFoldTable(t, op, base, ranges, n)
  <2> HIDE DEF n
  <2>1. Folds(Int, Nat \X Nat, op, base, ranges, n)
    BY <1>1, <1>3, <1>4 DEF Folds
  <2>2. HasTable(Int, op, base, ranges, n)
    BY <2>1, FoldHasTable
  <2>3. QED
    BY <2>2 DEF HasTable
<1>6. \A s \in SUBSET (1..n) : s # {} =>
        op[<<t[s \ {Max(s)}], ranges[Max(s)]>>] = t[s \ {Max(s)}] + Width(ranges[Max(s)])
  <2>1. SUFFICES ASSUME NEW s \in SUBSET (1..n), s # {}
                 PROVE  op[<<t[s \ {Max(s)}], ranges[Max(s)]>>] =
                          t[s \ {Max(s)}] + Width(ranges[Max(s)])
    OBVIOUS
  <2>2. Max(s) \in 1..n /\ s \ {Max(s)} \in SUBSET (1..n)
    BY <1>1, <2>1, LastPlace
  <2>3. t[s \ {Max(s)}] \in Int /\ ranges[Max(s)] \in Nat \X Nat
    BY <2>2, <1>1
  <2>4. QED
    BY <2>3 DEF op
<1>7. t = Rec(t)
  <2>1. \A s \in SUBSET (1..n) : t[s] = Rec(t)[s]
    BY <1>5, <1>6 DEF IsFoldTable
  <2>2. QED
    BY <2>1
<1>8. iter = Rec(iter)
  BY <1>7
<1> HIDE DEF iter
<1>9. Follows(iter, t, Int, op, base, ranges, n)
  <2>1. iter[{}] = base
    BY <1>8
  <2>2. \A s \in SUBSET (1..n) :
          s # {} /\ iter[s \ {Max(s)}] = t[s \ {Max(s)}] => iter[s] = t[s]
    BY <1>7, <1>8
  <2>3. QED
    BY <2>1, <2>2, <1>1, <1>5 DEF Follows
<1> DEFINE f == RunOf(iter, n)
<1>10. IsRun(f, Int, op, base, ranges, n) /\ iter[1..n] = f[n]
  BY <1>9, FoldRun
<1> HIDE DEF f
<1>11. /\ f \in [0..n -> Int] /\ f[0] = base
       /\ \A k \in 1..n : f[k] = f[k - 1] + Width(ranges[k])
  <2>1. \A k \in 1..n : f[k - 1] \in Int /\ ranges[k] \in Nat \X Nat
    <3>1. \A k \in 1..n : k - 1 \in 0..n
      BY <1>1
    <3>2. f \in [0..n -> Int]
      BY <1>10 DEF IsRun
    <3> HIDE DEF n
    <3>3. QED
      BY <3>1, <3>2, <1>1
  <2>2. QED
    BY <1>10, <2>1 DEF op, IsRun
<1>12. QED
  BY <1>2, <1>10, <1>11, Zenon DEF base

LEMMA TotalSatsIs ==
    ASSUME NEW ranges, OfACoin(ranges)
    PROVE  TotalSats(ranges) = Before(ranges, Len(ranges)) /\ TotalSats(ranges) \in Nat
<1> DEFINE n == Len(ranges)
<1>1. n \in Nat /\ ranges \in Seq(Nat \X Nat)
  BY DEF OfACoin
<1>2. PICK f \in [0..n -> Int] :
        /\ f[0] = 0
        /\ \A k \in 1..n : f[k] = f[k - 1] + Width(ranges[k])
        /\ TotalSats(ranges) = f[n]
  BY <1>1, TotalStates
<1> DEFINE S == {k \in 0..n : f[k] = Before(ranges, k)}
<1>3. 0 \in S
  BY <1>1, <1>2, BeforeNone
<1>4. ASSUME NEW k \in 1..n, k - 1 \in S PROVE k \in S
  <2>1. f[k] = f[k - 1] + Width(ranges[k]) /\ k \in 0..n
    BY <1>1, <1>2
  <2>2. f[k - 1] = Before(ranges, k - 1)
    BY <1>4
  <2>3. Before(ranges, k) = Before(ranges, k - 1) + Width(ranges[k])
    BY BeforeGrows
  <2>4. QED
    BY <2>1, <2>2, <2>3
<1>5. n \in S
  <2> HIDE DEF S, n
  <2>1. \A k \in 0..n : k \in S
    BY <1>1, <1>3, <1>4, StepsReach
  <2>2. QED
    BY <1>1, <2>1
<1>6. Before(ranges, n) \in Nat
  BY <1>1, BeforeNat
<1>7. QED
  BY <1>2, <1>5, <1>6

\* An advance from a range of the coin leaves rows.
LEMMA AdvanceType ==
    ASSUME NEW n \in Nat, NEW info \in [1..n -> Row], NEW at \in 1..n, NEW m \in Int
    PROVE  Advance(info, at, m) \in Advancing(n)
<1>1. Len(info) = n
  BY LenOf
<1>2. PICK places : places = [i \in 1..Len(info) |-> i]
  OBVIOUS
<1>3. places \in Seq(1..n) /\ Len(places) = n
  <2>1. places \in [1..n -> 1..n]
    BY <1>1, <1>2
  <2>2. QED
    BY <2>1, LenOf
<1>4. Advance(info, at, m) = AdvanceOver(info, at, m, places)
  BY <1>2, AdvanceIsOver
<1>5. GoesOver(n, info, at, m, places)
  BY <1>3 DEF GoesOver
<1>6. HasAdvance(n, info, at, m, places)
  BY <1>5, AdvanceRuns
<1>7. PICK f \in [0..n -> Advancing(n)] : AdvanceOver(info, at, m, places) = f[n]
  BY <1>3, <1>6 DEF HasAdvance
<1>8. QED
  BY <1>4, <1>7

\* The search for each ordinal in turn.
NoError == ""
Found == [idx : Int, ord : Nat]
Scanning(n) ==
    [info : [1..n -> Row], at : Nat \ {0}, error : {NoError, "Ordinal Not Found", "panic"},
     order : Seq(Found)]

LEMMA ScanningIs ==
    ASSUME NEW n, NEW info \in [1..n -> Row], NEW at \in Nat \ {0},
           NEW error \in {NoError, "Ordinal Not Found", "panic"},
           NEW order \in Seq(Found)
    PROVE  [info |-> info, at |-> at, error |-> error, order |-> order] \in Scanning(n)
BY Zenon DEF Scanning

FindIn(s, ord, n) == {i \in s.at .. n : s.info[i].lo <= ord /\ ord < s.info[i].hi}
FirstIn(in) == CHOOSE j \in in : \A k \in in : j <= k
FindStep(info, s, ord) ==
    LET in == FindIn(s, ord, Len(info))
        i == FirstIn(in)
        next == Advance(s.info, i, Padding + 1)
    IN  IF s.error # NoError THEN s
        ELSE IF in = {} THEN [s EXCEPT !.error = "Ordinal Not Found"]
        ELSE IF next.left > 0 THEN [s EXCEPT !.error = "panic"]
        ELSE [info |-> next.info, at |-> next.at, error |-> NoError,
              order |-> Append(s.order, [idx |-> info[i].idx, ord |-> ord])]

FindOver(info, list) ==
    FoldLeft(LAMBDA s, ord : FindStep(info, s, ord),
             [info |-> info, at |-> 1, error |-> NoError, order |-> <<>>], list)

Less(ordinals) == {p \in ordinals \X ordinals : p[1] < p[2]}

LEMMA FindIsOver ==
    ASSUME NEW info, NEW ordinals
    PROVE  FindOrdinals(info, ordinals) = FindOver(info, Listed(ordinals, Less(ordinals)))
BY Zenon DEF FindOrdinals, NoError, FindOver, FindStep, FindIn, FirstIn, Less

LEMMA FirstInIs ==
    ASSUME NEW n \in Nat, NEW s \in Scanning(n), NEW ord, NEW in, in = FindIn(s, ord, n),
           in # {}
    PROVE  /\ FirstIn(in) \in 1..n /\ FirstIn(in) >= s.at
           /\ s.info[FirstIn(in)].lo <= ord /\ ord < s.info[FirstIn(in)].hi
<1>1. s.at \in Nat \ {0}
  BY DEF Scanning
<1>2. \A i \in in : /\ i \in 1..n /\ i >= s.at
                    /\ s.info[i].lo <= ord /\ ord < s.info[i].hi
  BY <1>1 DEF FindIn
<1>3. in \in SUBSET Nat
  BY <1>2
<1>4. \E j \in in : \A k \in in : j <= k
  BY <1>3, LeastNat
<1>5. FirstIn(in) \in in
  BY <1>4 DEF FirstIn
<1>6. QED
  BY <1>2, <1>5

\* An ordinal that is found is found in a range that is not passed yet.
FoundAt(n, s, ord, i, t) ==
    /\ i \in 1..n /\ i >= s.at /\ s.info[i].lo <= ord /\ ord < s.info[i].hi
    /\ ~ (Advance(s.info, i, Padding + 1).left > 0)
    /\ t.info = Advance(s.info, i, Padding + 1).info
    /\ t.at = Advance(s.info, i, Padding + 1).at

Finds(n, info, s, ord) ==
    n \in Nat /\ info \in [1..n -> Row] /\ s \in Scanning(n) /\ ord \in Nat
FoundBy(n, info, s, ord, t) ==
    t.error = NoError =>
      /\ s.error = NoError
      /\ \E i \in 1..n : /\ FoundAt(n, s, ord, i, t)
                         /\ t.order = Append(s.order, [idx |-> info[i].idx, ord |-> ord])

LEMMA FindStepFinds ==
    ASSUME NEW n, NEW info, NEW s, NEW ord, Finds(n, info, s, ord),
           NEW t, t = FindStep(info, s, ord)
    PROVE  t \in Scanning(n) /\ FoundBy(n, info, s, ord, t)
<1> SUFFICES /\ t \in Scanning(n)
             /\ t.error = NoError =>
                  /\ s.error = NoError
                  /\ \E i \in 1..n : /\ FoundAt(n, s, ord, i, t)
                                     /\ t.order = Append(s.order, [idx |-> info[i].idx, ord |-> ord])
  BY Zenon DEF FoundBy
<1>a. n \in Nat /\ info \in [1..n -> Row] /\ s \in Scanning(n) /\ ord \in Nat
  BY DEF Finds
<1> USE <1>a
<1>0. Len(info) = n
  BY LenOf
<1>1. /\ s = [info |-> s.info, at |-> s.at, error |-> s.error, order |-> s.order]
      /\ s.info \in [1..n -> Row] /\ s.at \in Nat \ {0}
      /\ s.error \in {NoError, "Ordinal Not Found", "panic"}
      /\ s.order \in Seq(Found)
  BY DEF Scanning
<1>2. PICK in : in = FindIn(s, ord, n)
  OBVIOUS
<1>3. PICK i : i = FirstIn(in)
  OBVIOUS
<1>4. PICK next : next = Advance(s.info, i, Padding + 1)
  OBVIOUS
<1>5. t = IF s.error # NoError THEN s
          ELSE IF in = {} THEN [s EXCEPT !.error = "Ordinal Not Found"]
          ELSE IF next.left > 0 THEN [s EXCEPT !.error = "panic"]
          ELSE [info |-> next.info, at |-> next.at, error |-> NoError,
                order |-> Append(s.order, [idx |-> info[i].idx, ord |-> ord])]
  BY <1>0, <1>2, <1>3, <1>4, Zenon DEF FindStep
<1>6. CASE s.error # NoError
  BY <1>5, <1>6
<1>7. CASE s.error = NoError /\ in = {}
  <2>1. PICK u : u = [info |-> s.info, at |-> s.at, error |-> "Ordinal Not Found", order |-> s.order]
    OBVIOUS
  <2>2. t = u
    BY <1>1, <1>5, <1>7, <2>1
  <2>3. u \in Scanning(n)
    BY <1>1, <2>1, ScanningIs
  <2>4. u.error # NoError
    BY <2>1, Zenon DEF NoError
  <2>5. QED
    BY <2>2, <2>3, <2>4
<1>8. CASE s.error = NoError /\ in # {} /\ next.left > 0
  <2>1. PICK u : u = [info |-> s.info, at |-> s.at, error |-> "panic", order |-> s.order]
    OBVIOUS
  <2>2. t = u
    BY <1>1, <1>5, <1>8, <2>1
  <2>3. u \in Scanning(n)
    BY <1>1, <2>1, ScanningIs
  <2>4. u.error # NoError
    BY <2>1, Zenon DEF NoError
  <2>5. QED
    BY <2>2, <2>3, <2>4
<1>9. CASE s.error = NoError /\ in # {} /\ ~ (next.left > 0)
  <2>1. PICK e : e = [idx |-> info[i].idx, ord |-> ord]
    OBVIOUS
  <2>2. PICK u : u = [info |-> next.info, at |-> next.at, error |-> NoError,
                      order |-> Append(s.order, e)]
    OBVIOUS
  <2>3. /\ i \in 1..n /\ i >= s.at /\ s.info[i].lo <= ord /\ ord < s.info[i].hi
    BY <1>2, <1>3, <1>9, FirstInIs
  <2>4. next \in Advancing(n)
    <3>1. Padding + 1 \in Int
      BY PaddingAssumption
    <3>2. QED
      BY <1>1, <1>4, <2>3, <3>1, AdvanceType
  <2>5. e \in Found
    <3>1. info[i] \in Row
      BY <2>3
    <3>2. info[i].idx \in Int
      BY <3>1 DEF Row
    <3>3. QED
      BY <2>1, <3>2 DEF Found
  <2>6. next.info \in [1..n -> Row] /\ next.at \in Nat \ {0} /\ Append(s.order, e) \in Seq(Found)
    <3>1. next.info \in [1..n -> Row] /\ next.at \in Nat \ {0}
      BY <2>4 DEF Advancing
    <3>2. s.order \in Seq(Found)
      BY <1>1
    <3>3. Append(s.order, e) \in Seq(Found)
      BY <2>5, <3>2
    <3>4. QED
      BY <3>1, <3>3
  <2>7. u \in Scanning(n)
    BY <2>2, <2>6, ScanningIs
  <2>8. t.info = next.info /\ t.at = next.at /\ t.order = Append(s.order, e)
    <3>1. u.info = next.info /\ u.at = next.at /\ u.order = Append(s.order, e)
      BY <2>2
    <3>2. t = u
      BY <1>5, <1>9, <2>1, <2>2, Zenon
    <3>3. QED
      BY <3>1, <3>2, Zenon
  <2>9. FoundAt(n, s, ord, i, t)
    BY <1>4, <1>9, <2>3, <2>8, Zenon DEF FoundAt
  <2>10. QED
    <3>1. t = u
      BY <1>5, <1>9, <2>1, <2>2, Zenon
    <3>2. QED
      BY <1>9, <2>1, <2>3, <2>7, <2>8, <2>9, <3>1
<1>10. QED
  BY <1>6, <1>7, <1>8, <1>9

LEMMA FindStepType ==
    ASSUME NEW n \in Nat, NEW info \in [1..n -> Row], NEW s \in Scanning(n), NEW ord \in Nat
    PROVE  FindStep(info, s, ord) \in Scanning(n)
<1>1. Finds(n, info, s, ord)
  BY DEF Finds
<1>2. QED
  BY <1>1, FindStepFinds

\* The states of the search, ordinal by ordinal.
LEMMA FindStates ==
    ASSUME NEW m \in Nat, NEW info \in [1..m -> Row], NEW list \in Seq(Nat)
    PROVE  \E f \in [0..Len(list) -> Scanning(m)] :
             /\ f[0] = [info |-> info, at |-> 1, error |-> NoError, order |-> <<>>]
             /\ \A k \in 1..Len(list) : f[k] = FindStep(info, f[k - 1], list[k])
             /\ FindOver(info, list) = f[Len(list)]
<1> DEFINE n == Len(list)
           base == [info |-> info, at |-> 1, error |-> NoError, order |-> <<>>]
           op == [p \in (Scanning(m)) \X (Nat) |-> FindStep(info, p[1], p[2])]
           Rec(t) == [s \in SUBSET (1..n) |-> IF s = {} THEN base
                        ELSE FindStep(info, t[s \ {Max(s)}], list[Max(s)])]
           iter == CHOOSE t : t = Rec(t)
<1>1. n \in Nat /\ n \in 0..n /\ DOMAIN list = 1..n /\ list \in [1..n -> Nat]
  OBVIOUS
<1>2. FindOver(info, list) = iter[1..n]
  BY <1>1 DEF FindOver, FoldLeft, MapThenFoldSet
<1>3. base \in Scanning(m)
  <2>1. <<>> \in Seq(Found) /\ 1 \in Nat \ {0}
    OBVIOUS
  <2>2. QED
    BY <2>1, ScanningIs
<1>4. op \in [(Scanning(m)) \X (Nat) -> Scanning(m)]
  BY FindStepType
<1> HIDE DEF base, op
<1>5. PICK t \in [SUBSET (1..n) -> Scanning(m)] : IsFoldTable(t, op, base, list, n)
  <2> HIDE DEF n
  <2>1. Folds(Scanning(m), Nat, op, base, list, n)
    BY <1>1, <1>3, <1>4 DEF Folds
  <2>2. HasTable(Scanning(m), op, base, list, n)
    BY <2>1, FoldHasTable
  <2>3. QED
    BY <2>2 DEF HasTable
<1>6. \A s \in SUBSET (1..n) : s # {} =>
        op[<<t[s \ {Max(s)}], list[Max(s)]>>] = FindStep(info, t[s \ {Max(s)}], list[Max(s)])
  <2>1. SUFFICES ASSUME NEW s \in SUBSET (1..n), s # {}
                 PROVE  op[<<t[s \ {Max(s)}], list[Max(s)]>>] =
                          FindStep(info, t[s \ {Max(s)}], list[Max(s)])
    OBVIOUS
  <2>2. Max(s) \in 1..n /\ s \ {Max(s)} \in SUBSET (1..n)
    BY <1>1, <2>1, LastPlace
  <2>3. t[s \ {Max(s)}] \in Scanning(m) /\ list[Max(s)] \in Nat
    BY <2>2, <1>1
  <2>4. QED
    BY <2>3 DEF op
<1>7. t = Rec(t)
  <2>1. \A s \in SUBSET (1..n) : t[s] = Rec(t)[s]
    BY <1>5, <1>6 DEF IsFoldTable
  <2>2. QED
    BY <2>1
<1>8. iter = Rec(iter)
  BY <1>7
<1> HIDE DEF iter
<1>9. Follows(iter, t, Scanning(m), op, base, list, n)
  <2>1. iter[{}] = base
    BY <1>8
  <2>2. \A s \in SUBSET (1..n) :
          s # {} /\ iter[s \ {Max(s)}] = t[s \ {Max(s)}] => iter[s] = t[s]
    BY <1>7, <1>8
  <2>3. QED
    BY <2>1, <2>2, <1>1, <1>5 DEF Follows
<1> DEFINE f == RunOf(iter, n)
<1>10. IsRun(f, Scanning(m), op, base, list, n) /\ iter[1..n] = f[n]
  BY <1>9, FoldRun
<1> HIDE DEF f
<1>11. /\ f \in [0..n -> Scanning(m)] /\ f[0] = base
       /\ \A k \in 1..n : f[k] = FindStep(info, f[k - 1], list[k])
  <2>1. \A k \in 1..n : f[k - 1] \in Scanning(m) /\ list[k] \in Nat
    <3>1. \A k \in 1..n : k - 1 \in 0..n
      BY <1>1
    <3>2. f \in [0..n -> Scanning(m)]
      BY <1>10 DEF IsRun
    <3> HIDE DEF n
    <3>3. QED
      BY <3>1, <3>2, <1>1
  <2>2. QED
    BY <1>10, <2>1 DEF op, IsRun
<1>12. QED
  BY <1>2, <1>10, <1>11, Zenon DEF base

\* The rows of a coin of which nothing is taken.
LEMMA NothingTaken ==
    ASSUME NEW ranges, OfACoin(ranges),
           NEW info, info = [i \in 1..Len(ranges) |-> RowAt(ranges, i)]
    PROVE  /\ MovedOn(info, ranges) /\ Whole(info, ranges, 1)
           /\ Position(info, ranges, 1) = 0 /\ info \in [1..Len(ranges) -> Row]
<1>1. Len(ranges) \in Nat
  BY DEF OfACoin
<1>2. ASSUME NEW i \in 1..Len(ranges)
      PROVE  /\ info[i] \in Row /\ info[i].lo = ranges[i][1] /\ info[i].hi = ranges[i][2]
             /\ info[i].idx = i
             /\ ranges[i][1] <= info[i].lo /\ info[i].lo <= info[i].hi
  <2>1. ranges[i][1] \in Nat /\ ranges[i][2] \in Nat /\ ranges[i][1] <= ranges[i][2]
    BY DEF OfACoin
  <2>2. PICK row : row = RowAt(ranges, i)
    OBVIOUS
  <2>3. row.lo = ranges[i][1] /\ row.hi = ranges[i][2] /\ row.idx = i
    BY <2>2 DEF RowAt
  <2>4. row \in Row
    BY <2>1, <2>2 DEF RowAt, Row
  <2>5. QED
    BY <2>1, <2>2, <2>3, <2>4
<1>3. info \in [1..Len(ranges) -> Row]
  BY <1>2
<1>4. MovedOn(info, ranges)
  BY <1>2, <1>3 DEF MovedOn
<1>5. Whole(info, ranges, 1)
  BY <1>2 DEF Whole
<1>6. Position(info, ranges, 1) = 0
  <2>1. Before(ranges, 1 - 1) = 0
    BY BeforeNone
  <2>2. 1 <= Len(ranges) => info[1].lo - ranges[1][1] = 0
    <3>1. SUFFICES ASSUME 1 <= Len(ranges) PROVE info[1].lo - ranges[1][1] = 0
      OBVIOUS
    <3>2. 1 \in 1..Len(ranges)
      BY <1>1, <3>1
    <3>3. info[1].lo = ranges[1][1] /\ ranges[1][1] \in Nat
      BY <1>2, <3>2 DEF OfACoin
    <3>4. QED
      BY <3>3
  <2>3. QED
    BY <2>1, <2>2 DEF Position
<1>7. QED
  BY <1>3, <1>4, <1>5, <1>6

\* What is found of the ordinals: each with a range that holds it.
Meant(ranges, ordinals) ==
    {f \in Found : f.ord \in ordinals /\ f.idx \in 1..Len(ranges) /\ Holds(ranges[f.idx], f.ord)}
Scanned(ranges, ordinals, list, s, k) ==
    s.error = NoError =>
      /\ MovedOn(s.info, ranges) /\ Whole(s.info, ranges, s.at)
      /\ s.order \in Seq(Meant(ranges, ordinals))
      /\ \A j \in 1..k : \E e \in 1..Len(s.order) : s.order[e].ord = list[j]

LEMMA ScanGoesOn ==
    ASSUME NEW ranges, OfACoin(ranges), NEW ordinals \in SUBSET Nat,
           NEW info, info = [i \in 1..Len(ranges) |-> RowAt(ranges, i)],
           NEW list \in Seq(ordinals), NEW k \in 1..Len(list),
           NEW s \in Scanning(Len(ranges)), Scanned(ranges, ordinals, list, s, k - 1),
           NEW t, t = FindStep(info, s, list[k])
    PROVE  Scanned(ranges, ordinals, list, t, k)
<1> DEFINE n == Len(ranges)
<1>1. n \in Nat /\ info \in [1..n -> Row] /\ list[k] \in ordinals /\ list[k] \in Nat
  <2>1. n \in Nat
    BY DEF OfACoin
  <2>2. info \in [1..n -> Row]
    BY NothingTaken
  <2>3. list[k] \in ordinals
    OBVIOUS
  <2>4. QED
    BY <2>1, <2>2, <2>3
<1>2. SUFFICES ASSUME t.error = NoError
               PROVE  /\ MovedOn(t.info, ranges) /\ Whole(t.info, ranges, t.at)
                      /\ t.order \in Seq(Meant(ranges, ordinals))
                      /\ \A j \in 1..k : \E e \in 1..Len(t.order) : t.order[e].ord = list[j]
  BY DEF Scanned
<1>3. PICK ord : ord = list[k]
  OBVIOUS
<1>4. /\ s.error = NoError
      /\ \E i \in 1..n : /\ FoundAt(n, s, ord, i, t)
                         /\ t.order = Append(s.order, [idx |-> info[i].idx, ord |-> ord])
  <2>1. t = FindStep(info, s, ord) /\ ord \in Nat /\ n \in Nat /\ info \in [1..n -> Row]
    BY <1>1, <1>3
  <2> HIDE DEF n
  <2>2. s \in Scanning(n)
    BY DEF n
  <2>3. t.error = NoError =>
          /\ s.error = NoError
          /\ \E i \in 1..n : /\ FoundAt(n, s, ord, i, t)
                             /\ t.order = Append(s.order, [idx |-> info[i].idx, ord |-> ord])
    <3>1. Finds(n, info, s, ord)
      BY <2>1, <2>2, Zenon DEF Finds
    <3>2. FoundBy(n, info, s, ord, t)
      BY <2>1, <3>1, FindStepFinds, Zenon
    <3>3. QED
      BY <3>2, Zenon DEF FoundBy
  <2>4. QED
    BY <1>2, <2>3, Zenon DEF n
<1>5. PICK i \in 1..n : /\ FoundAt(n, s, ord, i, t)
                        /\ t.order = Append(s.order, [idx |-> info[i].idx, ord |-> ord])
  BY <1>4
<1>6. /\ MovedOn(s.info, ranges) /\ Whole(s.info, ranges, s.at)
      /\ s.order \in Seq(Meant(ranges, ordinals))
      /\ \A j \in 1..k - 1 : \E e \in 1..Len(s.order) : s.order[e].ord = list[j]
  BY <1>4 DEF Scanned
<1>7. Whole(s.info, ranges, i)
  <2>1. i >= s.at /\ s.at \in Nat
    BY <1>5 DEF FoundAt, Scanning
  <2>2. \A j \in 1..n : j > i => j > s.at
    BY <2>1
  <2>3. QED
    BY <1>6, <2>2 DEF Whole
<1>8. PICK next : next = Advance(s.info, i, Padding + 1)
  OBVIOUS
<1>9. PICK m : m = Padding + 1
  OBVIOUS
<1>10. m \in Nat \ {0}
  BY <1>9, PaddingAssumption
<1>11. next.left \in Nat /\ (next.left = 0 => Taken(s.info, ranges, i, m, next))
  BY <1>6, <1>7, <1>8, <1>9, <1>10, AdvanceMoves
<1>12. ~ (next.left > 0) /\ t.info = next.info /\ t.at = next.at
  BY <1>5, <1>8 DEF FoundAt
<1>13. MovedOn(t.info, ranges) /\ Whole(t.info, ranges, t.at)
  BY <1>11, <1>12 DEF Taken
<1>14. PICK e : e = [idx |-> info[i].idx, ord |-> ord]
  OBVIOUS
<1>15. info[i].idx = i /\ e.idx = i /\ e.ord = ord
  <2>1. info[i] = RowAt(ranges, i)
    OBVIOUS
  <2>2. info[i].idx = i
    BY <2>1 DEF RowAt
  <2>3. QED
    BY <1>14, <2>2
<1>16. e \in Meant(ranges, ordinals)
  <2>1. e \in Found
    BY <1>1, <1>3, <1>14, <1>15 DEF Found
  <2>2. Holds(ranges[i], ord)
    <3>1. s.info[i].lo <= ord /\ ord < s.info[i].hi
      BY <1>5 DEF FoundAt
    <3>2. /\ s.info[i].lo \in Nat /\ s.info[i].hi = ranges[i][2] /\ ranges[i][1] \in Nat
          /\ ranges[i][1] <= s.info[i].lo
      BY <1>6, RowIs
    <3>3. ord \in Nat
      BY <1>1, <1>3
    <3>4. QED
      BY <3>1, <3>2, <3>3 DEF Holds
  <2>3. QED
    BY <1>1, <1>3, <1>15, <2>1, <2>2 DEF Meant
<1>17. t.order = Append(s.order, e)
  BY <1>5, <1>14
<1>18. PICK old, new : old = s.order /\ new = t.order
  OBVIOUS
<1>19. /\ new \in Seq(Meant(ranges, ordinals)) /\ Len(new) = Len(old) + 1 /\ Len(old) \in Nat
       /\ new[Len(old) + 1] = e /\ \A x \in 1..Len(old) : new[x] = old[x]
  <2>1. old \in Seq(Meant(ranges, ordinals)) /\ new = Append(old, e)
    BY <1>6, <1>17, <1>18
  <2>2. QED
    BY <1>16, <2>1
<1>20. ASSUME NEW j \in 1..k PROVE \E x \in 1..Len(new) : new[x].ord = list[j]
  <2>1. CASE j = k
    <3>1. Len(old) + 1 \in 1..Len(new) /\ new[Len(old) + 1].ord = list[j]
      BY <1>3, <1>15, <1>19, <2>1
    <3>2. QED
      BY <3>1
  <2>2. CASE j # k
    <3>1. j \in 1..k - 1
      BY <2>2
    <3>2. PICK x \in 1..Len(old) : old[x].ord = list[j]
      BY <1>6, <1>18, <3>1
    <3>3. x \in 1..Len(new) /\ new[x].ord = list[j]
      BY <1>19, <3>2
    <3>4. QED
      BY <3>3
  <2>3. QED
    BY <2>1, <2>2
<1>21. QED
  BY <1>13, <1>18, <1>19, <1>20

\* A scan without an error finds each ordinal.
FindsAll(ranges, ordinals, order) ==
    /\ order \in Seq(Meant(ranges, ordinals))
    /\ \A ord \in ordinals : \E e \in 1..Len(order) : order[e].ord = ord

LEMMA LessOrders ==
    ASSUME NEW ordinals \in SUBSET Nat
    PROVE  Orders(ordinals, Less(ordinals))
<1>1. \A x, y \in ordinals : <<x, y>> \in Less(ordinals) <=> x < y
  BY DEF Less
<1>2. ASSUME NEW x \in ordinals, NEW y \in ordinals, NEW z \in ordinals
      PROVE  /\ x # y => <<x, y>> \in Less(ordinals) \/ <<y, x>> \in Less(ordinals)
             /\ <<x, x>> \notin Less(ordinals)
             /\ <<x, y>> \in Less(ordinals) /\ <<y, z>> \in Less(ordinals) =>
                  <<x, z>> \in Less(ordinals)
  <2>1. x \in Nat /\ y \in Nat /\ z \in Nat
    OBVIOUS
  <2>2. QED
    BY <1>1, <2>1
<1>3. QED
  BY <1>2, Zenon DEF Orders

LEMMA ScanFinds ==
    ASSUME NEW ranges, OfACoin(ranges), NEW ordinals \in SUBSET Nat, IsFiniteSet(ordinals),
           NEW info, info = [i \in 1..Len(ranges) |-> RowAt(ranges, i)],
           NEW scan, scan = FindOrdinals(info, ordinals), scan.error = NoError
    PROVE  FindsAll(ranges, ordinals, scan.order)
<1> DEFINE n == Len(ranges)
<1>1. n \in Nat /\ info \in [1..n -> Row] /\ MovedOn(info, ranges) /\ Whole(info, ranges, 1)
  <2>1. n \in Nat
    BY DEF OfACoin
  <2>2. QED
    BY <2>1, NothingTaken
<1>2. PICK list : list = Listed(ordinals, Less(ordinals))
  OBVIOUS
<1>3. scan = FindOver(info, list)
  BY <1>2, FindIsOver
<1>4. /\ Cardinality(ordinals) \in Nat
      /\ list \in [1..Cardinality(ordinals) -> ordinals]
      /\ \A x \in ordinals : \E i \in 1..Cardinality(ordinals) : list[i] = x
  <2>1. PICK R : R = Less(ordinals)
    OBVIOUS
  <2>2. Orders(ordinals, R)
    BY <2>1, LessOrders
  <2>3. list = Listed(ordinals, R)
    BY <1>2, <2>1
  <2>4. QED
    BY <2>2, <2>3, ListedAll
<1>5. list \in Seq(ordinals) /\ Len(list) = Cardinality(ordinals)
  BY <1>4, LenOf
<1>6. list \in Seq(Nat) /\ Len(list) \in Nat
  <2>1. list \in [1..Cardinality(ordinals) -> Nat]
    BY <1>4
  <2>2. QED
    BY <1>4, <1>5, <2>1, LenOf
<1>7. PICK f \in [0..Len(list) -> Scanning(n)] :
        /\ f[0] = [info |-> info, at |-> 1, error |-> NoError, order |-> <<>>]
        /\ \A k \in 1..Len(list) : f[k] = FindStep(info, f[k - 1], list[k])
        /\ FindOver(info, list) = f[Len(list)]
  BY <1>1, <1>6, FindStates
<1> DEFINE S == {k \in 0..Len(list) : Scanned(ranges, ordinals, list, f[k], k)}
<1>8. 0 \in S
  <2>1. PICK s : s = [info |-> info, at |-> 1, error |-> NoError, order |-> <<>>]
    OBVIOUS
  <2>2. f[0] = s /\ s.info = info /\ s.at = 1 /\ s.order = <<>>
    BY <1>7, <2>1
  <2>3. <<>> \in Seq(Meant(ranges, ordinals))
    OBVIOUS
  <2>4. \A j \in 1..0 : \E e \in 1..Len(s.order) : s.order[e].ord = list[j]
    OBVIOUS
  <2>5. Scanned(ranges, ordinals, list, s, 0)
    BY <1>1, <2>2, <2>3, <2>4 DEF Scanned
  <2>6. 0 \in 0..Len(list)
    BY <1>6
  <2>7. QED
    BY <2>2, <2>5, <2>6
<1>9. ASSUME NEW k \in 1..Len(list), k - 1 \in S PROVE k \in S
  <2>1. PICK s, t : s = f[k - 1] /\ t = f[k]
    OBVIOUS
  <2>2. k - 1 \in 0..Len(list) /\ k \in 0..Len(list)
    BY <1>6
  <2>3. /\ s \in Scanning(n) /\ Scanned(ranges, ordinals, list, s, k - 1)
        /\ t = FindStep(info, s, list[k])
    BY <1>7, <1>9, <2>1, <2>2
  <2>4. Scanned(ranges, ordinals, list, t, k)
    BY <1>5, <2>3, ScanGoesOn
  <2>5. QED
    BY <2>1, <2>2, <2>4
<1>10. Len(list) \in S
  <2> HIDE DEF S
  <2>1. \A k \in 0..Len(list) : k \in S
    BY <1>6, <1>8, <1>9, StepsReach
  <2>2. QED
    BY <1>6, <2>1
<1>11. Scanned(ranges, ordinals, list, scan, Len(list))
  BY <1>3, <1>7, <1>10
<1>12. /\ scan.order \in Seq(Meant(ranges, ordinals))
       /\ \A j \in 1..Len(list) : \E e \in 1..Len(scan.order) : scan.order[e].ord = list[j]
  BY <1>11 DEF Scanned
<1>13. QED
  <2>1. ASSUME NEW ord \in ordinals
        PROVE  \E e \in 1..Len(scan.order) : scan.order[e].ord = ord
    <3>1. PICK j \in 1..Cardinality(ordinals) : list[j] = ord
      BY <1>4
    <3>2. PICK e \in 1..Len(scan.order) : scan.order[e].ord = list[j]
      BY <1>5, <1>12, <3>1
    <3>3. QED
      BY <3>1, <3>2
  <2>2. QED
    BY <1>12, <2>1 DEF FindsAll

\* And so does the list of what is found, place by place.
PlaceOrder(found) ==
    {p \in found \X found : \/ p[1].idx < p[2].idx
                            \/ p[1].idx = p[2].idx /\ p[1].ord < p[2].ord}

LEMMA PlaceOrders ==
    ASSUME NEW found \in SUBSET Found
    PROVE  Orders(found, PlaceOrder(found))
<1>1. \A x \in found : x.idx \in Int /\ x.ord \in Nat
  BY DEF Found
<1>2. \A x, y \in found : x.idx = y.idx /\ x.ord = y.ord => x = y
  BY DEF Found
<1>3. \A x, y \in found : <<x, y>> \in PlaceOrder(found) <=>
        (x.idx < y.idx \/ (x.idx = y.idx /\ x.ord < y.ord))
  BY DEF PlaceOrder
<1>4. ASSUME NEW x \in found, NEW y \in found, NEW z \in found
      PROVE  /\ x # y => <<x, y>> \in PlaceOrder(found) \/ <<y, x>> \in PlaceOrder(found)
             /\ <<x, x>> \notin PlaceOrder(found)
             /\ <<x, y>> \in PlaceOrder(found) /\ <<y, z>> \in PlaceOrder(found) =>
                  <<x, z>> \in PlaceOrder(found)
  <2>1. /\ x.idx \in Int /\ x.ord \in Nat /\ y.idx \in Int /\ y.ord \in Nat
        /\ z.idx \in Int /\ z.ord \in Nat
    BY <1>1
  <2>2. QED
    BY <1>2, <1>3, <2>1
<1>5. QED
  BY <1>4, Zenon DEF Orders

LEMMA ByPlaceAll ==
    ASSUME NEW ranges, NEW ordinals, NEW order, FindsAll(ranges, ordinals, order)
    PROVE  FindsAll(ranges, ordinals, ByPlace(ToSet(order)))
<1>1. PICK S : S = ToSet(order)
  OBVIOUS
<1>2. order \in Seq(Meant(ranges, ordinals)) /\ Len(order) \in Nat
  BY DEF FindsAll
<1>3. S = {order[i] : i \in 1..Len(order)}
  BY <1>1, <1>2 DEF ToSet
<1>4. S \in SUBSET Meant(ranges, ordinals)
  BY <1>2, <1>3
<1>5. S \in SUBSET Found
  BY <1>4 DEF Meant
<1>6. IsFiniteSet(S)
  <2>1. order \in Surjection(1..Len(order), S)
    BY <1>2, <1>3 DEF Surjection
  <2>2. IsFiniteSet(1..Len(order))
    BY <1>2, FS_Interval
  <2>3. QED
    BY <2>1, <2>2, FS_Surjection
<1>7. PICK list : list = ByPlace(S)
  OBVIOUS
<1>8. list = Listed(S, PlaceOrder(S))
  BY <1>7, Zenon DEF ByPlace, PlaceOrder
<1>9. /\ Cardinality(S) \in Nat /\ list \in [1..Cardinality(S) -> S]
      /\ \A x \in S : \E i \in 1..Cardinality(S) : list[i] = x
  BY <1>5, <1>6, <1>8, PlaceOrders, ListedAll
<1>10. list \in Seq(S) /\ Len(list) = Cardinality(S)
  BY <1>9, LenOf
<1>11. list \in Seq(Meant(ranges, ordinals))
  BY <1>4, <1>10
<1>12. ASSUME NEW ord \in ordinals PROVE \E e \in 1..Len(list) : list[e].ord = ord
  <2>1. PICK e \in 1..Len(order) : order[e].ord = ord
    BY DEF FindsAll
  <2>2. order[e] \in S
    BY <1>3
  <2>3. PICK i \in 1..Cardinality(S) : list[i] = order[e]
    BY <1>9, <2>2
  <2>4. QED
    BY <1>10, <2>1, <2>3
<1>13. QED
  BY <1>1, <1>7, <1>11, <1>12 DEF FindsAll

\* What the steps of a plan cost, and what they bring in.
PlanStep == [kind : {"payin", "payout", "ordinal", "change"}, n : Int]
CostOf(p) == IF p.kind = "payin" THEN 0 ELSE IF p.kind = "ordinal" THEN Padding + 1 ELSE p.n
GainOf(p) == IF p.kind = "payin" THEN p.n ELSE 0
Costs(steps) == [j \in 1..Len(steps) |-> CostOf(steps[j])]
Gains(steps) == [j \in 1..Len(steps) |-> GainOf(steps[j])]
Spent(steps, k) == SumTo(Costs(steps), k)
Gained(steps, k) == SumTo(Gains(steps), k)

LEMMA CostsType ==
    ASSUME NEW steps \in Seq(PlanStep)
    PROVE  /\ Costs(steps) \in Seq(Int) /\ Len(Costs(steps)) = Len(steps)
           /\ Gains(steps) \in Seq(Int) /\ Len(Gains(steps)) = Len(steps)
<1>1. Len(steps) \in Nat /\ \A j \in 1..Len(steps) : steps[j] \in PlanStep
  OBVIOUS
<1>2. \A p \in PlanStep : CostOf(p) \in Int /\ GainOf(p) \in Int
  BY PaddingAssumption DEF PlanStep, CostOf, GainOf
<1>3. /\ Costs(steps) \in [1..Len(steps) -> Int] /\ Gains(steps) \in [1..Len(steps) -> Int]
  BY <1>1, <1>2 DEF Costs, Gains
<1>4. QED
  BY <1>1, <1>3, LenOf

Continues(a, b, c) == a \in Seq(PlanStep) /\ b \in Seq(PlanStep) /\ c = a \o b

LEMMA SpentConcat ==
    ASSUME NEW a, NEW b, NEW c, Continues(a, b, c)
    PROVE  /\ c \in Seq(PlanStep) /\ Len(c) = Len(a) + Len(b)
           /\ \A k \in 0..Len(a) : Spent(c, k) = Spent(a, k)
           /\ \A k \in 0..Len(b) : Spent(c, Len(a) + k) = Spent(a, Len(a)) + Spent(b, k)
           /\ Spent(c, Len(c)) = Spent(a, Len(a)) + Spent(b, Len(b))
           /\ Gained(c, Len(c)) = Gained(a, Len(a)) + Gained(b, Len(b))
           /\ \A j \in 1..Len(a) : c[j] = a[j]
           /\ \A j \in 1..Len(b) : c[Len(a) + j] = b[j]
<1>0. a \in Seq(PlanStep) /\ b \in Seq(PlanStep) /\ c = a \o b
  BY DEF Continues
<1>1. /\ c \in Seq(PlanStep) /\ Len(c) = Len(a) + Len(b)
      /\ Len(a) \in Nat /\ Len(b) \in Nat
      /\ \A j \in 1..Len(a) : c[j] = a[j]
      /\ \A j \in 1..Len(b) : c[Len(a) + j] = b[j]
  BY <1>0
<1>2. PICK u, v, w : u = Costs(a) /\ v = Costs(b) /\ w = Costs(c)
  OBVIOUS
<1>3. /\ u \in Seq(Int) /\ v \in Seq(Int) /\ w \in Seq(Int)
      /\ Len(u) = Len(a) /\ Len(v) = Len(b) /\ Len(w) = Len(c)
  BY <1>0, <1>1, <1>2, CostsType
<1>4. /\ \A j \in 1..Len(a) : u[j] = CostOf(a[j]) /\ w[j] = CostOf(c[j])
      /\ \A j \in 1..Len(b) : v[j] = CostOf(b[j]) /\ w[Len(a) + j] = CostOf(c[Len(a) + j])
  <2>1. ASSUME NEW j \in 1..Len(a) PROVE u[j] = CostOf(a[j]) /\ w[j] = CostOf(c[j])
    <3>1. j \in 1..Len(c)
      BY <1>1
    <3>2. QED
      BY <1>2, <3>1 DEF Costs
  <2>2. ASSUME NEW j \in 1..Len(b)
        PROVE  v[j] = CostOf(b[j]) /\ w[Len(a) + j] = CostOf(c[Len(a) + j])
    <3>1. Len(a) + j \in 1..Len(c)
      BY <1>1
    <3>2. QED
      BY <1>2, <3>1 DEF Costs
  <2>3. QED
    BY <2>1, <2>2
<1>5. Joins(u, v, w)
  BY <1>1, <1>3, <1>4 DEF Joins
<1>6. PICK x, y, z : x = Gains(a) /\ y = Gains(b) /\ z = Gains(c)
  OBVIOUS
<1>7. /\ x \in Seq(Int) /\ y \in Seq(Int) /\ z \in Seq(Int)
      /\ Len(x) = Len(a) /\ Len(y) = Len(b) /\ Len(z) = Len(c)
  BY <1>0, <1>1, <1>6, CostsType
<1>8. /\ \A j \in 1..Len(a) : x[j] = GainOf(a[j]) /\ z[j] = GainOf(c[j])
      /\ \A j \in 1..Len(b) : y[j] = GainOf(b[j]) /\ z[Len(a) + j] = GainOf(c[Len(a) + j])
  <2>1. ASSUME NEW j \in 1..Len(a) PROVE x[j] = GainOf(a[j]) /\ z[j] = GainOf(c[j])
    <3>1. j \in 1..Len(c)
      BY <1>1
    <3>2. QED
      BY <1>6, <3>1 DEF Gains
  <2>2. ASSUME NEW j \in 1..Len(b)
        PROVE  y[j] = GainOf(b[j]) /\ z[Len(a) + j] = GainOf(c[Len(a) + j])
    <3>1. Len(a) + j \in 1..Len(c)
      BY <1>1
    <3>2. QED
      BY <1>6, <3>1 DEF Gains
  <2>3. QED
    BY <2>1, <2>2
<1>9. Joins(x, y, z)
  BY <1>1, <1>7, <1>8 DEF Joins
<1>10. /\ \A k \in 0..Len(a) : SumTo(w, k) = SumTo(u, k)
       /\ \A k \in 0..Len(b) : SumTo(w, Len(a) + k) = SumTo(u, Len(a)) + SumTo(v, k)
  <2>1. /\ \A k \in 0..Len(u) : SumTo(w, k) = SumTo(u, k)
        /\ \A k \in 0..Len(v) : SumTo(w, Len(u) + k) = SumTo(u, Len(u)) + SumTo(v, k)
    BY <1>5, SumToConcat
  <2>2. QED
    BY <1>3, <2>1
<1>11. \A k \in 0..Len(b) : SumTo(z, Len(a) + k) = SumTo(x, Len(a)) + SumTo(y, k)
  <2>1. \A k \in 0..Len(y) : SumTo(z, Len(x) + k) = SumTo(x, Len(x)) + SumTo(y, k)
    BY <1>9, SumToConcat
  <2>2. QED
    BY <1>7, <2>1
<1>12. Len(b) \in 0..Len(b)
  BY <1>1
<1>13. /\ \A k \in 0..Len(a) : Spent(c, k) = Spent(a, k)
       /\ \A k \in 0..Len(b) : Spent(c, Len(a) + k) = Spent(a, Len(a)) + Spent(b, k)
  BY <1>2, <1>10 DEF Spent
<1>14. Gained(c, Len(c)) = Gained(a, Len(a)) + Gained(b, Len(b))
  BY <1>1, <1>6, <1>11, <1>12 DEF Gained
<1>15. QED
  BY <1>1, <1>12, <1>13, <1>14

LEMMA SpentInt ==
    ASSUME NEW steps \in Seq(PlanStep)
    PROVE  \A k \in 0..Len(steps) : Spent(steps, k) \in Int /\ Gained(steps, k) \in Int
<1>1. PICK c, g : c = Costs(steps) /\ g = Gains(steps)
  OBVIOUS
<1>2. c \in Seq(Int) /\ Len(c) = Len(steps) /\ g \in Seq(Int) /\ Len(g) = Len(steps)
  BY <1>1, CostsType
<1>3. \A k \in 0..Len(steps) : SumTo(c, k) \in Int /\ SumTo(g, k) \in Int
  BY <1>2, SumToInt
<1>4. QED
  BY <1>1, <1>3 DEF Spent, Gained

\* Payouts cost their amounts, payins bring in theirs.
LEMMA StepsAre ==
    ASSUME NEW kind \in {"payin", "payout"}, NEW v \in Seq(Int),
           NEW steps, steps = Steps(kind, v)
    PROVE  /\ steps \in Seq(PlanStep) /\ Len(steps) = Len(v)
           /\ \A j \in 1..Len(v) : steps[j].kind = kind
           /\ kind = "payout" => /\ Spent(steps, Len(steps)) = SumTo(v, Len(v))
                                 /\ Gained(steps, Len(steps)) = 0
           /\ kind = "payin" => /\ \A k \in 0..Len(v) : Spent(steps, k) = 0
                                /\ \A k \in 0..Len(v) : Gained(steps, k) = SumTo(v, k)
<1>1. Len(v) \in Nat /\ DOMAIN v = 1..Len(v) /\ \A j \in 1..Len(v) : v[j] \in Int
  OBVIOUS
<1>2. steps = [j \in 1..Len(v) |-> Step(kind, v[j])]
  BY <1>1 DEF Steps
<1>3. ASSUME NEW j \in 1..Len(v)
      PROVE  steps[j] \in PlanStep /\ steps[j].kind = kind /\ steps[j].n = v[j]
  <2>1. steps[j] = [kind |-> kind, n |-> v[j]]
    BY <1>2 DEF Step
  <2>2. kind \in {"payin", "payout", "ordinal", "change"}
    OBVIOUS
  <2>3. QED
    BY <1>1, <2>1, <2>2 DEF PlanStep
<1>4. steps \in Seq(PlanStep) /\ Len(steps) = Len(v)
  <2>1. steps \in [1..Len(v) -> PlanStep]
    BY <1>2, <1>3
  <2>2. QED
    BY <1>1, <2>1, LenOf
<1>5. PICK c, g : c = Costs(steps) /\ g = Gains(steps)
  OBVIOUS
<1>6. c \in Seq(Int) /\ Len(c) = Len(v) /\ g \in Seq(Int) /\ Len(g) = Len(v)
  BY <1>4, <1>5, CostsType
<1>7. \A j \in 1..Len(v) : c[j] = CostOf(steps[j]) /\ g[j] = GainOf(steps[j])
  BY <1>4, <1>5 DEF Costs, Gains
<1>8. CASE kind = "payout"
  <2>1. \A j \in 1..Len(v) : c[j] = v[j] /\ g[j] = 0
    BY <1>3, <1>7, <1>8 DEF CostOf, GainOf
  <2>2. SumTo(c, Len(v)) = SumTo(v, Len(v))
    BY <2>1, SumToSame
  <2>3. SumTo(g, Len(v)) = 0
    BY <1>1, <1>6, <2>1, SumToZero
  <2>4. QED
    BY <1>3, <1>4, <1>5, <1>8, <2>2, <2>3 DEF Spent, Gained
<1>9. CASE kind = "payin"
  <2>1. \A j \in 1..Len(v) : c[j] = 0 /\ g[j] = v[j]
    BY <1>3, <1>7, <1>9 DEF CostOf, GainOf
  <2>2. \A k \in 0..Len(v) : SumTo(c, k) = 0
    BY <1>6, <2>1, SumToZero
  <2>3. ASSUME NEW k \in 0..Len(v) PROVE SumTo(g, k) = SumTo(v, k)
    <3>1. \A j \in 1..k : g[j] = v[j]
      BY <2>1
    <3>2. QED
      BY <3>1, SumToSame
  <2>4. QED
    BY <1>3, <1>4, <1>5, <1>9, <2>2, <2>3 DEF Spent, Gained
<1>10. QED
  BY <1>8, <1>9

\* One step more at the end.
LEMMA SpentOne ==
    ASSUME NEW p \in PlanStep
    PROVE  /\ <<p>> \in Seq(PlanStep) /\ Len(<<p>>) = 1 /\ <<p>>[1] = p
           /\ Spent(<<p>>, 0) = 0 /\ Spent(<<p>>, 1) = CostOf(p)
           /\ Gained(<<p>>, 1) = GainOf(p)
<1>1. PICK one : one = <<p>>
  OBVIOUS
<1>2. one \in Seq(PlanStep) /\ Len(one) = 1 /\ one[1] = p
  BY <1>1
<1>3. PICK c, g : c = Costs(one) /\ g = Gains(one)
  OBVIOUS
<1>4. c \in Seq(Int) /\ Len(c) = 1 /\ g \in Seq(Int) /\ Len(g) = 1
  BY <1>2, <1>3, CostsType
<1>5. c[1] = CostOf(p) /\ g[1] = GainOf(p)
  BY <1>2, <1>3 DEF Costs, Gains
<1>6. SumTo(c, 0) = 0 /\ SumTo(g, 0) = 0
  BY SumToNone
<1>7. SumTo(c, 1) = SumTo(c, 1 - 1) + c[1] /\ SumTo(g, 1) = SumTo(g, 1 - 1) + g[1]
      /\ c[1] \in Int /\ g[1] \in Int
  <2>1. 1 \in 1..Len(c) /\ 1 \in 1..Len(g)
    BY <1>4
  <2>2. QED
    BY <1>4, <2>1, SumToStep
<1>8. QED
  BY <1>1, <1>2, <1>3, <1>5, <1>6, <1>7 DEF Spent, Gained

LEMMA BetweenInt ==
    ASSUME NEW n \in Nat, NEW info \in [1..n -> Row], NEW a \in Nat \ {0}, NEW b \in 1..n
    PROVE  Between(info, a, b) \in Int
<1>1. PICK S : S = a..b - 1
  OBVIOUS
<1>2. IsFiniteSet(S)
  <2>1. a \in Int /\ b - 1 \in Int
    OBVIOUS
  <2>2. QED
    BY <1>1, <2>1, FS_Interval
<1>3. PICK f : f = [i \in a..b - 1 |-> info[i].hi - info[i].lo]
  OBVIOUS
<1>4. \A x \in S : f[x] \in Int
  <2>1. \A i \in 1..n : info[i].hi - info[i].lo \in Int
    <3>1. \A i \in 1..n : info[i] \in Row
      OBVIOUS
    <3>2. QED
      BY <3>1 DEF Row
  <2>2. \A i \in S : i \in 1..n
    BY <1>1
  <2>3. QED
    BY <1>1, <1>3, <2>1, <2>2
<1>5. PICK s : IsSumTable(s, f, S)
  BY <1>2, <1>4, SumTableExists
<1>6. SumFunctionOnSet(f, S) = s[S] /\ s[S] \in Int
  <2>1. SumFunctionOnSet(f, S) = s[S]
    BY <1>2, <1>5, SumIsEntry
  <2>2. S \in SUBSET S
    OBVIOUS
  <2>3. s[S] \in Int
    BY <1>5, <2>2 DEF IsSumTable
  <2>4. QED
    BY <2>1, <2>3
<1>7. Between(info, a, b) = SumFunctionOnSet(f, S)
  <2>1. Between(info, a, b) = SumFunction(f)
    BY <1>3, Zenon DEF Between
  <2>2. DOMAIN f = S
    BY <1>1, <1>3
  <2>3. QED
    BY <2>1, <2>2, Zenon DEF SumFunction
<1>8. QED
  BY <1>6, <1>7

\* A plan in the making.
Placing(n) ==
    [info : [1..n -> Row], at : Nat \ {0}, payouts : Seq(Nat), fault : BOOLEAN,
     steps : Seq(PlanStep)]

\* Where an ordinal is placed from, and what is paid out before it.
InPlace(s, found) == IF s.at < found.idx THEN found.idx ELSE s.at
Gap(s, found) ==
    Between(s.info, s.at, InPlace(s, found)) + found.ord - s.info[InPlace(s, found)].lo

Places(n, s, found) ==
    n \in Nat /\ s \in Placing(n) /\ found \in Found /\ found.idx \in 1..n
WithSteps(steps, paid, ord) == steps \o Steps("payout", paid) \o <<Step("ordinal", ord)>>
PlacedAs(n, s, found, t) ==
    /\ InPlace(s, found) \in 1..n /\ Gap(s, found) \in Nat
    /\ ~ (GreedyAssignOuts(Gap(s, found), s.payouts).left > 0)
    /\ ~ (Advance(s.info, InPlace(s, found), Padding + 1).left > 0)
    /\ t.info = Advance(s.info, InPlace(s, found), Padding + 1).info
    /\ t.at = Advance(s.info, InPlace(s, found), Padding + 1).at
    /\ t.steps = WithSteps(s.steps, GreedyAssignOuts(Gap(s, found), s.payouts).paid, found.ord)

LEMMA PlacingIs ==
    ASSUME NEW n, NEW info \in [1..n -> Row], NEW at \in Nat \ {0}, NEW payouts \in Seq(Nat),
           NEW fault \in BOOLEAN, NEW steps \in Seq(PlanStep)
    PROVE  [info |-> info, at |-> at, payouts |-> payouts, fault |-> fault, steps |-> steps]
             \in Placing(n)
BY Zenon DEF Placing

LEMMA OrdinalStepIs ==
    ASSUME NEW ord \in Nat
    PROVE  /\ Step("ordinal", ord) \in PlanStep
           /\ CostOf(Step("ordinal", ord)) = Padding + 1 /\ GainOf(Step("ordinal", ord)) = 0
<1>1. PICK p : p = Step("ordinal", ord)
  OBVIOUS
<1>2. p = [kind |-> "ordinal", n |-> ord] /\ p.kind = "ordinal" /\ p.n = ord
  BY <1>1 DEF Step
<1>3. p \in PlanStep
  BY <1>2 DEF PlanStep
<1>4. CostOf(p) = Padding + 1 /\ GainOf(p) = 0
  BY <1>2 DEF CostOf, GainOf
<1>5. QED
  BY <1>1, <1>3, <1>4

Extends(steps, paid, ord, more, k) ==
    /\ steps \in Seq(PlanStep) /\ paid \in Seq(Nat) /\ ord \in Nat
    /\ more = WithSteps(steps, paid, ord) /\ k = Len(steps) + Len(paid) + 1

LEMMA WithStepsIs ==
    ASSUME NEW steps, NEW paid, NEW ord, NEW more, NEW k, Extends(steps, paid, ord, more, k)
    PROVE  /\ more \in Seq(PlanStep) /\ Len(more) = k /\ k \in Nat \ {0}
           /\ \A j \in 1..Len(steps) : more[j] = steps[j]
           /\ \A j \in 0..Len(steps) : Spent(more, j) = Spent(steps, j)
           /\ more[k] = Step("ordinal", ord)
           /\ Spent(more, k - 1) = Spent(steps, Len(steps)) + SumTo(paid, Len(paid))
           /\ Spent(more, k) = Spent(steps, Len(steps)) + SumTo(paid, Len(paid)) + (Padding + 1)
           /\ Gained(more, k) = Gained(steps, Len(steps))
<1>0. /\ steps \in Seq(PlanStep) /\ paid \in Seq(Nat) /\ ord \in Nat
      /\ more = WithSteps(steps, paid, ord) /\ k = Len(steps) + Len(paid) + 1
  BY DEF Extends
<1>1. PICK b : b = Steps("payout", paid)
  OBVIOUS
<1>2. paid \in Seq(Int)
  BY <1>0
<1>3. /\ b \in Seq(PlanStep) /\ Len(b) = Len(paid)
      /\ Spent(b, Len(b)) = SumTo(paid, Len(paid)) /\ Gained(b, Len(b)) = 0
  BY <1>1, <1>2, StepsAre
<1>4. PICK p : p = Step("ordinal", ord)
  OBVIOUS
<1>5. p \in PlanStep /\ CostOf(p) = Padding + 1 /\ GainOf(p) = 0
  BY <1>0, <1>4, OrdinalStepIs
<1>6. PICK one : one = <<p>>
  OBVIOUS
<1>7. /\ one \in Seq(PlanStep) /\ Len(one) = 1 /\ one[1] = p
      /\ Spent(one, 0) = 0 /\ Spent(one, 1) = Padding + 1 /\ Gained(one, 1) = 0
  BY <1>5, <1>6, SpentOne
<1>8. PICK c : c = steps \o b
  OBVIOUS
<1>9. /\ c \in Seq(PlanStep) /\ Len(c) = Len(steps) + Len(b)
      /\ \A j \in 0..Len(steps) : Spent(c, j) = Spent(steps, j)
      /\ Spent(c, Len(c)) = Spent(steps, Len(steps)) + Spent(b, Len(b))
      /\ Gained(c, Len(c)) = Gained(steps, Len(steps)) + Gained(b, Len(b))
      /\ \A j \in 1..Len(steps) : c[j] = steps[j]
  <2>1. Continues(steps, b, c)
    BY <1>0, <1>3, <1>8 DEF Continues
  <2>2. QED
    BY <2>1, SpentConcat
<1>10. more = c \o one
  BY <1>0, <1>1, <1>4, <1>6, <1>8 DEF WithSteps
<1>11. /\ more \in Seq(PlanStep) /\ Len(more) = Len(c) + Len(one)
       /\ \A j \in 0..Len(c) : Spent(more, j) = Spent(c, j)
       /\ Spent(more, Len(more)) = Spent(c, Len(c)) + Spent(one, Len(one))
       /\ Gained(more, Len(more)) = Gained(c, Len(c)) + Gained(one, Len(one))
       /\ \A j \in 1..Len(c) : more[j] = c[j]
       /\ \A j \in 1..Len(one) : more[Len(c) + j] = one[j]
  <2>1. Continues(c, one, more)
    BY <1>7, <1>9, <1>10 DEF Continues
  <2>2. QED
    BY <2>1, SpentConcat
<1>12. /\ Len(steps) \in Nat /\ Len(b) \in Nat /\ Len(c) \in Nat /\ Len(more) = k
       /\ k - 1 = Len(c) /\ k \in Nat \ {0}
  BY <1>0, <1>3, <1>7, <1>9, <1>11
<1>13. \A j \in 1..Len(steps) : more[j] = steps[j]
  <2>1. \A j \in 1..Len(steps) : j \in 1..Len(c)
    BY <1>9, <1>12
  <2>2. QED
    BY <1>9, <1>11, <2>1
<1>14. more[k] = p
  <2>1. more[Len(c) + 1] = one[1]
    <3>1. 1 \in 1..Len(one)
      BY <1>7
    <3>2. QED
      BY <1>11, <3>1
  <2>2. QED
    BY <1>7, <1>12, <2>1
<1>15. /\ Spent(steps, Len(steps)) \in Int /\ SumTo(paid, Len(paid)) \in Int
       /\ Gained(steps, Len(steps)) \in Int
  BY <1>0, <1>2, <1>12, SpentInt, SumToInt
<1>16. \A j \in 0..Len(steps) : Spent(more, j) = Spent(steps, j)
  <2>1. \A j \in 0..Len(steps) : j \in 0..Len(c)
    BY <1>9, <1>12
  <2>2. QED
    BY <1>9, <1>11, <2>1
<1>17. Spent(more, k - 1) = Spent(steps, Len(steps)) + SumTo(paid, Len(paid))
  BY <1>3, <1>9, <1>11, <1>12
<1>18. Spent(more, k) = Spent(steps, Len(steps)) + SumTo(paid, Len(paid)) + (Padding + 1)
  BY <1>3, <1>7, <1>9, <1>11, <1>12, <1>15
<1>19. Gained(more, k) = Gained(steps, Len(steps))
  BY <1>3, <1>7, <1>9, <1>11, <1>12, <1>15
<1>20. QED
  BY <1>4, <1>11, <1>12, <1>13, <1>14, <1>16, <1>17, <1>18, <1>19

LEMMA PlaceStepPlaces ==
    ASSUME NEW n, NEW s, NEW found, Places(n, s, found),
           NEW t, t = PlaceOrdinal(s, found)
    PROVE  t \in Placing(n) /\ (t.fault \/ (~s.fault /\ PlacedAs(n, s, found, t)))
<1>a. n \in Nat /\ s \in Placing(n) /\ found \in Found /\ found.idx \in 1..n
  BY DEF Places
<1>1. /\ s.info \in [1..n -> Row] /\ s.at \in Nat \ {0} /\ s.payouts \in Seq(Nat)
      /\ s.fault \in BOOLEAN /\ s.steps \in Seq(PlanStep)
      /\ s = [info |-> s.info, at |-> s.at, payouts |-> s.payouts, fault |-> s.fault,
              steps |-> s.steps]
  BY <1>a DEF Placing
<1>2. found.ord \in Nat /\ Len(s.info) = n
  <2>1. Len(s.info) = n
    BY <1>a, <1>1, LenOf
  <2>2. QED
    BY <1>a, <2>1 DEF Found
<1>3. PICK at : at = InPlace(s, found)
  OBVIOUS
<1>4. at \in Nat \ {0} /\ s.at <= at
  BY <1>a, <1>1, <1>3 DEF InPlace
<1>5. PICK total : total = Gap(s, found)
  OBVIOUS
<1>6. PICK outs : outs = GreedyAssignOuts(total, s.payouts)
  OBVIOUS
<1>7. PICK next : next = Advance(s.info, at, Padding + 1)
  OBVIOUS
<1>8. PICK more : more = WithSteps(s.steps, outs.paid, found.ord)
  OBVIOUS
<1>9. PICK fault : fault = (\/ OverflowChecks /\ found.ord < s.info[at].lo
                            \/ total < 0 \/ outs.left > 0 \/ next.left > 0)
  OBVIOUS
<1>10. t = IF s.fault \/ at > Len(s.info) THEN [s EXCEPT !.fault = TRUE]
           ELSE [info |-> next.info, at |-> next.at, payouts |-> outs.kept,
                 fault |-> fault, steps |-> more]
  BY <1>3, <1>5, <1>6, <1>7, <1>8, <1>9, Zenon
     DEF PlaceOrdinal, InPlace, Gap, WithSteps
<1>11. CASE s.fault \/ at > Len(s.info)
  <2>1. PICK u : u = [info |-> s.info, at |-> s.at, payouts |-> s.payouts, fault |-> TRUE,
                      steps |-> s.steps]
    OBVIOUS
  <2>2. [s EXCEPT !.fault = TRUE] = u
    <3>1. PICK a, b, c, d, e : /\ a = s.info /\ b = s.at /\ c = s.payouts
                               /\ d = s.fault /\ e = s.steps
      OBVIOUS
    <3>2. s = [info |-> a, at |-> b, payouts |-> c, fault |-> d, steps |-> e]
      BY <1>1, <3>1, Zenon
    <3>3. \A x : [s EXCEPT !.fault = x] =
                   [info |-> a, at |-> b, payouts |-> c, fault |-> x, steps |-> e]
      BY <3>2
    <3>4. QED
      BY <2>1, <3>1, <3>3, Zenon
  <2>3. t = u
    BY <1>10, <1>11, <2>2, Zenon
  <2>4. u \in Placing(n) /\ u.fault = TRUE
    <3>1. u \in Placing(n)
      BY <1>1, <2>1, PlacingIs
    <3>2. QED
      BY <2>1, <3>1
  <2>5. QED
    BY <2>3, <2>4, Zenon
<1>12. CASE ~ (s.fault \/ at > Len(s.info))
  <2>1. PICK u : u = [info |-> next.info, at |-> next.at, payouts |-> outs.kept,
                      fault |-> fault, steps |-> more]
    OBVIOUS
  <2>2. t = u
    BY <1>10, <1>12, <2>1, Zenon
  <2>3. at \in 1..n
    BY <1>2, <1>4, <1>12
  <2>4. total \in Int
    <3>1. s.info[at] \in Row
      BY <1>1, <2>3
    <3>2. s.info[at].lo \in Int
      BY <3>1 DEF Row
    <3>3. Between(s.info, s.at, at) \in Int
      BY <1>a, <1>1, <2>3, BetweenInt
    <3>4. QED
      BY <1>2, <1>3, <1>5, <3>2, <3>3 DEF Gap
  <2>5. outs \in Assigning
    BY <1>1, <1>6, <2>4, GreedyAssigns
  <2>6. outs.kept \in Seq(Nat) /\ outs.paid \in Seq(Nat) /\ outs.left \in Int
    BY <2>5 DEF Assigning
  <2>7. next \in Advancing(n)
    <3>1. Padding + 1 \in Int
      BY PaddingAssumption
    <3>2. QED
      BY <1>a, <1>1, <1>7, <2>3, <3>1, AdvanceType
  <2>8. next.info \in [1..n -> Row] /\ next.at \in Nat \ {0}
    BY <2>7 DEF Advancing
  <2>9. more \in Seq(PlanStep)
    <3>1. PICK paid, ord, steps, k : /\ paid = outs.paid /\ ord = found.ord /\ steps = s.steps
                                     /\ k = Len(steps) + Len(paid) + 1
      OBVIOUS
    <3>2. Extends(steps, paid, ord, more, k)
      BY <1>1, <1>2, <1>8, <2>6, <3>1 DEF Extends
    <3>3. QED
      BY <3>2, WithStepsIs
  <2>10. fault \in BOOLEAN
    BY <1>9
  <2>11. u \in Placing(n)
    BY <2>1, <2>6, <2>8, <2>9, <2>10, PlacingIs
  <2>12. /\ u.info = next.info /\ u.at = next.at /\ u.fault = fault /\ u.steps = more
    BY <2>1
  <2>13. u.fault \/ (~s.fault /\ PlacedAs(n, s, found, u))
    <3>1. SUFFICES ASSUME ~u.fault PROVE ~s.fault /\ PlacedAs(n, s, found, u)
      OBVIOUS
    <3>2. ~ (total < 0) /\ ~ (outs.left > 0) /\ ~ (next.left > 0)
      BY <1>9, <2>12, <3>1
    <3>3. total \in Nat
      BY <2>4, <3>2
    <3>4. ~s.fault
      BY <1>12
    <3>5. PlacedAs(n, s, found, u)
      BY <1>3, <1>5, <1>6, <1>7, <1>8, <2>3, <2>12, <3>2, <3>3, Zenon DEF PlacedAs
    <3>6. QED
      BY <3>4, <3>5
  <2>14. QED
    BY <2>2, <2>11, <2>13, Zenon
<1>13. QED
  BY <1>11, <1>12

LEMMA PositionInt ==
    ASSUME NEW ranges, OfACoin(ranges), NEW info, MovedOn(info, ranges),
           NEW at \in 1..Len(ranges) + 1
    PROVE  /\ Position(info, ranges, at) \in Int /\ Before(ranges, at - 1) \in Nat
           /\ at <= Len(ranges) => /\ info[at].lo \in Nat /\ ranges[at][1] \in Nat
                                   /\ Position(info, ranges, at) =
                                        Before(ranges, at - 1) + (info[at].lo - ranges[at][1])
           /\ ~ (at <= Len(ranges)) => Position(info, ranges, at) = Before(ranges, Len(ranges))
<1>1. Len(ranges) \in Nat
  BY DEF OfACoin
<1>2. at - 1 \in 0..Len(ranges)
  BY <1>1
<1>3. Before(ranges, at - 1) \in Nat
  BY <1>2, BeforeNat
<1>4. CASE at <= Len(ranges)
  <2>1. at \in 1..Len(ranges)
    BY <1>1, <1>4
  <2>2. info[at].lo \in Nat /\ ranges[at][1] \in Nat
    BY <2>1, RowIs
  <2>3. Position(info, ranges, at) = Before(ranges, at - 1) + (info[at].lo - ranges[at][1])
    BY <1>4 DEF Position
  <2>4. QED
    BY <1>3, <1>4, <2>2, <2>3
<1>5. CASE ~ (at <= Len(ranges))
  <2>1. at - 1 = Len(ranges)
    BY <1>1, <1>5
  <2>2. Position(info, ranges, at) = Before(ranges, at - 1) + 0
    BY <1>5 DEF Position
  <2>3. QED
    BY <1>3, <1>5, <2>1, <2>2
<1>6. QED
  BY <1>4, <1>5

\* The place of an ordinal in the coin, and what a plan has spent too much.
PlaceOf(ranges, found) ==
    Before(ranges, found.idx - 1) + (found.ord - ranges[found.idx][1])
Slack(ranges, s) == Spent(s.steps, Len(s.steps)) - Position(s.info, ranges, s.at)

LEMMA PlaceOfInt ==
    ASSUME NEW ranges, OfACoin(ranges),
           NEW found, found.idx \in 1..Len(ranges), found.ord \in Nat
    PROVE  PlaceOf(ranges, found) \in Int
<1>1. PICK i, ord : i = found.idx /\ ord = found.ord
  OBVIOUS
<1>2. i \in 1..Len(ranges) /\ ord \in Nat /\ Len(ranges) \in Nat
  BY <1>1 DEF OfACoin
<1>3. i - 1 \in 0..Len(ranges)
  BY <1>2
<1>4. Before(ranges, i - 1) \in Nat
  BY <1>3, BeforeNat
<1>5. ranges[i][1] \in Nat
  BY <1>2 DEF OfACoin
<1>6. QED
  BY <1>1, <1>2, <1>4, <1>5 DEF PlaceOf

\* What is paid out before an ordinal fills the coin up to its place.
Fills(ranges, ordinals, s, found) ==
    /\ OfACoin(ranges) /\ InOrder(ranges)
    /\ MovedOn(s.info, ranges) /\ Whole(s.info, ranges, s.at) /\ s.at \in 1..Len(ranges) + 1
    /\ found \in Meant(ranges, ordinals)
    /\ InPlace(s, found) \in 1..Len(ranges) /\ Gap(s, found) \in Nat

LEMMA GapIs ==
    ASSUME NEW ranges, NEW ordinals, NEW s, NEW found, Fills(ranges, ordinals, s, found)
    PROVE  /\ InPlace(s, found) = found.idx /\ found.idx \in 1..Len(ranges)
           /\ s.at <= found.idx
           /\ Gap(s, found) = PlaceOf(ranges, found) - Position(s.info, ranges, s.at)
           /\ PlaceOf(ranges, found) \in Int
           /\ s.info[found.idx].lo <= found.ord
<1> DEFINE n == Len(ranges)
<1>1. /\ OfACoin(ranges) /\ InOrder(ranges)
      /\ MovedOn(s.info, ranges) /\ Whole(s.info, ranges, s.at) /\ s.at \in 1..n + 1
      /\ found \in Meant(ranges, ordinals)
      /\ InPlace(s, found) \in 1..n /\ Gap(s, found) \in Nat
  BY DEF Fills
<1>2. n \in Nat
  BY <1>1 DEF OfACoin
<1>3. PICK idx, ord, at : idx = found.idx /\ ord = found.ord /\ at = InPlace(s, found)
  OBVIOUS
<1>4. idx \in 1..n /\ ord \in Nat /\ Holds(ranges[idx], ord)
  BY <1>1, <1>3 DEF Meant, Found
<1>5. at \in 1..n /\ at = (IF s.at < idx THEN idx ELSE s.at) /\ s.at \in Int /\ s.at <= at
  BY <1>1, <1>3, <1>4 DEF InPlace
<1>6. PICK lo, first : lo = s.info[at].lo /\ first = ranges[at][1]
  OBVIOUS
<1>7. lo \in Nat /\ first \in Nat /\ first <= lo /\ lo <= s.info[at].hi
  BY <1>1, <1>5, <1>6, RowIs
<1>8. PICK b, c : b = Between(s.info, s.at, at) /\ c = Position(s.info, ranges, s.at)
  OBVIOUS
<1>9. Gap(s, found) = b + ord - lo
  BY <1>3, <1>6, <1>8 DEF Gap
<1>10. PICK before : before = Before(ranges, at - 1)
  OBVIOUS
<1>11. before \in Nat
  BY <1>1, <1>2, <1>5, <1>10, PositionInt
<1>12. s.at = at => b = 0 /\ c = before + (lo - first)
  <2>1. SUFFICES ASSUME s.at = at PROVE b = 0 /\ c = before + (lo - first)
    OBVIOUS
  <2>2. b = 0
    BY <1>5, <1>8, <2>1, BetweenNothing
  <2>3. c = before + (lo - first)
    <3>1. at \in 1..n + 1 /\ at <= n
      BY <1>2, <1>5
    <3>2. Position(s.info, ranges, at) = Before(ranges, at - 1) + (s.info[at].lo - ranges[at][1])
      BY <1>1, <3>1, PositionInt
    <3>3. QED
      BY <1>6, <1>8, <1>10, <2>1, <3>2
  <2>4. QED
    BY <2>2, <2>3
<1>13. at = idx
  <2>1. SUFFICES ASSUME at # idx PROVE FALSE
    OBVIOUS
  <2>2. s.at = at /\ idx < at
    BY <1>4, <1>5, <2>1
  <2>3. ranges[idx][2] <= ranges[at][1]
    <3>1. idx \in DOMAIN ranges /\ at \in DOMAIN ranges
      <4>1. DOMAIN ranges = 1..n
        BY <1>1 DEF OfACoin
      <4>2. QED
        BY <1>4, <1>5, <4>1
    <3>2. QED
      BY <1>1, <2>2, <3>1, Zenon DEF InOrder
  <2>4. ord < ranges[idx][2] /\ ranges[idx][2] \in Nat
    <3>1. ranges[idx][2] \in Nat
      BY <1>1, <1>4 DEF OfACoin
    <3>2. QED
      BY <1>4, <3>1 DEF Holds
  <2>5. ord < lo
    BY <1>4, <1>6, <1>7, <2>3, <2>4
  <2>6. Gap(s, found) = ord - lo
    BY <1>4, <1>7, <1>9, <1>12, <2>2
  <2>7. QED
    BY <1>1, <1>4, <1>7, <2>5, <2>6
<1>14. first <= ord
  BY <1>4, <1>6, <1>13 DEF Holds
<1>15. PICK place : place = PlaceOf(ranges, found)
  OBVIOUS
<1>16. place = before + (ord - first) /\ place \in Int
  BY <1>3, <1>4, <1>6, <1>7, <1>10, <1>11, <1>13, <1>15 DEF PlaceOf
<1>17. c \in Int
  BY <1>1, <1>8, PositionInt
<1>18. Gap(s, found) = place - c /\ lo <= ord
  <2>1. CASE s.at = at
    <3>1. Gap(s, found) = ord - lo /\ c = before + (lo - first)
      BY <1>4, <1>7, <1>9, <1>12, <2>1
    <3>2. lo <= ord
      BY <1>1, <1>4, <1>7, <3>1
    <3>3. QED
      BY <1>4, <1>7, <1>11, <1>16, <3>1, <3>2
  <2>2. CASE s.at # at
    <3>1. s.at < at /\ s.at <= at - 1 /\ at - 1 \in 0..n /\ (at - 1) + 1 = at /\ s.at \in Nat \ {0}
      BY <1>1, <1>2, <1>5, <2>2
    <3>2. PICK p : p = s.at
      OBVIOUS
    <3>3. Between(s.info, p, (at - 1) + 1) = Before(ranges, at - 1) - Position(s.info, ranges, p)
      BY <1>1, <3>1, <3>2, BetweenIs
    <3>4. b = before - c
      BY <1>8, <1>10, <3>1, <3>2, <3>3
    <3>5. lo = first
      BY <1>1, <1>5, <1>6, <3>1 DEF Whole
    <3>6. QED
      BY <1>4, <1>7, <1>9, <1>11, <1>14, <1>16, <1>17, <3>4, <3>5
  <2>3. QED
    BY <2>1, <2>2
<1>19. QED
  BY <1>3, <1>4, <1>5, <1>6, <1>8, <1>13, <1>15, <1>16, <1>18

\* Each ordinal placed is in the steps, behind its place by what is spent too
\* much at that point, which never gets less.
StepAt(ranges, steps, i, found, slack) ==
    /\ steps[i] = Step("ordinal", found.ord)
    /\ PlaceOf(ranges, found) <= Spent(steps, i - 1)
    /\ Spent(steps, i - 1) <= PlaceOf(ranges, found) + slack
PlacedTo(ranges, gain, list, s, k) ==
    ~s.fault =>
      /\ MovedOn(s.info, ranges) /\ Whole(s.info, ranges, s.at) /\ s.at \in 1..Len(ranges) + 1
      /\ Gained(s.steps, Len(s.steps)) = gain
      /\ Slack(ranges, s) >= 0
      /\ \A j \in 1..k : \E i \in 1..Len(s.steps) :
           StepAt(ranges, s.steps, i, list[j], Slack(ranges, s))

LEMMA PlaceGoesOn ==
    ASSUME NEW ranges, OfACoin(ranges), InOrder(ranges), NEW ordinals, NEW gain,
           NEW list \in Seq(Meant(ranges, ordinals)), NEW k \in 1..Len(list),
           NEW s \in Placing(Len(ranges)), PlacedTo(ranges, gain, list, s, k - 1),
           NEW t, t = PlaceOrdinal(s, list[k])
    PROVE  PlacedTo(ranges, gain, list, t, k)
<1> DEFINE n == Len(ranges)
<1>1. n \in Nat
  BY DEF OfACoin
<1>2. PICK found : found = list[k]
  OBVIOUS
<1>3. found \in Meant(ranges, ordinals) /\ found \in Found /\ found.idx \in 1..n
      /\ found.ord \in Nat
  <2>1. found \in Meant(ranges, ordinals)
    BY <1>2
  <2>2. QED
    BY <2>1 DEF Meant, Found
<1>4. SUFFICES ASSUME ~t.fault PROVE PlacedTo(ranges, gain, list, t, k)
  BY DEF PlacedTo
<1>5. ~s.fault /\ PlacedAs(n, s, found, t)
  <2>1. Places(n, s, found)
    BY <1>1, <1>3, Zenon DEF Places
  <2>2. t = PlaceOrdinal(s, found)
    BY <1>2
  <2>3. t.fault \/ (~s.fault /\ PlacedAs(n, s, found, t))
    BY <2>1, <2>2, PlaceStepPlaces, Zenon
  <2>4. QED
    BY <1>4, <2>3, Zenon
<1>6. /\ s.steps \in Seq(PlanStep) /\ s.payouts \in Seq(Nat)
  BY DEF Placing
<1>7. /\ MovedOn(s.info, ranges) /\ Whole(s.info, ranges, s.at) /\ s.at \in 1..n + 1
      /\ Gained(s.steps, Len(s.steps)) = gain
      /\ Slack(ranges, s) >= 0
      /\ \A j \in 1..k - 1 : \E i \in 1..Len(s.steps) :
           StepAt(ranges, s.steps, i, list[j], Slack(ranges, s))
  BY <1>5 DEF PlacedTo
<1>8. PICK total, at : total = Gap(s, found) /\ at = InPlace(s, found)
  OBVIOUS
<1>9. PICK outs, next : /\ outs = GreedyAssignOuts(total, s.payouts)
                        /\ next = Advance(s.info, at, Padding + 1)
  OBVIOUS
<1>10. /\ at \in 1..n /\ total \in Nat /\ ~ (outs.left > 0) /\ ~ (next.left > 0)
       /\ t.info = next.info /\ t.at = next.at
       /\ t.steps = WithSteps(s.steps, outs.paid, found.ord)
  BY <1>5, <1>8, <1>9, Zenon DEF PlacedAs
<1>11. PICK place, here : place = PlaceOf(ranges, found) /\ here = Position(s.info, ranges, s.at)
  OBVIOUS
<1>12. /\ at = found.idx /\ s.at <= at /\ total = place - here /\ place \in Int
       /\ s.info[at].lo <= found.ord
  <2>1. Fills(ranges, ordinals, s, found)
    BY <1>3, <1>7, <1>8, <1>10 DEF Fills
  <2>2. /\ InPlace(s, found) = found.idx
        /\ s.at <= found.idx
        /\ Gap(s, found) = PlaceOf(ranges, found) - Position(s.info, ranges, s.at)
        /\ PlaceOf(ranges, found) \in Int
        /\ s.info[found.idx].lo <= found.ord
    BY <2>1, GapIs
  <2>3. QED
    BY <1>8, <1>11, <2>2
<1>13. here \in Int
  BY <1>7, <1>11, PositionInt
<1>14. SumTo(outs.paid, Len(outs.paid)) = total /\ outs.paid \in Seq(Nat)
  <2>1. /\ outs \in Assigning
        /\ total >= 0 => /\ outs.left >= 0
                         /\ SumTo(outs.paid, Len(outs.paid)) = total - outs.left
    BY <1>6, <1>9, <1>10, GreedyAssigns
  <2>2. outs.left \in Int /\ outs.paid \in Seq(Nat)
    BY <2>1 DEF Assigning
  <2>3. QED
    BY <1>10, <2>1, <2>2
<1>15. Whole(s.info, ranges, at)
  <2>1. \A j \in 1..n : j > at => j > s.at
    BY <1>1, <1>7, <1>10, <1>12
  <2>2. QED
    BY <1>7, <2>1 DEF Whole
<1>16. PICK m : m = Padding + 1
  OBVIOUS
<1>17. m \in Nat \ {0}
  BY <1>16, PaddingAssumption
<1>18. PICK info : info = s.info
  OBVIOUS
<1>19. Taken(info, ranges, at, m, next)
  <2>1. next.left \in Nat /\ (next.left = 0 => Taken(info, ranges, at, m, next))
    <3>1. MovedOn(info, ranges) /\ Whole(info, ranges, at) /\ next = Advance(info, at, m)
      BY <1>7, <1>9, <1>15, <1>16, <1>18
    <3>2. QED
      BY <1>10, <1>17, <3>1, AdvanceMoves
  <2>2. QED
    BY <1>10, <2>1
<1>20. /\ t.at \in at..n /\ MovedOn(t.info, ranges) /\ Whole(t.info, ranges, t.at)
       /\ Position(t.info, ranges, t.at) = Position(info, ranges, at) + m
  BY <1>10, <1>19, Zenon DEF Taken
<1>21. PICK lo, first, before : /\ lo = s.info[at].lo /\ first = ranges[at][1]
                                /\ before = Before(ranges, at - 1)
  OBVIOUS
<1>22. /\ lo \in Nat /\ first \in Nat /\ before \in Nat
       /\ Position(info, ranges, at) = before + (lo - first)
  <2>1. at \in 1..n + 1 /\ at <= n
    BY <1>1, <1>10
  <2>2. QED
    BY <1>7, <1>18, <1>21, <2>1, PositionInt
<1>23. place = before + (found.ord - first)
  BY <1>11, <1>12, <1>21 DEF PlaceOf
<1>24. PICK steps, x, more : steps = s.steps /\ x = Spent(s.steps, Len(s.steps)) /\ more = t.steps
  OBVIOUS
<1>25. PICK last : last = Len(steps) + Len(outs.paid) + 1
  OBVIOUS
<1>26. /\ more \in Seq(PlanStep) /\ Len(more) = last /\ last \in Nat \ {0}
       /\ \A j \in 1..Len(steps) : more[j] = steps[j]
       /\ \A j \in 0..Len(steps) : Spent(more, j) = Spent(steps, j)
       /\ more[last] = Step("ordinal", found.ord)
       /\ Spent(more, last - 1) = x + total
       /\ Spent(more, last) = x + total + m
       /\ Gained(more, last) = gain
  <2>1. PICK paid, ord : paid = outs.paid /\ ord = found.ord
    OBVIOUS
  <2>2. more = WithSteps(steps, paid, ord) /\ steps \in Seq(PlanStep) /\ paid \in Seq(Nat)
        /\ ord \in Nat /\ last = Len(steps) + Len(paid) + 1
    BY <1>3, <1>6, <1>10, <1>14, <1>24, <1>25, <2>1
  <2>3. /\ more \in Seq(PlanStep) /\ Len(more) = last /\ last \in Nat \ {0}
        /\ \A j \in 1..Len(steps) : more[j] = steps[j]
        /\ \A j \in 0..Len(steps) : Spent(more, j) = Spent(steps, j)
        /\ more[last] = Step("ordinal", ord)
        /\ Spent(more, last - 1) = Spent(steps, Len(steps)) + SumTo(paid, Len(paid))
        /\ Spent(more, last) = Spent(steps, Len(steps)) + SumTo(paid, Len(paid)) + (Padding + 1)
        /\ Gained(more, last) = Gained(steps, Len(steps))
    <3>1. Extends(steps, paid, ord, more, last)
      BY <2>2 DEF Extends
    <3>2. QED
      BY <3>1, WithStepsIs
  <2>4. Spent(steps, Len(steps)) = x /\ SumTo(paid, Len(paid)) = total /\ Padding + 1 = m
        /\ Gained(steps, Len(steps)) = gain
    BY <1>7, <1>14, <1>16, <1>24, <2>1
  <2>5. QED
    BY <2>1, <2>3, <2>4
<1>27. x \in Int
  <2>1. Len(s.steps) \in 0..Len(s.steps)
    BY <1>6
  <2>2. QED
    BY <1>6, <1>24, <2>1, SpentInt
<1>28. PICK old, new : old = Slack(ranges, s) /\ new = Slack(ranges, t)
  OBVIOUS
<1>29. old = x - here /\ new = (x + total + m) - (before + (lo - first) + m)
  <2>1. old = x - here
    BY <1>11, <1>24, <1>28 DEF Slack
  <2>2. new = Spent(more, Len(more)) - Position(t.info, ranges, t.at)
    BY <1>24, <1>28 DEF Slack
  <2>3. Spent(more, Len(more)) = x + total + m
    BY <1>26
  <2>4. Position(t.info, ranges, t.at) = before + (lo - first) + m
    BY <1>20, <1>22
  <2>5. QED
    BY <2>1, <2>2, <2>3, <2>4
<1>30. PICK ord : ord = found.ord
  OBVIOUS
<1>31. /\ ord \in Nat /\ lo <= ord /\ total = place - here /\ place = before + (ord - first)
       /\ old >= 0
  BY <1>3, <1>7, <1>12, <1>21, <1>23, <1>28, <1>30
<1>32. new = old + (ord - lo) /\ old \in Int
  BY <1>10, <1>13, <1>17, <1>22, <1>27, <1>29, <1>31
<1>33. new >= old /\ new >= 0 /\ new \in Int
  BY <1>22, <1>31, <1>32
<1>34. Spent(more, last - 1) = place + old
  BY <1>13, <1>26, <1>27, <1>29, <1>31, <1>12
<1>35. StepAt(ranges, more, last, found, new)
  <2>1. place <= place + old /\ place + old <= place + new
    BY <1>12, <1>31, <1>32, <1>33
  <2>2. QED
    BY <1>11, <1>26, <1>34, <2>1 DEF StepAt
<1>36. ASSUME NEW j \in 1..k PROVE \E i \in 1..Len(more) : StepAt(ranges, more, i, list[j], new)
  <2>1. CASE j = k
    <3>1. last \in 1..Len(more)
      BY <1>26
    <3>2. QED
      BY <1>2, <1>35, <2>1, <3>1
  <2>2. CASE j # k
    <3>1. j \in 1..k - 1
      BY <2>2
    <3>2. PICK i \in 1..Len(steps) : StepAt(ranges, steps, i, list[j], old)
      BY <1>7, <1>24, <1>28, <3>1
    <3>3. i \in 1..Len(more) /\ i - 1 \in 0..Len(steps)
      <4>1. Len(steps) \in Nat /\ Len(outs.paid) \in Nat
        BY <1>6, <1>14, <1>24
      <4>2. Len(more) = Len(steps) + Len(outs.paid) + 1
        BY <1>25, <1>26
      <4>3. QED
        BY <4>1, <4>2
    <3>4. more[i] = steps[i] /\ Spent(more, i - 1) = Spent(steps, i - 1)
      BY <1>26, <3>3
    <3>5. PICK to, y : to = PlaceOf(ranges, list[j]) /\ y = Spent(steps, i - 1)
      OBVIOUS
    <3>6. steps[i] = Step("ordinal", list[j].ord) /\ to <= y /\ y <= to + old
      BY <3>2, <3>5 DEF StepAt
    <3>7. to \in Int /\ y \in Int
      <4>1. y \in Int
        BY <1>6, <1>24, <3>3, <3>5, SpentInt
      <4>2. list[j] \in Meant(ranges, ordinals)
        BY <3>1
      <4>3. list[j].idx \in 1..n /\ list[j].ord \in Nat
        BY <4>2 DEF Meant, Found
      <4>4. to \in Int
        BY <3>5, <4>3, PlaceOfInt
      <4>5. QED
        BY <4>1, <4>4
    <3>8. y <= to + new
      BY <1>32, <1>33, <3>6, <3>7
    <3>9. StepAt(ranges, more, i, list[j], new)
      BY <3>4, <3>5, <3>6, <3>8 DEF StepAt
    <3>10. QED
      BY <3>3, <3>9
  <2>3. QED
    BY <2>1, <2>2
<1>37. t.at \in 1..n + 1
  BY <1>1, <1>10, <1>20
<1>38. Gained(t.steps, Len(t.steps)) = gain
  BY <1>24, <1>26
<1>39. QED
  BY <1>20, <1>24, <1>28, <1>33, <1>36, <1>37, <1>38 DEF PlacedTo

PlaceOver(base, list) == FoldLeft(PlaceOrdinal, base, list)

\* The states of a placing, ordinal by ordinal.
LEMMA PlaceStates ==
    ASSUME NEW m \in Nat, NEW start \in Placing(m), NEW ranges, Len(ranges) = m, NEW ordinals,
           NEW list \in Seq(Meant(ranges, ordinals))
    PROVE  \E f \in [0..Len(list) -> Placing(m)] :
             /\ f[0] = start
             /\ \A k \in 1..Len(list) : f[k] = PlaceOrdinal(f[k - 1], list[k])
             /\ PlaceOver(start, list) = f[Len(list)]
<1> DEFINE n == Len(list)
           base == start
           op == [p \in (Placing(m)) \X (Meant(ranges, ordinals)) |-> PlaceOrdinal(p[1], p[2])]
           Rec(t) == [s \in SUBSET (1..n) |-> IF s = {} THEN base
                        ELSE PlaceOrdinal(t[s \ {Max(s)}], list[Max(s)])]
           iter == CHOOSE t : t = Rec(t)
<1>1. n \in Nat /\ n \in 0..n /\ DOMAIN list = 1..n /\ list \in [1..n -> Meant(ranges, ordinals)]
  OBVIOUS
<1>2. PlaceOver(start, list) = iter[1..n]
  BY <1>1 DEF PlaceOver, FoldLeft, MapThenFoldSet
<1>3. base \in Placing(m)
  OBVIOUS
<1>4. op \in [(Placing(m)) \X (Meant(ranges, ordinals)) -> Placing(m)]
  <2>1. \A s \in Placing(m), found \in Meant(ranges, ordinals) : PlaceOrdinal(s, found) \in Placing(m)
    <3>1. ASSUME NEW s \in Placing(m), NEW found \in Meant(ranges, ordinals)
          PROVE  PlaceOrdinal(s, found) \in Placing(m)
      <4>1. Places(m, s, found)
        BY DEF Places, Meant
      <4>2. QED
        BY <4>1, PlaceStepPlaces
    <3>2. QED
      BY <3>1
  <2>2. QED
    BY <2>1
<1> HIDE DEF base, op
<1>5. PICK t \in [SUBSET (1..n) -> Placing(m)] : IsFoldTable(t, op, base, list, n)
  <2> HIDE DEF n
  <2>1. Folds(Placing(m), Meant(ranges, ordinals), op, base, list, n)
    BY <1>1, <1>3, <1>4 DEF Folds
  <2>2. HasTable(Placing(m), op, base, list, n)
    BY <2>1, FoldHasTable
  <2>3. QED
    BY <2>2 DEF HasTable
<1>6. \A s \in SUBSET (1..n) : s # {} =>
        op[<<t[s \ {Max(s)}], list[Max(s)]>>] = PlaceOrdinal(t[s \ {Max(s)}], list[Max(s)])
  <2>1. SUFFICES ASSUME NEW s \in SUBSET (1..n), s # {}
                 PROVE  op[<<t[s \ {Max(s)}], list[Max(s)]>>] =
                          PlaceOrdinal(t[s \ {Max(s)}], list[Max(s)])
    OBVIOUS
  <2>2. Max(s) \in 1..n /\ s \ {Max(s)} \in SUBSET (1..n)
    BY <1>1, <2>1, LastPlace
  <2>3. t[s \ {Max(s)}] \in Placing(m) /\ list[Max(s)] \in Meant(ranges, ordinals)
    BY <2>2, <1>1
  <2>4. QED
    BY <2>3 DEF op
<1>7. t = Rec(t)
  <2>1. \A s \in SUBSET (1..n) : t[s] = Rec(t)[s]
    BY <1>5, <1>6 DEF IsFoldTable
  <2>2. QED
    BY <2>1
<1>8. iter = Rec(iter)
  BY <1>7
<1> HIDE DEF iter
<1>9. Follows(iter, t, Placing(m), op, base, list, n)
  <2>1. iter[{}] = base
    BY <1>8
  <2>2. \A s \in SUBSET (1..n) :
          s # {} /\ iter[s \ {Max(s)}] = t[s \ {Max(s)}] => iter[s] = t[s]
    BY <1>7, <1>8
  <2>3. QED
    BY <2>1, <2>2, <1>1, <1>5 DEF Follows
<1> DEFINE f == RunOf(iter, n)
<1>10. IsRun(f, Placing(m), op, base, list, n) /\ iter[1..n] = f[n]
  BY <1>9, FoldRun
<1> HIDE DEF f
<1>11. /\ f \in [0..n -> Placing(m)] /\ f[0] = base
       /\ \A k \in 1..n : f[k] = PlaceOrdinal(f[k - 1], list[k])
  <2>1. \A k \in 1..n : f[k - 1] \in Placing(m) /\ list[k] \in Meant(ranges, ordinals)
    <3>1. \A k \in 1..n : k - 1 \in 0..n
      BY <1>1
    <3>2. f \in [0..n -> Placing(m)]
      BY <1>10 DEF IsRun
    <3> HIDE DEF n
    <3>3. QED
      BY <3>1, <3>2, <1>1
  <2>2. QED
    BY <1>10, <2>1 DEF op, IsRun
<1>12. QED
  BY <1>2, <1>10, <1>11, Zenon DEF base

\* What is placed of a coin from which nothing was taken.
StartsAt(ranges, payouts, payins, start) ==
    start = [info |-> [i \in 1..Len(ranges) |-> RowAt(ranges, i)], at |-> 1,
             payouts |-> payouts, fault |-> FALSE, steps |-> Steps("payin", payins)]

LEMMA StartIsPlaced ==
    ASSUME NEW ranges, OfACoin(ranges), NEW payouts \in Seq(Nat), NEW payins \in Seq(Nat),
           NEW start, StartsAt(ranges, payouts, payins, start), NEW list
    PROVE  /\ start \in Placing(Len(ranges))
           /\ PlacedTo(ranges, SumTo(payins, Len(payins)), list, start, 0)
<1> DEFINE n == Len(ranges)
<1>1. n \in Nat
  BY DEF OfACoin
<1>2. PICK info : info = [i \in 1..n |-> RowAt(ranges, i)]
  OBVIOUS
<1>3. /\ MovedOn(info, ranges) /\ Whole(info, ranges, 1)
      /\ Position(info, ranges, 1) = 0 /\ info \in [1..n -> Row]
  BY <1>2, NothingTaken
<1>4. PICK steps : steps = Steps("payin", payins)
  OBVIOUS
<1>5. PICK gain : gain = SumTo(payins, Len(payins))
  OBVIOUS
<1>6. /\ steps \in Seq(PlanStep) /\ Len(steps) = Len(payins)
      /\ Spent(steps, Len(steps)) = 0 /\ Gained(steps, Len(steps)) = gain
  <2>1. payins \in Seq(Int) /\ Len(payins) \in Nat /\ Len(payins) \in 0..Len(payins)
    OBVIOUS
  <2>2. PICK kind : kind = "payin"
    OBVIOUS
  <2>3. /\ steps \in Seq(PlanStep) /\ Len(steps) = Len(payins)
        /\ \A k \in 0..Len(payins) : Spent(steps, k) = 0
        /\ \A k \in 0..Len(payins) : Gained(steps, k) = SumTo(payins, k)
    BY <1>4, <2>1, StepsAre
  <2>4. QED
    BY <1>5, <2>1, <2>3
<1>7. start = [info |-> info, at |-> 1, payouts |-> payouts, fault |-> FALSE, steps |-> steps]
  BY <1>2, <1>4, Zenon DEF StartsAt
<1>8. start.info = info /\ start.at = 1 /\ start.steps = steps
  BY <1>7
<1>9. start \in Placing(n)
  <2>1. 1 \in Nat \ {0} /\ FALSE \in BOOLEAN
    OBVIOUS
  <2>2. QED
    BY <1>3, <1>6, <1>7, <2>1, PlacingIs, Zenon
<1>10. Slack(ranges, start) >= 0
  BY <1>3, <1>6, <1>8 DEF Slack
<1>11. 1 \in 1..n + 1
  BY <1>1
<1>12. PlacedTo(ranges, gain, list, start, 0)
  BY <1>3, <1>6, <1>8, <1>10, <1>11 DEF PlacedTo
<1>13. QED
  BY <1>5, <1>9, <1>12

\* All the ordinals are placed, unless there is a fault.
AllPlaced(ranges, ordinals, gain, list, start) ==
    /\ OfACoin(ranges) /\ InOrder(ranges) /\ list \in Seq(Meant(ranges, ordinals))
    /\ start \in Placing(Len(ranges)) /\ PlacedTo(ranges, gain, list, start, 0)

LEMMA PlacesAll ==
    ASSUME NEW ranges, NEW ordinals, NEW gain, NEW list, NEW start,
           AllPlaced(ranges, ordinals, gain, list, start),
           NEW placed, placed = PlaceOver(start, list)
    PROVE  placed \in Placing(Len(ranges)) /\ PlacedTo(ranges, gain, list, placed, Len(list))
<1>1. /\ OfACoin(ranges) /\ InOrder(ranges) /\ list \in Seq(Meant(ranges, ordinals))
      /\ start \in Placing(Len(ranges)) /\ PlacedTo(ranges, gain, list, start, 0)
  BY DEF AllPlaced
<1>2. PICK m : m = Len(ranges)
  OBVIOUS
<1>3. m \in Nat
  BY <1>1, <1>2 DEF OfACoin
<1>4. PICK k : k = Len(list)
  OBVIOUS
<1>5. k \in Nat
  BY <1>1, <1>4
<1>6. PICK f \in [0..k -> Placing(m)] :
        /\ f[0] = start
        /\ \A j \in 1..k : f[j] = PlaceOrdinal(f[j - 1], list[j])
        /\ PlaceOver(start, list) = f[k]
  <2>1. start \in Placing(m) /\ Len(ranges) = m
    BY <1>1, <1>2
  <2>2. \E f \in [0..Len(list) -> Placing(m)] :
          /\ f[0] = start
          /\ \A j \in 1..Len(list) : f[j] = PlaceOrdinal(f[j - 1], list[j])
          /\ PlaceOver(start, list) = f[Len(list)]
    BY <1>1, <1>3, <2>1, PlaceStates
  <2>3. QED
    BY <1>4, <2>2
<1> DEFINE S == {j \in 0..k : PlacedTo(ranges, gain, list, f[j], j)}
<1>7. 0 \in S
  BY <1>1, <1>5, <1>6
<1>8. ASSUME NEW j \in 1..k, j - 1 \in S PROVE j \in S
  <2>1. PlacedTo(ranges, gain, list, f[j - 1], j - 1) /\ j - 1 \in 0..k /\ j \in 0..k
    BY <1>5, <1>8
  <2>2. PICK s, t : s = f[j - 1] /\ t = f[j]
    OBVIOUS
  <2>3. /\ s \in Placing(Len(ranges)) /\ PlacedTo(ranges, gain, list, s, j - 1)
        /\ t = PlaceOrdinal(s, list[j]) /\ j \in 1..Len(list)
    BY <1>2, <1>4, <1>6, <2>1, <2>2
  <2>4. PlacedTo(ranges, gain, list, t, j)
    BY <1>1, <2>3, PlaceGoesOn
  <2>5. QED
    BY <2>1, <2>2, <2>4
<1>9. k \in S
  <2> HIDE DEF S
  <2>1. \A j \in 0..k : j \in S
    BY <1>5, <1>7, <1>8, StepsReach
  <2>2. QED
    BY <1>5, <2>1
<1>10. PlacedTo(ranges, gain, list, f[k], k) /\ f[k] \in Placing(m)
  BY <1>5, <1>6, <1>9
<1>11. QED
  BY <1>2, <1>4, <1>6, <1>10

\* The payment of a plan, step by step.
PaidStep == [kind : {"payin", "payout", "ordinal", "change", "fee"}, n : Int]
AmountOf(p) == IF p.kind = "ordinal" THEN Padding + 1 ELSE p.n
Output == [for : PaidStep, sats : Int]
Building == [ok : BOOLEAN, funds : Int, outs : Seq(Output)]

BuildStep(s, p) ==
    IF p.kind = "payin" THEN [s EXCEPT !.funds = @ + p.n]
    ELSE IF ~s.ok \/ AmountOf(p) > s.funds THEN [s EXCEPT !.ok = FALSE]
    ELSE [s EXCEPT !.funds = @ - AmountOf(p),
                   !.outs = IF p.kind = "fee" THEN @
                            ELSE Append(@, [for |-> p, sats |-> AmountOf(p)])]

BuildOver(funds, steps) ==
    FoldLeft(LAMBDA s, p : BuildStep(s, p), [ok |-> TRUE, funds |-> funds, outs |-> <<>>], steps)

LEMMA BuildIsOver ==
    ASSUME NEW funds, NEW plan
    PROVE  BuildPlan(funds, plan) = BuildOver(funds, plan.steps)
BY Zenon DEF BuildPlan, BuildOver, BuildStep, AmountOf

\* What a step that can be paid does.
Pays(s, p, t) ==
    t.ok =>
      /\ s.ok
      /\ p.kind = "payin" => t.funds = s.funds + p.n /\ t.outs = s.outs
      /\ p.kind # "payin" =>
           /\ AmountOf(p) <= s.funds /\ t.funds = s.funds - AmountOf(p)
           /\ p.kind = "fee" => t.outs = s.outs
           /\ p.kind # "fee" => t.outs = Append(s.outs, [for |-> p, sats |-> AmountOf(p)])
Payable(s, p) == s \in Building /\ p \in PaidStep

LEMMA BuildStepPays ==
    ASSUME NEW s, NEW p, Payable(s, p), NEW t, t = BuildStep(s, p)
    PROVE  t \in Building /\ Pays(s, p, t)
<1>1. s \in Building /\ p \in PaidStep
  BY DEF Payable
<1>2. PICK ok, funds, outs : ok = s.ok /\ funds = s.funds /\ outs = s.outs
  OBVIOUS
<1>3. ok \in BOOLEAN /\ funds \in Int /\ outs \in Seq(Output)
  BY <1>1, <1>2 DEF Building
<1>4. s = [ok |-> ok, funds |-> funds, outs |-> outs]
  BY <1>1, <1>2 DEF Building
<1>5. PICK a : a = AmountOf(p)
  OBVIOUS
<1>6. a \in Int /\ p.n \in Int
  BY <1>1, <1>5, PaddingAssumption DEF PaidStep, AmountOf
<1>7. CASE p.kind = "payin"
  <2>1. PICK u : u = [ok |-> ok, funds |-> funds + p.n, outs |-> outs]
    OBVIOUS
  <2>2. t = u
    <3>1. [s EXCEPT !.funds = @ + p.n] = u
      BY <1>4, <2>1
    <3>2. QED
      BY <1>7, <3>1, Zenon DEF BuildStep
  <2>3. u \in Building /\ u.ok = ok /\ u.funds = funds + p.n /\ u.outs = outs
    BY <1>3, <1>6, <2>1 DEF Building
  <2>4. Pays(s, p, u)
    BY <1>2, <1>3, <1>7, <2>3 DEF Pays
  <2>5. QED
    BY <2>2, <2>3, <2>4, Zenon
<1>8. CASE p.kind # "payin" /\ (~s.ok \/ a > s.funds)
  <2>1. PICK u : u = [ok |-> FALSE, funds |-> funds, outs |-> outs]
    OBVIOUS
  <2>2. t = u
    <3>1. [s EXCEPT !.ok = FALSE] = u
      <4>1. \A x : [s EXCEPT !.ok = x] = [ok |-> x, funds |-> funds, outs |-> outs]
        BY <1>4
      <4>2. QED
        BY <2>1, <4>1, Zenon
    <3>2. QED
      BY <1>5, <1>8, <3>1, Zenon DEF BuildStep
  <2>3. u \in Building /\ ~u.ok
    BY <1>3, <2>1 DEF Building
  <2>4. Pays(s, p, u)
    BY <2>3 DEF Pays
  <2>5. QED
    BY <2>2, <2>3, <2>4, Zenon
<1>9. CASE p.kind # "payin" /\ ~(~s.ok \/ a > s.funds)
  <2>1. PICK o : o = [for |-> p, sats |-> a]
    OBVIOUS
  <2>2. o \in Output
    BY <1>1, <1>6, <2>1 DEF Output
  <2>3. PICK more : more = IF p.kind = "fee" THEN outs ELSE Append(outs, o)
    OBVIOUS
  <2>4. more \in Seq(Output)
    BY <1>3, <2>2, <2>3
  <2>5. PICK u : u = [ok |-> ok, funds |-> funds - a, outs |-> more]
    OBVIOUS
  <2>6. t = u
    <3>1. t = [s EXCEPT !.funds = @ - a, !.outs = IF p.kind = "fee" THEN @ ELSE Append(@, o)]
      BY <1>5, <1>9, <2>1, Zenon DEF BuildStep
    <3>2. [s EXCEPT !.funds = @ - a, !.outs = IF p.kind = "fee" THEN @ ELSE Append(@, o)] = u
      <4>1. PICK v : v = [s EXCEPT !.funds = funds - a]
        OBVIOUS
      <4>2. v = [ok |-> ok, funds |-> funds - a, outs |-> outs]
        BY <1>4, <4>1
      <4>3. [v EXCEPT !.outs = more] = u
        BY <2>5, <4>2
      <4>4. [v EXCEPT !.outs = more] = [s EXCEPT !.funds = funds - a, !.outs = more]
        BY <4>1
      <4>5. [s EXCEPT !.funds = @ - a, !.outs = IF p.kind = "fee" THEN @ ELSE Append(@, o)] =
              [s EXCEPT !.funds = funds - a, !.outs = more]
        BY <1>2, <2>3
      <4>6. QED
        BY <4>3, <4>4, <4>5
    <3>3. QED
      BY <3>1, <3>2, Zenon
  <2>7. u \in Building /\ u.ok = ok /\ u.funds = funds - a /\ u.outs = more
    BY <1>3, <1>6, <2>4, <2>5 DEF Building
  <2>8. Pays(s, p, u)
    <3>1. s.ok /\ a <= s.funds
      BY <1>2, <1>3, <1>6, <1>9
    <3>2. u.funds = s.funds - AmountOf(p)
      BY <1>2, <1>5, <2>7
    <3>3. /\ p.kind = "fee" => u.outs = s.outs
          /\ p.kind # "fee" => u.outs = Append(s.outs, [for |-> p, sats |-> AmountOf(p)])
      BY <1>2, <1>5, <2>1, <2>3, <2>7
    <3>4. QED
      BY <1>5, <1>9, <3>1, <3>2, <3>3, Zenon DEF Pays
  <2>9. QED
    BY <2>6, <2>7, <2>8, Zenon
<1>10. QED
  BY <1>7, <1>8, <1>9

LEMMA BuildStepType == \A s \in Building, p \in PaidStep : BuildStep(s, p) \in Building
<1>1. ASSUME NEW s \in Building, NEW p \in PaidStep PROVE BuildStep(s, p) \in Building
  <2>1. Payable(s, p)
    BY DEF Payable
  <2>2. QED
    BY <2>1, BuildStepPays
<1>2. QED
  BY <1>1

\* The states of a payment.
LEMMA BuildStates ==
    ASSUME NEW funds \in Int, NEW steps \in Seq(PaidStep)
    PROVE  \E f \in [0..Len(steps) -> Building] :
             /\ f[0] = [ok |-> TRUE, funds |-> funds, outs |-> <<>>]
             /\ \A k \in 1..Len(steps) : f[k] = BuildStep(f[k - 1], steps[k])
             /\ BuildOver(funds, steps) = f[Len(steps)]
<1> DEFINE n == Len(steps)
           base == [ok |-> TRUE, funds |-> funds, outs |-> <<>>]
           op == [p \in (Building) \X (PaidStep) |-> BuildStep(p[1], p[2])]
           Rec(t) == [s \in SUBSET (1..n) |-> IF s = {} THEN base
                        ELSE BuildStep(t[s \ {Max(s)}], steps[Max(s)])]
           iter == CHOOSE t : t = Rec(t)
<1>1. n \in Nat /\ n \in 0..n /\ DOMAIN steps = 1..n /\ steps \in [1..n -> PaidStep]
  OBVIOUS
<1>2. BuildOver(funds, steps) = iter[1..n]
  BY <1>1 DEF BuildOver, FoldLeft, MapThenFoldSet
<1>3. base \in Building
  BY DEF Building
<1>4. op \in [(Building) \X (PaidStep) -> Building]
  BY BuildStepType
<1> HIDE DEF base, op
<1>5. PICK t \in [SUBSET (1..n) -> Building] : IsFoldTable(t, op, base, steps, n)
  <2> HIDE DEF n
  <2>1. Folds(Building, PaidStep, op, base, steps, n)
    BY <1>1, <1>3, <1>4 DEF Folds
  <2>2. HasTable(Building, op, base, steps, n)
    BY <2>1, FoldHasTable
  <2>3. QED
    BY <2>2 DEF HasTable
<1>6. \A s \in SUBSET (1..n) : s # {} =>
        op[<<t[s \ {Max(s)}], steps[Max(s)]>>] = BuildStep(t[s \ {Max(s)}], steps[Max(s)])
  <2>1. SUFFICES ASSUME NEW s \in SUBSET (1..n), s # {}
                 PROVE  op[<<t[s \ {Max(s)}], steps[Max(s)]>>] =
                          BuildStep(t[s \ {Max(s)}], steps[Max(s)])
    OBVIOUS
  <2>2. Max(s) \in 1..n /\ s \ {Max(s)} \in SUBSET (1..n)
    BY <1>1, <2>1, LastPlace
  <2>3. t[s \ {Max(s)}] \in Building /\ steps[Max(s)] \in PaidStep
    BY <2>2, <1>1
  <2>4. QED
    BY <2>3 DEF op
<1>7. t = Rec(t)
  <2>1. \A s \in SUBSET (1..n) : t[s] = Rec(t)[s]
    BY <1>5, <1>6 DEF IsFoldTable
  <2>2. QED
    BY <2>1
<1>8. iter = Rec(iter)
  BY <1>7
<1> HIDE DEF iter
<1>9. Follows(iter, t, Building, op, base, steps, n)
  <2>1. iter[{}] = base
    BY <1>8
  <2>2. \A s \in SUBSET (1..n) :
          s # {} /\ iter[s \ {Max(s)}] = t[s \ {Max(s)}] => iter[s] = t[s]
    BY <1>7, <1>8
  <2>3. QED
    BY <2>1, <2>2, <1>1, <1>5 DEF Follows
<1> DEFINE f == RunOf(iter, n)
<1>10. IsRun(f, Building, op, base, steps, n) /\ iter[1..n] = f[n]
  BY <1>9, FoldRun
<1> HIDE DEF f
<1>11. /\ f \in [0..n -> Building] /\ f[0] = base
       /\ \A k \in 1..n : f[k] = BuildStep(f[k - 1], steps[k])
  <2>1. \A k \in 1..n : f[k - 1] \in Building /\ steps[k] \in PaidStep
    <3>1. \A k \in 1..n : k - 1 \in 0..n
      BY <1>1
    <3>2. f \in [0..n -> Building]
      BY <1>10 DEF IsRun
    <3> HIDE DEF n
    <3>3. QED
      BY <3>1, <3>2, <1>1
  <2>2. QED
    BY <1>10, <2>1 DEF op, IsRun
<1>12. QED
  BY <1>2, <1>10, <1>11, Zenon DEF base

\* Where the outputs begin, when there is one more.
GetsOutput(outs, o, more) == outs \in Seq(Output) /\ o \in Output /\ more = Append(outs, o)
GrownBy(outs, o, more) ==
    /\ Len(more) = Len(outs) + 1
    /\ more[Len(outs) + 1] = o /\ \A i \in 1..Len(outs) : more[i] = outs[i]
    /\ \A i \in 1..Len(outs) + 1 : StartOf(more, i) = StartOf(outs, i)
    /\ StartOf(more, Len(more) + 1) = StartOf(outs, Len(outs) + 1) + o.sats

LEMMA StartGrows ==
    ASSUME NEW outs, NEW o, NEW more, GetsOutput(outs, o, more)
    PROVE  GrownBy(outs, o, more)
<1>0. outs \in Seq(Output) /\ o \in Output /\ more = Append(outs, o)
  BY DEF GetsOutput
<1>1. PICK n : n = Len(outs)
  OBVIOUS
<1>2. /\ n \in Nat /\ more \in Seq(Output) /\ Len(more) = n + 1
      /\ more[n + 1] = o /\ \A i \in 1..n : more[i] = outs[i]
  BY <1>0, <1>1
<1>3. ASSUME NEW i \in 1..n + 1 PROVE StartOf(more, i) = StartOf(outs, i)
  <2>1. \A j \in 1..i - 1 : more[j] = outs[j]
    BY <1>2
  <2>2. [j \in 1..i - 1 |-> more[j].sats] = [j \in 1..i - 1 |-> outs[j].sats]
    BY <2>1
  <2>3. QED
    BY <2>2 DEF StartOf
<1>4. StartOf(more, (n + 1) + 1) = StartOf(more, n + 1) + o.sats
  <2>1. \A j \in 1..n + 1 : more[j].sats \in Int
    <3>1. \A j \in 1..n + 1 : more[j] \in Output
      BY <1>2
    <3>2. QED
      BY <3>1 DEF Output
  <2>2. PICK f : f = [j \in 1..n + 1 |-> more[j].sats]
    OBVIOUS
  <2>3. PICK g : g = [j \in 1..(n + 1) - 1 |-> more[j].sats]
    OBVIOUS
  <2>4. OneLonger(f, g, n + 1)
    BY <1>2, <2>1, <2>2, <2>3 DEF OneLonger
  <2>5. SumFunction(f) = f[n + 1] + SumFunction(g) /\ SumFunction(g) \in Int
    BY <2>4, SumOneLonger
  <2>6. f[n + 1] = o.sats /\ o.sats \in Int
    BY <1>2, <2>1, <2>2
  <2>7. StartOf(more, n + 1) = SumFunction(g)
    BY <2>3 DEF StartOf
  <2>8. StartOf(more, (n + 1) + 1) = SumFunction(f)
    <3>1. ((n + 1) + 1) - 1 = n + 1
      BY <1>2
    <3>2. QED
      BY <2>2, <3>1 DEF StartOf
  <2>9. QED
    BY <2>5, <2>6, <2>7, <2>8
<1>5. StartOf(more, n + 1) = StartOf(outs, n + 1)
  <2>1. n + 1 \in 1..n + 1
    BY <1>2
  <2>2. QED
    BY <1>3, <2>1
<1>6. QED
  BY <1>1, <1>2, <1>3, <1>4, <1>5 DEF GrownBy

LEMMA SpentStep ==
    ASSUME NEW steps \in Seq(PlanStep), NEW k \in 1..Len(steps)
    PROVE  /\ Spent(steps, k) = Spent(steps, k - 1) + CostOf(steps[k])
           /\ Gained(steps, k) = Gained(steps, k - 1) + GainOf(steps[k])
           /\ Spent(steps, k - 1) \in Int /\ Gained(steps, k - 1) \in Int
           /\ CostOf(steps[k]) \in Int /\ GainOf(steps[k]) \in Int
<1>1. PICK c, g : c = Costs(steps) /\ g = Gains(steps)
  OBVIOUS
<1>2. c \in Seq(Int) /\ Len(c) = Len(steps) /\ g \in Seq(Int) /\ Len(g) = Len(steps)
  BY <1>1, CostsType
<1>3. c[k] = CostOf(steps[k]) /\ g[k] = GainOf(steps[k])
  BY <1>1 DEF Costs, Gains
<1>4. /\ SumTo(c, k) = SumTo(c, k - 1) + c[k] /\ SumTo(c, k - 1) \in Int /\ c[k] \in Int
      /\ SumTo(g, k) = SumTo(g, k - 1) + g[k] /\ SumTo(g, k - 1) \in Int /\ g[k] \in Int
  <2>1. k \in 1..Len(c) /\ k \in 1..Len(g)
    BY <1>2
  <2>2. QED
    BY <1>2, <2>1, SumToStep
<1>5. QED
  BY <1>1, <1>3, <1>4 DEF Spent, Gained

\* A payment that goes well has what the steps so far leave, and an output for
\* each of them but the payins, after all that was spent before.
PaidAt(pre, outs, j) ==
    pre[j].kind # "payin" =>
      \E i \in 1..Len(outs) : outs[i].for = pre[j] /\ StartOf(outs, i) = Spent(pre, j - 1)
PaidTo(funds, pre, s, k) ==
    s.ok =>
      /\ s.funds = funds + Gained(pre, k) - Spent(pre, k)
      /\ StartOf(s.outs, Len(s.outs) + 1) = Spent(pre, k)
      /\ \A j \in 1..k : PaidAt(pre, s.outs, j)

LEMMA PayGoesOn ==
    ASSUME NEW funds \in Int, NEW pre \in Seq(PlanStep), NEW k \in 1..Len(pre),
           NEW s \in Building, PaidTo(funds, pre, s, k - 1),
           NEW p, p = pre[k], NEW t, t = BuildStep(s, p)
    PROVE  PaidTo(funds, pre, t, k)
<1>1. SUFFICES ASSUME t.ok PROVE PaidTo(funds, pre, t, k)
  BY DEF PaidTo
<1>2. p \in PlanStep
  OBVIOUS
<1>3. p.kind # "fee" /\ p.n \in Int /\ p \in PaidStep
  BY <1>2 DEF PlanStep, PaidStep
<1>4. t \in Building /\ Pays(s, p, t)
  <2>1. Payable(s, p)
    BY <1>3 DEF Payable
  <2>2. QED
    BY <2>1, BuildStepPays
<1>5. /\ s.ok
      /\ p.kind = "payin" => t.funds = s.funds + p.n /\ t.outs = s.outs
      /\ p.kind # "payin" => /\ t.funds = s.funds - AmountOf(p)
                             /\ t.outs = Append(s.outs, [for |-> p, sats |-> AmountOf(p)])
  BY <1>1, <1>3, <1>4 DEF Pays
<1>6. PICK outs, x, g : outs = s.outs /\ x = Spent(pre, k - 1) /\ g = Gained(pre, k - 1)
  OBVIOUS
<1>7. /\ s.funds = funds + g - x /\ StartOf(outs, Len(outs) + 1) = x
      /\ \A j \in 1..k - 1 : PaidAt(pre, outs, j)
      /\ outs \in Seq(Output)
  BY <1>5, <1>6 DEF PaidTo, Building
<1>8. /\ Spent(pre, k) = x + CostOf(p) /\ Gained(pre, k) = g + GainOf(p)
      /\ x \in Int /\ g \in Int /\ CostOf(p) \in Int /\ GainOf(p) \in Int
  BY <1>6, SpentStep
<1>9. CASE p.kind = "payin"
  <2>1. CostOf(p) = 0 /\ GainOf(p) = p.n
    BY <1>9 DEF CostOf, GainOf
  <2>2. t.funds = funds + Gained(pre, k) - Spent(pre, k) /\ t.outs = outs
    <3>1. t.funds = s.funds + p.n /\ t.outs = outs
      BY <1>5, <1>6, <1>9
    <3>2. PICK left, had, in : left = t.funds /\ had = s.funds /\ in = p.n
      OBVIOUS
    <3>3. left = had + in /\ had = funds + g - x /\ in \in Int
      BY <1>3, <1>7, <3>1, <3>2
    <3>4. Spent(pre, k) = x /\ Gained(pre, k) = g + in
      BY <1>8, <2>1, <3>2
    <3>5. left = funds + (g + in) - x
      BY <1>8, <3>3
    <3>6. QED
      BY <3>1, <3>2, <3>4, <3>5
  <2>3. StartOf(t.outs, Len(t.outs) + 1) = Spent(pre, k)
    BY <1>7, <1>8, <2>1, <2>2
  <2>4. ASSUME NEW j \in 1..k PROVE PaidAt(pre, t.outs, j)
    <3>1. CASE j = k
      BY <1>9, <3>1 DEF PaidAt
    <3>2. CASE j # k
      <4>1. j \in 1..k - 1
        BY <3>2
      <4>2. QED
        BY <1>7, <2>2, <4>1
    <3>3. QED
      BY <3>1, <3>2
  <2>5. QED
    BY <2>2, <2>3, <2>4 DEF PaidTo
<1>10. CASE p.kind # "payin"
  <2>1. PICK a : a = AmountOf(p)
    OBVIOUS
  <2>2. CostOf(p) = a /\ GainOf(p) = 0
    BY <1>10, <2>1 DEF CostOf, GainOf, AmountOf
  <2>3. PICK o : o = [for |-> p, sats |-> a]
    OBVIOUS
  <2>4. o \in Output /\ o.for = p /\ o.sats = a
    BY <1>3, <1>8, <2>2, <2>3 DEF Output
  <2>5. PICK more : more = t.outs
    OBVIOUS
  <2>6. more = Append(outs, o) /\ t.funds = s.funds - a
    BY <1>5, <1>6, <1>10, <2>1, <2>3, <2>5
  <2>7. /\ Len(more) = Len(outs) + 1
        /\ more[Len(outs) + 1] = o /\ \A i \in 1..Len(outs) : more[i] = outs[i]
        /\ \A i \in 1..Len(outs) + 1 : StartOf(more, i) = StartOf(outs, i)
        /\ StartOf(more, Len(more) + 1) = StartOf(outs, Len(outs) + 1) + o.sats
    <3>1. GetsOutput(outs, o, more)
      BY <1>7, <2>4, <2>6 DEF GetsOutput
    <3>2. GrownBy(outs, o, more)
      BY <3>1, StartGrows, Zenon
    <3>3. QED
      BY <3>2 DEF GrownBy
  <2>8. Len(outs) \in Nat /\ Len(outs) + 1 \in 1..Len(outs) + 1
    BY <1>7
  <2>9. t.funds = funds + Gained(pre, k) - Spent(pre, k)
    BY <1>7, <1>8, <2>2, <2>6
  <2>10. StartOf(more, Len(more) + 1) = Spent(pre, k)
    BY <1>7, <1>8, <2>2, <2>4, <2>7
  <2>11. ASSUME NEW j \in 1..k PROVE PaidAt(pre, more, j)
    <3>1. CASE j = k
      <4>1. Len(outs) + 1 \in 1..Len(more)
        BY <2>7, <2>8
      <4>2. more[Len(outs) + 1].for = p /\ StartOf(more, Len(outs) + 1) = x
        BY <1>7, <2>4, <2>7, <2>8
      <4>3. QED
        BY <1>6, <3>1, <4>1, <4>2 DEF PaidAt
    <3>2. CASE j # k
      <4>1. j \in 1..k - 1
        BY <3>2
      <4>2. SUFFICES ASSUME pre[j].kind # "payin"
                     PROVE  \E i \in 1..Len(more) : /\ more[i].for = pre[j]
                                                    /\ StartOf(more, i) = Spent(pre, j - 1)
        BY DEF PaidAt
      <4>3. PICK i \in 1..Len(outs) : outs[i].for = pre[j] /\ StartOf(outs, i) = Spent(pre, j - 1)
        BY <1>7, <4>1, <4>2 DEF PaidAt
      <4>4. i \in 1..Len(more) /\ i \in 1..Len(outs) + 1
        BY <2>7, <2>8
      <4>5. more[i].for = pre[j] /\ StartOf(more, i) = Spent(pre, j - 1)
        BY <2>7, <4>3, <4>4
      <4>6. QED
        BY <4>4, <4>5
    <3>3. QED
      BY <3>1, <3>2
  <2>12. QED
    BY <2>5, <2>9, <2>10, <2>11 DEF PaidTo
<1>11. QED
  BY <1>9, <1>10

\* The whole payment, whose last step is the fee.
EndsInFee(pre, fee, steps) ==
    pre \in Seq(PlanStep) /\ fee \in Int /\ steps = pre \o <<Step("fee", fee)>>

LEMMA PaysAll ==
    ASSUME NEW funds \in Int, NEW pre, NEW fee, NEW steps, EndsInFee(pre, fee, steps),
           NEW built, built = BuildOver(funds, steps), built.ok
    PROVE  /\ built.funds = funds + Gained(pre, Len(pre)) - Spent(pre, Len(pre)) - fee
           /\ built.funds >= 0 /\ built \in Building
           /\ \A j \in 1..Len(pre) : PaidAt(pre, built.outs, j)
<1>1. PICK last : last = Step("fee", fee)
  OBVIOUS
<1>2. last.kind = "fee" /\ last.n = fee /\ last \in PaidStep /\ fee \in Int
  <2>1. last = [kind |-> "fee", n |-> fee] /\ fee \in Int
    BY <1>1 DEF Step, EndsInFee
  <2>2. QED
    BY <2>1 DEF PaidStep
<1>3. PICK n : n = Len(pre)
  OBVIOUS
<1>4. /\ pre \in Seq(PlanStep) /\ steps = pre \o <<last>> /\ n \in Nat
  BY <1>1, <1>3 DEF EndsInFee
<1>5. \A p \in PlanStep : p \in PaidStep
  BY DEF PlanStep, PaidStep
<1>6. pre \in Seq(PaidStep)
  <2>1. \A j \in 1..n : pre[j] \in PaidStep
    BY <1>3, <1>4, <1>5
  <2>2. QED
    BY <1>3, <1>4, <2>1
<1>7. /\ steps \in Seq(PaidStep) /\ Len(steps) = n + 1 /\ steps[n + 1] = last
      /\ \A j \in 1..n : steps[j] = pre[j]
  BY <1>2, <1>3, <1>4, <1>6
<1>8. PICK f \in [0..n + 1 -> Building] :
        /\ f[0] = [ok |-> TRUE, funds |-> funds, outs |-> <<>>]
        /\ \A k \in 1..n + 1 : f[k] = BuildStep(f[k - 1], steps[k])
        /\ BuildOver(funds, steps) = f[n + 1]
  <2>1. \E f \in [0..Len(steps) -> Building] :
          /\ f[0] = [ok |-> TRUE, funds |-> funds, outs |-> <<>>]
          /\ \A k \in 1..Len(steps) : f[k] = BuildStep(f[k - 1], steps[k])
          /\ BuildOver(funds, steps) = f[Len(steps)]
    BY <1>7, BuildStates
  <2>2. QED
    BY <1>7, <2>1
<1> DEFINE S == {k \in 0..n : PaidTo(funds, pre, f[k], k)}
<1>9. 0 \in S
  <2>1. f[0].funds = funds /\ f[0].outs = <<>>
    BY <1>8
  <2>2. Gained(pre, 0) = 0 /\ Spent(pre, 0) = 0
    BY SumToNone DEF Gained, Spent
  <2>3. StartOf(f[0].outs, Len(f[0].outs) + 1) = 0
    <3>1. PICK g : g = [j \in 1..0 |-> f[0].outs[j].sats]
      OBVIOUS
    <3>2. SumFunction(g) = 0
      <4>1. DOMAIN g = {}
        BY <3>1
      <4>2. QED
        BY <4>1, SumOfNone
    <3>3. (Len(f[0].outs) + 1) - 1 = 0
      BY <2>1
    <3>4. QED
      BY <3>1, <3>2, <3>3 DEF StartOf
  <2>4. PaidTo(funds, pre, f[0], 0)
    BY <2>1, <2>2, <2>3 DEF PaidTo
  <2>5. QED
    BY <1>4, <2>4
<1>10. ASSUME NEW k \in 1..n, k - 1 \in S PROVE k \in S
  <2>1. PaidTo(funds, pre, f[k - 1], k - 1) /\ k - 1 \in 0..n + 1 /\ k \in 0..n /\ k \in 1..n + 1
    BY <1>4, <1>10
  <2>2. PICK s, t : s = f[k - 1] /\ t = f[k]
    OBVIOUS
  <2>3. s \in Building /\ PaidTo(funds, pre, s, k - 1) /\ t = BuildStep(s, pre[k])
    BY <1>7, <1>8, <2>1, <2>2
  <2>4. PaidTo(funds, pre, t, k)
    BY <1>3, <1>4, <2>3, PayGoesOn
  <2>5. QED
    BY <2>1, <2>2, <2>4
<1>11. n \in S
  <2> HIDE DEF S
  <2>1. \A k \in 0..n : k \in S
    BY <1>4, <1>9, <1>10, StepsReach
  <2>2. QED
    BY <1>4, <2>1
<1>12. PICK s : s = f[n]
  OBVIOUS
<1>13. PaidTo(funds, pre, s, n) /\ s \in Building /\ built = BuildStep(s, last)
  <2>1. n \in 0..n + 1 /\ n + 1 \in 1..n + 1 /\ (n + 1) - 1 = n
    BY <1>4
  <2>2. QED
    BY <1>7, <1>8, <1>11, <1>12, <2>1
<1>14. built \in Building /\ Pays(s, last, built)
  <2>1. Payable(s, last)
    BY <1>2, <1>13 DEF Payable
  <2>2. QED
    BY <1>13, <2>1, BuildStepPays
<1>15. AmountOf(last) = fee
  BY <1>2 DEF AmountOf
<1>16. /\ s.ok /\ fee <= s.funds /\ built.funds = s.funds - fee /\ built.outs = s.outs
       /\ s.funds \in Int
  <2>1. /\ s.ok /\ AmountOf(last) <= s.funds /\ built.funds = s.funds - AmountOf(last)
        /\ built.outs = s.outs
    BY <1>2, <1>14 DEF Pays
  <2>2. s.funds \in Int
    BY <1>13 DEF Building
  <2>3. QED
    BY <1>15, <2>1, <2>2
<1>17. /\ s.funds = funds + Gained(pre, n) - Spent(pre, n)
       /\ \A j \in 1..n : PaidAt(pre, s.outs, j)
  BY <1>13, <1>16 DEF PaidTo
<1>18. built.funds >= 0
  BY <1>2, <1>16
<1>19. QED
  BY <1>3, <1>14, <1>16, <1>17, <1>18

\* What is left of a coin from a place of it on.
LEMMA RestIs ==
    ASSUME NEW ranges, OfACoin(ranges), NEW info, MovedOn(info, ranges),
           NEW at \in 1..Len(ranges) + 1, Whole(info, ranges, at)
    PROVE  /\ Between(info, at, Len(ranges) + 1) =
                Before(ranges, Len(ranges)) - Position(info, ranges, at)
           /\ Before(ranges, Len(ranges)) \in Nat /\ Position(info, ranges, at) \in Int
<1>1. PICK n : n = Len(ranges)
  OBVIOUS
<1>2. n \in Nat /\ n \in 0..n /\ at \in 1..n + 1 /\ at \in Nat \ {0}
  BY <1>1 DEF OfACoin
<1>3. Before(ranges, n) \in Nat
  BY <1>1, <1>2, BeforeNat
<1>4. Position(info, ranges, at) \in Int
  BY PositionInt
<1>5. CASE at <= n
  BY <1>1, <1>2, <1>3, <1>4, <1>5, BetweenIs
<1>6. CASE ~ (at <= n)
  <2>1. at = n + 1
    BY <1>2, <1>6
  <2>2. Between(info, at, n + 1) = 0
    BY <1>2, <2>1, BetweenNothing
  <2>3. Position(info, ranges, at) = Before(ranges, n)
    BY <1>1, <1>6, PositionInt
  <2>4. QED
    BY <1>1, <1>3, <1>4, <2>2, <2>3
<1>7. QED
  BY <1>5, <1>6

\* A plan pays out what is left, and then the change of it and the fee.
PlanParts(ranges, spec, scan, placed, total, outs, plan) ==
    /\ scan = FindOrdinals(Sorted(ranges), spec.ordinals)
    /\ placed = PlaceOver([info |-> Sorted(ranges), at |-> 1, payouts |-> spec.payouts,
                           fault |-> FALSE, steps |-> Steps("payin", spec.payins)],
                          ByPlace(ToSet(scan.order)))
    /\ total = Between(placed.info, placed.at, Len(Sorted(ranges)) + 1) + Total(spec.payins)
    /\ outs = GreedyAssignOuts(total, placed.payouts)
    /\ plan = OutputPlan(ranges, spec) /\ plan.ok
PlanGoes(spec, scan, placed, total, outs, plan) ==
    /\ scan.error = NoError /\ ~placed.fault /\ ~ (total < spec.fees) /\ ~ (outs.left > 0)
    /\ plan.steps = placed.steps \o Steps("payout", outs.paid)
                      \o <<Step("change", total - spec.fees), Step("fee", spec.fees)>>

LEMMA PlanIs ==
    ASSUME NEW ranges, NEW spec, NEW scan, NEW placed, NEW total, NEW outs, NEW plan,
           PlanParts(ranges, spec, scan, placed, total, outs, plan)
    PROVE  PlanGoes(spec, scan, placed, total, outs, plan)
<1>1. PICK steps : steps = placed.steps \o Steps("payout", outs.paid)
                             \o <<Step("change", total - spec.fees), Step("fee", spec.fees)>>
  OBVIOUS
<1>2. PICK good : good = [ok |-> TRUE, steps |-> steps]
  OBVIOUS
<1>3. PICK short : short = (TotalSats(ranges) < Total(spec.payins) + spec.fees
                              + Total(spec.payouts) + Cardinality(spec.ordinals) * (Padding + 1))
  OBVIOUS
<1>4. OutputPlan(ranges, spec) =
        IF short THEN Failed("OutOfFunds")
        ELSE IF scan.error # NoError THEN Failed(scan.error)
        ELSE IF placed.fault THEN Failed("panic")
        ELSE IF total < spec.fees THEN Failed("Failed to save enough for Fees")
        ELSE IF outs.left > 0 THEN Failed("panic")
        ELSE IF outs.kept # <<>> THEN Failed("Failed to assign all payouts")
        ELSE good
  BY <1>1, <1>2, <1>3, Zenon DEF PlanParts, OutputPlan, PlaceOver, NoError
<1>5. \A e : ~ Failed(e).ok
  BY DEF Failed
<1>6. /\ scan.error = NoError /\ ~placed.fault /\ ~ (total < spec.fees) /\ ~ (outs.left > 0)
      /\ plan = good
  <2>1. plan = OutputPlan(ranges, spec) /\ plan.ok
    BY Zenon DEF PlanParts
  <2>2. QED
    BY <1>4, <1>5, <2>1, Zenon
<1>7. good.steps = steps
  BY <1>2
<1>8. QED
  BY <1>1, <1>6, <1>7, Zenon DEF PlanGoes

\* The steps of a plan up to its fee.
LastSteps(steps, paid, change) == steps \o Steps("payout", paid) \o <<Step("change", change)>>
ChangeLast(steps, paid, change, more) ==
    /\ steps \in Seq(PlanStep) /\ paid \in Seq(Nat) /\ change \in Int
    /\ more = LastSteps(steps, paid, change)

LEMMA LastStepsAre ==
    ASSUME NEW steps, NEW paid, NEW change, NEW more, ChangeLast(steps, paid, change, more)
    PROVE  /\ more \in Seq(PlanStep) /\ Len(more) >= Len(steps)
           /\ \A j \in 1..Len(steps) : more[j] = steps[j]
           /\ \A j \in 0..Len(steps) : Spent(more, j) = Spent(steps, j)
           /\ Spent(more, Len(more)) =
                Spent(steps, Len(steps)) + SumTo(paid, Len(paid)) + change
           /\ Gained(more, Len(more)) = Gained(steps, Len(steps))
           /\ \A fee : Step("fee", fee) \in PaidStep =>
                steps \o Steps("payout", paid) \o <<Step("change", change), Step("fee", fee)>>
                  = more \o <<Step("fee", fee)>>
<1>0. /\ steps \in Seq(PlanStep) /\ paid \in Seq(Nat) /\ change \in Int
      /\ more = LastSteps(steps, paid, change)
  BY DEF ChangeLast
<1>1. PICK b : b = Steps("payout", paid)
  OBVIOUS
<1>2. paid \in Seq(Int)
  BY <1>0
<1>3. /\ b \in Seq(PlanStep) /\ Len(b) = Len(paid)
      /\ Spent(b, Len(b)) = SumTo(paid, Len(paid)) /\ Gained(b, Len(b)) = 0
  BY <1>1, <1>2, StepsAre
<1>4. PICK p : p = Step("change", change)
  OBVIOUS
<1>5. p \in PlanStep /\ CostOf(p) = change /\ GainOf(p) = 0
  <2>1. p = [kind |-> "change", n |-> change] /\ p.kind = "change" /\ p.n = change
    BY <1>4 DEF Step
  <2>2. p \in PlanStep
    BY <1>0, <2>1 DEF PlanStep
  <2>3. QED
    BY <2>1, <2>2 DEF CostOf, GainOf
<1>6. PICK one : one = <<p>>
  OBVIOUS
<1>7. /\ one \in Seq(PlanStep) /\ Len(one) = 1 /\ one[1] = p
      /\ Spent(one, 0) = 0 /\ Spent(one, 1) = change /\ Gained(one, 1) = 0
  BY <1>5, <1>6, SpentOne
<1>8. PICK c : c = steps \o b
  OBVIOUS
<1>9. /\ c \in Seq(PlanStep) /\ Len(c) = Len(steps) + Len(b)
      /\ \A j \in 0..Len(steps) : Spent(c, j) = Spent(steps, j)
      /\ Spent(c, Len(c)) = Spent(steps, Len(steps)) + Spent(b, Len(b))
      /\ Gained(c, Len(c)) = Gained(steps, Len(steps)) + Gained(b, Len(b))
      /\ \A j \in 1..Len(steps) : c[j] = steps[j]
  <2>1. Continues(steps, b, c)
    BY <1>0, <1>3, <1>8 DEF Continues
  <2>2. QED
    BY <2>1, SpentConcat
<1>10. more = c \o one
  BY <1>0, <1>1, <1>4, <1>6, <1>8 DEF LastSteps
<1>11. /\ more \in Seq(PlanStep) /\ Len(more) = Len(c) + Len(one)
       /\ \A j \in 0..Len(c) : Spent(more, j) = Spent(c, j)
       /\ Spent(more, Len(more)) = Spent(c, Len(c)) + Spent(one, Len(one))
       /\ Gained(more, Len(more)) = Gained(c, Len(c)) + Gained(one, Len(one))
       /\ \A j \in 1..Len(c) : more[j] = c[j]
  <2>1. Continues(c, one, more)
    BY <1>7, <1>9, <1>10 DEF Continues
  <2>2. QED
    BY <2>1, SpentConcat
<1>12. Len(steps) \in Nat /\ Len(b) \in Nat /\ Len(c) \in Nat /\ Len(steps) <= Len(c)
  BY <1>0, <1>3, <1>9
<1>13. \A j \in 0..Len(steps) : j \in 0..Len(c)
  BY <1>12
<1>14. \A j \in 1..Len(steps) : j \in 1..Len(c)
  BY <1>12
<1>15. Spent(steps, Len(steps)) \in Int /\ Gained(steps, Len(steps)) \in Int
  BY <1>0, <1>12, SpentInt
<1>16. Spent(more, Len(more)) = Spent(steps, Len(steps)) + SumTo(paid, Len(paid)) + change
  BY <1>3, <1>7, <1>9, <1>11
<1>17. Gained(more, Len(more)) = Gained(steps, Len(steps))
  BY <1>3, <1>7, <1>9, <1>11, <1>15
<1>18. ASSUME NEW fee, Step("fee", fee) \in PaidStep
       PROVE  steps \o Steps("payout", paid) \o <<Step("change", change), Step("fee", fee)>>
                = more \o <<Step("fee", fee)>>
  <2>1. PICK q : q = Step("fee", fee)
    OBVIOUS
  <2>2. c \in Seq(PaidStep) /\ p \in PaidStep /\ q \in PaidStep
    <3>1. \A x \in PlanStep : x \in PaidStep
      BY DEF PlanStep, PaidStep
    <3>2. \A j \in 1..Len(c) : c[j] \in PaidStep
      BY <1>9, <3>1
    <3>3. QED
      BY <1>5, <1>9, <1>18, <2>1, <3>1, <3>2
  <2>3. c \o <<p, q>> = (c \o <<p>>) \o <<q>>
    BY <2>2
  <2>4. QED
    BY <1>1, <1>4, <1>6, <1>8, <1>10, <2>1, <2>3
<1>19. QED
  <2>1. Len(more) >= Len(steps)
    BY <1>7, <1>11, <1>12
  <2>2. \A j \in 1..Len(steps) : more[j] = steps[j]
    BY <1>9, <1>11, <1>14
  <2>3. \A j \in 0..Len(steps) : Spent(more, j) = Spent(steps, j)
    BY <1>9, <1>11, <1>13
  <2>4. QED
    BY <1>11, <1>16, <1>17, <1>18, <2>1, <2>2, <2>3, Zenon

\* The specs a plan is made for.
IsSpec(spec) ==
    /\ spec.payouts \in Seq(Nat) /\ spec.payins \in Seq(Nat) /\ spec.fees \in Nat
    /\ spec.ordinals \in SUBSET Nat /\ IsFiniteSet(spec.ordinals)

Planned(ranges, spec, plan) ==
    /\ OfACoin(ranges) /\ InOrder(ranges) /\ IsSpec(spec)
    /\ plan = OutputPlan(ranges, spec) /\ plan.ok

\* What a plan's steps are, how much too much they spend, and where the
\* ordinals are among them.
StepsFor(ranges, spec, pre, gain, x, total, slack) ==
    /\ pre \in Seq(PlanStep) /\ gain \in Int /\ x \in Int /\ total \in Nat
    /\ Gained(pre, Len(pre)) = gain
    /\ Spent(pre, Len(pre)) = x + total + (total - spec.fees)
    /\ spec.fees <= total
    /\ total = Before(ranges, Len(ranges)) + gain - (x - slack)
    /\ slack \in Nat /\ Before(ranges, Len(ranges)) \in Nat
    /\ \A ord \in spec.ordinals :
         \E found \in Meant(ranges, spec.ordinals) :
           /\ found.ord = ord
           /\ \E i \in 1..Len(pre) : StepAt(ranges, pre, i, found, slack)

LEMMA PlanSteps ==
    ASSUME NEW ranges, NEW spec, NEW plan, Planned(ranges, spec, plan)
    PROVE  \E pre, gain, x, total, slack :
             /\ StepsFor(ranges, spec, pre, gain, x, total, slack)
             /\ EndsInFee(pre, spec.fees, plan.steps)
<1>1. /\ OfACoin(ranges) /\ InOrder(ranges) /\ plan = OutputPlan(ranges, spec) /\ plan.ok
  BY DEF Planned
<1>2. /\ spec.payouts \in Seq(Nat) /\ spec.payins \in Seq(Nat) /\ spec.fees \in Nat
      /\ spec.ordinals \in SUBSET Nat /\ IsFiniteSet(spec.ordinals)
  BY DEF Planned, IsSpec
<1>3. PICK info : info = [i \in 1..Len(ranges) |-> RowAt(ranges, i)]
  OBVIOUS
<1>4. PICK n : n = Len(ranges)
  OBVIOUS
<1>5. n \in Nat
  BY <1>1, <1>4 DEF OfACoin
<1>6. Sorted(ranges) = info /\ Len(info) = n
  <2>1. Sorted(ranges) = info
    BY <1>1, <1>3, SortedIsSame
  <2>2. info \in [1..n -> Row]
    BY <1>1, <1>3, <1>4, NothingTaken
  <2>3. Len(info) = n
    BY <1>5, <2>2, LenOf
  <2>4. QED
    BY <2>1, <2>3
<1>7. PICK scan : scan = FindOrdinals(info, spec.ordinals)
  OBVIOUS
<1>8. PICK list : list = ByPlace(ToSet(scan.order))
  OBVIOUS
<1>9. PICK start : start = [info |-> info, at |-> 1, payouts |-> spec.payouts,
                            fault |-> FALSE, steps |-> Steps("payin", spec.payins)]
  OBVIOUS
<1>10. PICK placed : placed = PlaceOver(start, list)
  OBVIOUS
<1>11. PICK total : total = Between(placed.info, placed.at, n + 1) + Total(spec.payins)
  OBVIOUS
<1>12. PICK outs : outs = GreedyAssignOuts(total, placed.payouts)
  OBVIOUS
<1>13. PlanParts(ranges, spec, scan, placed, total, outs, plan)
  BY <1>1, <1>6, <1>7, <1>8, <1>9, <1>10, <1>11, <1>12, Zenon DEF PlanParts
<1>14. /\ scan.error = NoError /\ ~placed.fault /\ ~ (total < spec.fees) /\ ~ (outs.left > 0)
       /\ plan.steps = placed.steps \o Steps("payout", outs.paid)
                         \o <<Step("change", total - spec.fees), Step("fee", spec.fees)>>
  <2>1. PlanGoes(spec, scan, placed, total, outs, plan)
    BY <1>13, PlanIs, Zenon
  <2>2. QED
    BY <2>1, Zenon DEF PlanGoes
<1>15. FindsAll(ranges, spec.ordinals, list)
  <2>1. FindsAll(ranges, spec.ordinals, scan.order)
    <3>1. PICK ordinals : ordinals = spec.ordinals
      OBVIOUS
    <3>2. FindsAll(ranges, ordinals, scan.order)
      BY <1>1, <1>2, <1>3, <1>7, <1>14, <3>1, ScanFinds
    <3>3. QED
      BY <3>1, <3>2
  <2>2. QED
    BY <1>8, <2>1, ByPlaceAll
<1>16. PICK gain : gain = SumTo(spec.payins, Len(spec.payins))
  OBVIOUS
<1>17. gain \in Int /\ Total(spec.payins) = gain
  <2>1. spec.payins \in Seq(Int) /\ Len(spec.payins) \in 0..Len(spec.payins)
    BY <1>2
  <2>2. QED
    BY <1>16, <2>1, SumToInt, TotalIs
<1>18. /\ placed \in Placing(n)
       /\ PlacedTo(ranges, gain, list, placed, Len(list))
       /\ list \in Seq(Meant(ranges, spec.ordinals))
  <2>1. StartsAt(ranges, spec.payouts, spec.payins, start)
    BY <1>3, <1>9, Zenon DEF StartsAt
  <2>2. PICK payouts, payins : payouts = spec.payouts /\ payins = spec.payins
    OBVIOUS
  <2>3. start \in Placing(n) /\ PlacedTo(ranges, gain, list, start, 0)
    <3>1. StartsAt(ranges, payouts, payins, start)
      BY <2>1, <2>2
    <3>2. payouts \in Seq(Nat) /\ payins \in Seq(Nat)
      BY <1>2, <2>2
    <3>3. PlacedTo(ranges, SumTo(payins, Len(payins)), list, start, 0) /\ start \in Placing(n)
      BY <1>1, <1>4, <3>1, <3>2, StartIsPlaced
    <3>4. QED
      BY <1>16, <2>2, <3>3
  <2>4. list \in Seq(Meant(ranges, spec.ordinals))
    BY <1>15 DEF FindsAll
  <2>5. AllPlaced(ranges, spec.ordinals, gain, list, start)
    BY <1>1, <1>4, <2>3, <2>4 DEF AllPlaced
  <2>6. QED
    BY <1>4, <1>10, <2>4, <2>5, PlacesAll
<1>19. /\ MovedOn(placed.info, ranges) /\ Whole(placed.info, ranges, placed.at)
       /\ placed.at \in 1..n + 1
       /\ Gained(placed.steps, Len(placed.steps)) = gain
       /\ Slack(ranges, placed) >= 0
       /\ \A j \in 1..Len(list) : \E i \in 1..Len(placed.steps) :
            StepAt(ranges, placed.steps, i, list[j], Slack(ranges, placed))
  BY <1>4, <1>14, <1>18 DEF PlacedTo
<1>20. placed.steps \in Seq(PlanStep) /\ placed.payouts \in Seq(Nat)
  BY <1>18 DEF Placing
<1>21. PICK here, whole : /\ here = Position(placed.info, ranges, placed.at)
                          /\ whole = Before(ranges, n)
  OBVIOUS
<1>22. Between(placed.info, placed.at, n + 1) = whole - here /\ whole \in Nat /\ here \in Int
  BY <1>1, <1>4, <1>19, <1>21, RestIs
<1>23. PICK steps, x, slack : /\ steps = placed.steps /\ x = Spent(placed.steps, Len(placed.steps))
                              /\ slack = Slack(ranges, placed)
  OBVIOUS
<1>24. x \in Int /\ slack = x - here /\ slack \in Nat
  <2>1. Len(steps) \in 0..Len(steps) /\ steps \in Seq(PlanStep)
    BY <1>20, <1>23
  <2>2. x \in Int
    BY <1>23, <2>1, SpentInt
  <2>3. slack = x - here
    BY <1>21, <1>23 DEF Slack
  <2>4. slack >= 0
    BY <1>19, <1>23
  <2>5. QED
    BY <1>22, <2>2, <2>3, <2>4
<1>25. PICK fees : fees = spec.fees
  OBVIOUS
<1>26. total = whole - here + gain /\ total \in Nat /\ fees <= total /\ fees \in Nat
  <2>1. total = whole - here + gain
    BY <1>11, <1>17, <1>22
  <2>2. total \in Int
    BY <1>17, <1>22, <2>1
  <2>3. QED
    BY <1>2, <1>14, <1>25, <2>1, <2>2
<1>27. outs.paid \in Seq(Nat) /\ SumTo(outs.paid, Len(outs.paid)) = total
  <2>1. PICK payouts : payouts = placed.payouts
    OBVIOUS
  <2>2. /\ outs \in Assigning
        /\ total >= 0 => /\ outs.left >= 0
                         /\ SumTo(outs.paid, Len(outs.paid)) = total - outs.left
    <3>1. outs = GreedyAssignOuts(total, payouts) /\ payouts \in Seq(Nat) /\ total \in Int
      BY <1>12, <1>20, <1>26, <2>1
    <3>2. QED
      BY <3>1, GreedyAssigns
  <2>3. outs.left \in Int /\ outs.paid \in Seq(Nat)
    BY <2>2 DEF Assigning
  <2>4. QED
    BY <1>14, <1>26, <2>2, <2>3
<1>28. PICK paid, change : paid = outs.paid /\ change = total - fees
  OBVIOUS
<1>29. PICK pre : pre = LastSteps(steps, paid, change)
  OBVIOUS
<1>30. Step("fee", fees) \in PaidStep
  <2>1. PICK q : q = Step("fee", fees)
    OBVIOUS
  <2>2. q = [kind |-> "fee", n |-> fees]
    BY <2>1 DEF Step
  <2>3. q \in PaidStep
    BY <1>26, <2>2 DEF PaidStep
  <2>4. QED
    BY <2>1, <2>3
<1>31. /\ pre \in Seq(PlanStep) /\ Len(pre) >= Len(steps)
       /\ \A j \in 1..Len(steps) : pre[j] = steps[j]
       /\ \A j \in 0..Len(steps) : Spent(pre, j) = Spent(steps, j)
       /\ Spent(pre, Len(pre)) = Spent(steps, Len(steps)) + SumTo(paid, Len(paid)) + change
       /\ Gained(pre, Len(pre)) = Gained(steps, Len(steps))
       /\ steps \o Steps("payout", paid) \o <<Step("change", change), Step("fee", fees)>>
            = pre \o <<Step("fee", fees)>>
  <2>1. ChangeLast(steps, paid, change, pre)
    BY <1>20, <1>23, <1>26, <1>27, <1>28, <1>29 DEF ChangeLast
  <2>2. QED
    BY <1>30, <2>1, LastStepsAre
<1>32. EndsInFee(pre, fees, plan.steps)
  <2>1. plan.steps = pre \o <<Step("fee", fees)>>
    BY <1>14, <1>23, <1>25, <1>28, <1>31
  <2>2. QED
    BY <1>26, <1>31, <2>1 DEF EndsInFee
<1>33. ASSUME NEW ord \in spec.ordinals
       PROVE  \E found \in Meant(ranges, spec.ordinals) :
                /\ found.ord = ord
                /\ \E i \in 1..Len(pre) : StepAt(ranges, pre, i, found, slack)
  <2>1. PICK e \in 1..Len(list) : list[e].ord = ord
    BY <1>15 DEF FindsAll
  <2>2. PICK found : found = list[e]
    OBVIOUS
  <2>3. found \in Meant(ranges, spec.ordinals) /\ found.ord = ord
    BY <1>18, <2>1, <2>2
  <2>4. PICK i \in 1..Len(steps) : StepAt(ranges, steps, i, found, slack)
    BY <1>19, <1>23, <2>2
  <2>5. i \in 1..Len(pre) /\ i - 1 \in 0..Len(steps)
    <3>1. Len(steps) \in Nat /\ Len(pre) \in Nat
      BY <1>20, <1>23, <1>31
    <3>2. QED
      BY <1>31, <3>1
  <2>6. StepAt(ranges, pre, i, found, slack)
    BY <1>31, <2>4, <2>5 DEF StepAt
  <2>7. QED
    BY <2>3, <2>5, <2>6
<1>34. StepsFor(ranges, spec, pre, gain, x, total, slack)
  <2>1. Gained(pre, Len(pre)) = gain
    BY <1>19, <1>23, <1>31
  <2>2. Spent(pre, Len(pre)) = x + total + (total - spec.fees)
    BY <1>23, <1>25, <1>27, <1>28, <1>31
  <2>3. total = Before(ranges, Len(ranges)) + gain - (x - slack)
    <3>1. here = x - slack
      BY <1>22, <1>24
    <3>2. whole = Before(ranges, Len(ranges))
      BY <1>4, <1>21
    <3>3. total = whole + gain - (x - slack)
      BY <1>17, <1>22, <1>26, <3>1
    <3>4. QED
      BY <3>2, <3>3
  <2>4. Before(ranges, Len(ranges)) \in Nat
    BY <1>4, <1>21, <1>22
  <2>5. QED
    BY <1>17, <1>24, <1>25, <1>26, <1>31, <1>33, <2>1, <2>2, <2>3, <2>4, Zenon DEF StepsFor
<1>35. QED
  BY <1>25, <1>32, <1>34

\* All that can be paid is: nothing was spent too much, nothing is left, and
\* each ordinal begins an output of its own.
LEMMA PlanDelivers ==
    ASSUME NEW ranges, NEW spec, NEW plan, Planned(ranges, spec, plan),
           NEW built, built = BuildPlan(TotalSats(ranges), plan), built.ok
    PROVE  /\ \A ord \in spec.ordinals :
                \E i \in DOMAIN built.outs :
                  /\ built.outs[i].for = Step("ordinal", ord)
                  /\ StartOf(built.outs, i) = OffsetOf(ranges, ord)
           /\ built.funds = 0
<1>1. /\ OfACoin(ranges) /\ spec.fees \in Nat /\ spec.ordinals \in SUBSET Nat
  BY DEF Planned, IsSpec
<1>2. PICK pre, gain, x, total, slack :
        /\ StepsFor(ranges, spec, pre, gain, x, total, slack)
        /\ EndsInFee(pre, spec.fees, plan.steps)
  BY PlanSteps
<1>3. PICK funds, steps, fees, spent, gained :
        /\ funds = TotalSats(ranges) /\ steps = plan.steps /\ fees = spec.fees
        /\ spent = Spent(pre, Len(pre)) /\ gained = Gained(pre, Len(pre))
  OBVIOUS
<1>4. built = BuildOver(funds, steps) /\ EndsInFee(pre, fees, steps)
  <2>1. BuildPlan(TotalSats(ranges), plan) = BuildOver(TotalSats(ranges), plan.steps)
    BY BuildIsOver
  <2>2. QED
    BY <1>2, <1>3, <2>1
<1>5. funds = Before(ranges, Len(ranges)) /\ funds \in Nat
  BY <1>1, <1>3, TotalSatsIs
<1>6. /\ built.funds = funds + gained - spent - fees
      /\ built.funds >= 0 /\ built \in Building
      /\ \A j \in 1..Len(pre) : PaidAt(pre, built.outs, j)
  <2>1. funds \in Int
    BY <1>5
  <2>2. /\ built.funds = funds + Gained(pre, Len(pre)) - Spent(pre, Len(pre)) - fees
        /\ built.funds >= 0 /\ built \in Building
        /\ \A j \in 1..Len(pre) : PaidAt(pre, built.outs, j)
    BY <1>4, <2>1, PaysAll
  <2>3. QED
    BY <1>3, <2>2
<1>7. /\ pre \in Seq(PlanStep) /\ gain \in Int /\ x \in Int /\ total \in Nat /\ slack \in Nat
      /\ gained = gain /\ spent = x + total + (total - fees) /\ fees <= total
      /\ total = funds + gain - (x - slack)
      /\ \A ord \in spec.ordinals :
           \E found \in Meant(ranges, spec.ordinals) :
             /\ found.ord = ord
             /\ \E i \in 1..Len(pre) : StepAt(ranges, pre, i, found, slack)
  BY <1>2, <1>3, <1>5 DEF StepsFor
<1>8. slack = 0 /\ built.funds = 0
  <2>1. PICK rest : rest = built.funds
    OBVIOUS
  <2>2. rest = funds + gained - spent - fees /\ rest >= 0
    BY <1>6, <2>1
  <2>3. rest = 0 - slack - total
    <3>1. fees \in Nat
      BY <1>1, <1>3
    <3>2. /\ gain \in Int /\ x \in Int /\ total \in Nat /\ slack \in Nat
          /\ gained = gain /\ spent = x + total + (total - fees)
          /\ total = funds + gain - (x - slack)
      BY <1>7
    <3>3. rest = funds + gain - (x + total + (total - fees)) - fees
      BY <2>2, <3>2
    <3>4. total = funds + gain - (x - slack) =>
            funds + gain - (x + total + (total - fees)) - fees = 0 - slack - total
      <4>1. \A f, g, y, t, l, e \in Int :
              t = f + g - (y - l) => f + g - (y + t + (t - e)) - e = 0 - l - t
        OBVIOUS
      <4>2. /\ funds \in Int /\ gain \in Int /\ x \in Int /\ total \in Int
            /\ slack \in Int /\ fees \in Int
        BY <1>5, <3>1, <3>2
      <4>3. QED
        BY <4>1, <4>2
    <3>5. QED
      BY <3>2, <3>3, <3>4, Zenon
  <2>4. QED
    BY <1>7, <2>1, <2>2, <2>3
<1>9. ASSUME NEW ord \in spec.ordinals
      PROVE  \E i \in DOMAIN built.outs :
               /\ built.outs[i].for = Step("ordinal", ord)
               /\ StartOf(built.outs, i) = OffsetOf(ranges, ord)
  <2>1. PICK found \in Meant(ranges, spec.ordinals) :
          /\ found.ord = ord
          /\ \E i \in 1..Len(pre) : StepAt(ranges, pre, i, found, slack)
    BY <1>7
  <2>2. PICK i \in 1..Len(pre) : StepAt(ranges, pre, i, found, slack)
    BY <2>1
  <2>3. PICK idx, place : idx = found.idx /\ place = PlaceOf(ranges, found)
    OBVIOUS
  <2>4. ord \in Nat /\ idx \in 1..Len(ranges) /\ Holds(ranges[idx], ord)
    BY <1>1, <2>1, <2>3 DEF Meant
  <2>5. place \in Int
    <3>1. found.idx \in 1..Len(ranges) /\ found.ord \in Nat
      BY <2>1, <2>3, <2>4
    <3>2. QED
      BY <1>1, <2>3, <3>1, PlaceOfInt
  <2>6. pre[i] = Step("ordinal", ord) /\ Spent(pre, i - 1) = place
    <3>1. /\ pre[i] = Step("ordinal", ord) /\ place <= Spent(pre, i - 1)
          /\ Spent(pre, i - 1) <= place + slack
      BY <2>1, <2>2, <2>3 DEF StepAt
    <3>2. Spent(pre, i - 1) \in Int
      <4>1. i - 1 \in 0..Len(pre)
        BY <1>7
      <4>2. QED
        BY <1>7, <4>1, SpentInt
    <3>3. QED
      BY <1>8, <2>5, <3>1, <3>2
  <2>7. pre[i].kind # "payin"
    <3>1. PICK p : p = Step("ordinal", ord)
      OBVIOUS
    <3>2. p.kind = "ordinal"
      BY <3>1 DEF Step
    <3>3. QED
      BY <2>6, <3>1, <3>2
  <2>8. PICK o \in 1..Len(built.outs) :
          built.outs[o].for = pre[i] /\ StartOf(built.outs, o) = Spent(pre, i - 1)
    BY <1>6, <2>7 DEF PaidAt
  <2>9. o \in DOMAIN built.outs
    <3>1. built.outs \in Seq(Output)
      BY <1>6 DEF Building
    <3>2. QED
      BY <2>8, <3>1
  <2>10. OffsetOf(ranges, ord) = place
    <3>1. Before(ranges, idx - 1) \in Nat
      <4>1. Len(ranges) \in Nat
        BY <1>1 DEF OfACoin
      <4>2. idx - 1 \in 0..Len(ranges)
        BY <2>4, <4>1
      <4>3. QED
        BY <1>1, <4>2, BeforeNat
    <3>2. ranges[idx][1] \in Nat
      BY <1>1, <2>4 DEF OfACoin
    <3>3. place = Before(ranges, idx - 1) + ord - ranges[idx][1]
      BY <2>1, <2>3, <2>4, <3>1, <3>2 DEF PlaceOf
    <3>4. AtIndex(ranges, ord, idx, place)
      BY <2>4, <3>1, <3>3 DEF AtIndex
    <3>5. QED
      BY <1>1, <2>4, <3>4, OffsetIsIndex
  <2>11. QED
    BY <2>6, <2>8, <2>9, <2>10
<1>10. QED
  BY <1>8, <1>9

LEMMA ComputedPlansDeliver == AnswersComputed => PlannedOrdinalsFirst
<1> SUFFICES ASSUME AnswersComputed, Answered("plan"), answer.value.ok, InOrder(task.ranges)
             PROVE  PlannedOrdinalsFirst
  BY DEF PlannedOrdinalsFirst
<1>1. PICK ranges, spec, built : ranges = task.ranges /\ spec = task.spec /\ built = answer.value
  OBVIOUS
<1>2. task \in Tasks /\ task.kind = "plan" /\ built = PlanAnswer(ranges, spec)
  BY <1>1 DEF AnswersComputed, Answered
<1>3. OfACoin(ranges) /\ IsSpec(spec)
  BY <1>1, <1>2, TaskAssumption DEF IsSpec
<1>4. PICK plan : plan = OutputPlan(ranges, spec)
  OBVIOUS
<1>5. built = IF plan.ok THEN BuildPlan(TotalSats(ranges), plan) ELSE plan
  BY <1>2, <1>4, Zenon DEF PlanAnswer
<1>6. plan.ok /\ built = BuildPlan(TotalSats(ranges), plan) /\ built.ok
  BY <1>1, <1>5, Zenon
<1>7. Planned(ranges, spec, plan)
  BY <1>1, <1>3, <1>4, <1>6, Zenon DEF Planned
<1>8. /\ \A ord \in spec.ordinals :
           \E i \in DOMAIN built.outs :
             /\ built.outs[i].for = Step("ordinal", ord)
             /\ StartOf(built.outs, i) = OffsetOf(ranges, ord)
      /\ built.funds = 0
  BY <1>6, <1>7, PlanDelivers
<1>9. QED
  BY <1>1, <1>8, Zenon DEF PlannedOrdinalsFirst

(***************************************************************************)
(* Every ordinal of a plan that can be paid begins an output of its own,   *)
(* with nothing left over, and every ordinal sold is in the buyer's        *)
(* output: output_plan and build_plan may count sats twice, but then the   *)
(* funds do not pay for the plan, and the sale is one sat off inside the   *)
(* padding.                                                                *)
(***************************************************************************)
THEOREM OrdinalsReachTheirOutputHolds == Spec => []OrdinalsReachTheirOutput
<1>1. AnswersComputed => OrdinalsReachTheirOutput
  BY ComputedPlansDeliver, ComputedSalesDeliver DEF OrdinalsReachTheirOutput
<1>2. QED
  BY <1>1, InitComputed, AnswersComputedInductive, PTL DEF Spec
=============================================================================
