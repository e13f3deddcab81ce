---------------------------- MODULE Calculations ----------------------------
(***************************************************************************)
(* The parts of sapio that compute an answer from their arguments, put     *)
(* together: locks, the locks of a swap, ordinals, paths, configurations   *)
(* and the signing of a psbt by several holders.  A task is one set of     *)
(* arguments; every task but signing is answered in one step.              *)
(***************************************************************************)
EXTENDS Timelocks, OrdinalsPlanner, EffectPaths, NetworkConfig, PsbtSigning

CONSTANTS Tasks,          \* records with a field `kind' and the arguments
          Holders,        \* those who sign
          KeysOf          \* the sequence of extended keys each holds

\* A lock is asked for with a u16, a u32 or a number of seconds; a swap lists
\* locks of any types, whose numbers are u32s.
AnyLock == [ok : {TRUE}, rel : BOOLEAN, time : BOOLEAN, n : 0..U32Max]

\* A sat has a number of its own, so the ranges of a coin share none.
OfACoin(ranges) ==
    /\ ranges \in Seq(Nat \X Nat)
    /\ \A i \in DOMAIN ranges : ranges[i][1] <= ranges[i][2]
    /\ \A i, j \in DOMAIN ranges :
         i # j => ranges[i][2] <= ranges[j][1] \/ ranges[j][2] <= ranges[i][1]

ASSUME TaskAssumption == \A t \in Tasks :
    /\ t.kind = "lock" =>
         /\ t.n \in Nat
         /\ t.from \in {"height from now", "units from now"} => t.n <= U16Max
         /\ t.from \in {"height", "time"} => t.n <= U32Max
         /\ t.from \in {"height from now", "units from now", "seconds from now",
                        "height", "time", "seconds"}
    /\ t.kind = "swap" => t.locks \subseteq AnyLock
    /\ t.kind = "split" => t.ranges \in Seq(Nat \X Nat) /\ t.amounts \in Seq(Nat)
    /\ t.kind \in {"plan", "sell"} => OfACoin(t.ranges)
    /\ t.kind = "plan" =>
         /\ t.spec.payouts \in Seq(Nat) /\ t.spec.payins \in Seq(Nat) /\ t.spec.fees \in Nat
         /\ t.spec.ordinals \in SUBSET Nat /\ IsFiniteSet(t.spec.ordinals)
    /\ t.kind = "sell" => t.ord \in Nat
    /\ t.kind = "path" => t.fragments \in Seq(PathFragment) \ {<<>>}
    /\ t.kind = "text" => t.text \in Seq(STRING)
    /\ t.kind = "config" => t.file \in [Networks -> Entries]
    /\ t.kind = "emulators" => t.n \in Nat /\ t.threshold \in Nat

\* The public keys an extended key leads to, and those a set of holders has.
PublicKeys(key) == {key.own} \cup {key.child[p] : p \in DOMAIN key.child}
PublicOf(holders) ==
    UNION {UNION {PublicKeys(KeysOf[h][i]) : i \in DOMAIN KeysOf[h]} : h \in holders}

\* The psbt tells where a key comes from: a holder of it, whoever it is, has
\* the extended key of that fingerprint and derives it by that path.
OriginTold(input, key, h) ==
    /\ key \in DOMAIN input.origins
    /\ LET from == input.origins[key]
       IN  \E i \in WithPrint(KeysOf[h], from.print) :
             Derives(KeysOf[h][i], from.path) /\ KeysOf[h][i].child[from.path] = key

\* An input nobody has signed, with the origins of the keys it needs.
ToBeSigned(input) ==
    /\ input = [utxo |-> input.utxo, internal |-> input.internal,
                origins |-> input.origins, needs |-> input.needs, sigs |-> {}]
    /\ KeyPath \notin DOMAIN input.needs
    /\ \A h \in Holders :
         /\ input.internal \in PublicOf({h}) =>
              \/ OriginTold(input, input.internal, h)
              \/ \E i \in DOMAIN KeysOf[h] : KeysOf[h][i].own = input.internal
         /\ \A leaf \in DOMAIN input.needs :
              \A key \in input.needs[leaf] \cap PublicOf({h}) :
                OriginTold(input, key, h) /\ leaf \in input.origins[key].leaves

\* Extended keys with the same fingerprint are the same, an x-only key is
\* never absent, and those who sign start from an unsigned psbt.
ASSUME SigningAssumption ==
    /\ \A h \in Holders :
         /\ DOMAIN KeysOf[h] \subseteq Nat
         /\ \A i, j \in DOMAIN KeysOf[h] :
              KeysOf[h][i].print = KeysOf[h][j].print => KeysOf[h][i] = KeysOf[h][j]
    /\ NoKey \notin PublicOf(Holders)
    /\ \A t \in Tasks : t.kind = "sign" => \A i \in DOMAIN t.psbt : ToBeSigned(t.psbt[i])

VARIABLES task, answer
vars == <<task, answer>>

Unanswered == [done |-> FALSE]
Is(kind) == task.kind = kind /\ answer = Unanswered
Answer(value) == answer' = [done |-> TRUE, value |-> value] /\ UNCHANGED task

Init ==
    /\ task \in Tasks
    /\ answer = IF task.kind = "sign" THEN [psbt |-> task.psbt, signed |-> {}]
                ELSE Unanswered

ConvertLock == Is("lock") /\ Answer(Converted(task.from, task.n))

ValidateSwap == Is("swap") /\ Answer(Variant(task.locks))

AllocateOrdinals ==
    /\ Is("split")
    /\ Total(task.amounts) <= TotalSats(task.ranges)
    /\ Answer(ToldToOutputs(task.amounts, task.ranges))

PlanOrdinals ==
    /\ Is("plan")
    /\ LET plan == OutputPlan(task.ranges, task.spec)
       IN  Answer(IF plan.ok THEN BuildPlan(TotalSats(task.ranges), plan) ELSE plan)

SellOrdinal ==
    /\ Is("sell")
    /\ Answer(Sell(TotalSats(task.ranges), task.ranges, task.ord, task.sale))

ReadPath == Is("path") /\ Answer(ParsePath(PathText(ReversePathOf(task.fragments))))

ReadText == Is("text") /\ Answer(ParsePath(task.text))

LoadConfig == Is("config") /\ Answer(Load(task.file))

ConnectEmulators == Is("emulators") /\ Answer(GetEmulator(task.n, task.threshold))

\* The `signer sign' command of one holder.
Sign(h) ==
    /\ task.kind = "sign"
    /\ LET signed == SignPsbt(answer.psbt, KeysOf[h])
       IN  /\ signed.ok
           /\ answer' = [psbt |-> signed.psbt, signed |-> answer.signed \cup {h}]
    /\ UNCHANGED task

Next ==
    \/ ConvertLock
    \/ ValidateSwap
    \/ AllocateOrdinals
    \/ PlanOrdinals
    \/ SellOrdinal
    \/ ReadPath
    \/ ReadText
    \/ LoadConfig
    \/ ConnectEmulators
    \/ \E h \in Holders : Sign(h)

Spec == Init /\ [][Next]_vars

Answered(kind) == task.kind = kind /\ answer # Unanswered

\* What nodes make of the lock a task asked for, in the task's own terms.
AskedUnit(kind) == IF kind \in {"height from now", "height"} THEN "height" ELSE "time"
AskedFrom(kind) ==
    IF kind \in {"height from now", "units from now", "seconds from now"}
    THEN "now" ELSE "zero"

(***************************************************************************)
(* A lock made by any conversion is read by nodes as the kind that was     *)
(* asked for (a height is never read as a time, nor the other way round)   *)
(* and with the number asked for; a duration loses less than one granule.  *)
(* A swap whose list of locks is accepted waits for every lock listed:     *)
(* what it sets is of the kind of each of them and no earlier.             *)
(***************************************************************************)
MeansAsked(read, kind, n) ==
    /\ read.from = AskedFrom(kind)
    /\ read.unit = AskedUnit(kind)
    /\ IF kind = "seconds from now"
       THEN read.n * Granule <= n /\ n < (read.n + 1) * Granule
       ELSE read.n = n

LockReadAsAsked ==
    Answered("lock") /\ answer.value.ok =>
      MeansAsked(ReadByNodes(ClauseOf(answer.value)), task.from, task.n)

WaitsFor(variant, l) ==
    LET set == IF l.rel THEN GetRelative(variant) ELSE GetAbs(variant)
    IN  set.rel = l.rel /\ set.time = l.time /\ set.n >= l.n

SwapWaitsForAll ==
    Answered("swap") /\ answer.value.ok =>
      \A l \in task.locks : WaitsFor(answer.value, l)

LocksReadAsAsked == LockReadAsAsked /\ SwapWaitsForAll

\* The sats of some ranges, the place of one among the sats of a coin, and
\* where an output of a transaction begins.
SatsOf(ranges) == UNION {ranges[i][1] .. ranges[i][2] - 1 : i \in DOMAIN ranges}
OffsetOf(ranges, ord) ==
    LET i == CHOOSE j \in DOMAIN ranges : ranges[j][1] <= ord /\ ord < ranges[j][2]
    IN  SumFunction([j \in 1 .. i - 1 |-> Width(ranges[j])]) + ord - ranges[i][1]
StartOf(outs, i) == SumFunction([j \in 1 .. i - 1 |-> outs[j].sats])

(***************************************************************************)
(* Sats move first in, first out.  The planner counts some sats twice and  *)
(* the sale is off by one, but a transaction that can be built at all puts *)
(* every ordinal into the output meant for it: a plan at its very start, a *)
(* sale somewhere inside.  For a plan the ranges must be listed in the     *)
(* order of their numbers, since the planner mixes the places of ranges in *)
(* the coin with their places in a sorted list.                            *)
(***************************************************************************)
InOrder(ranges) == \A i, j \in DOMAIN ranges : i < j => ranges[i][2] <= ranges[j][1]

PlannedOrdinalsFirst ==
    Answered("plan") /\ answer.value.ok /\ InOrder(task.ranges) =>
      /\ \A ord \in task.spec.ordinals :
           \E i \in DOMAIN answer.value.outs :
             /\ answer.value.outs[i].for = Step("ordinal", ord)
             /\ StartOf(answer.value.outs, i) = OffsetOf(task.ranges, ord)
      /\ answer.value.funds = 0

SoldOrdinalReachesBuyer ==
    Answered("sell") /\ answer.value.ok =>
      LET outs == answer.value.outs
      IN  \E i \in DOMAIN outs :
            /\ outs[i].to = "buyer"
            /\ OffsetOf(task.ranges, task.ord) \in
                 StartOf(outs, i) .. StartOf(outs, i) + outs[i].sats - 1

OrdinalsReachTheirOutput == PlannedOrdinalsFirst /\ SoldOrdinalReachesBuyer

(***************************************************************************)
(* What the outputs' contexts are told of the ordinals: no sat of the coin *)
(* is told to two of them, and each is told to one or kept for later, over *)
(* any number of outputs.  That an output is told of the very sats that    *)
(* reach it is not claimed: the code splits a range at its own end instead *)
(* of at the amount (context.rs:45-53), so the first output is told of the *)
(* whole coin.                                                             *)
(***************************************************************************)
OrdinalsToldOnce ==
    Answered("split") =>
      LET told == answer.value.told
          parts == Append(told, answer.value.rest)
      IN  /\ UNION {SatsOf(parts[i]) : i \in DOMAIN parts} = SatsOf(task.ranges)
          /\ \A i, j \in DOMAIN parts :
               i # j => SatsOf(parts[i]) \cap SatsOf(parts[j]) = {}

(***************************************************************************)
(* The path of a continuation, written into a contract's JSON and read     *)
(* back, is the same path, so an effect reaches the point it was made for; *)
(* and a configuration that loads belongs to the one active network, and   *)
(* is the same when it is saved and loaded again.                          *)
(***************************************************************************)
WrittenIsReadBack ==
    /\ Answered("path") =>
         answer.value = [is |-> "path", path |-> ReversePathOf(task.fragments)]
    /\ Answered("text") /\ answer.value # Bad =>
         ParsePath(PathText(answer.value.path)) = answer.value
    /\ Answered("config") /\ answer.value.ok =>
         /\ {n \in Networks : task.file[n] = "active"} = {answer.value.network}
         /\ Load(Save(answer.value)) = answer.value

(***************************************************************************)
(* Holders sign one after another, in any order and as often as they like. *)
(* A psbt finalizes only if those who have signed hold the keys that each  *)
(* of its inputs needs, and it does as soon as they hold them: no          *)
(* signature is lost or spoilt by a later one.  The second half is said of *)
(* psbts whose other inputs need no key, since get_sig hashes for input 0  *)
(* (lib.rs:281) whichever input sign_psbt_mut has come to (lib.rs:73-76).  *)
(* Oracles that are configured can meet the threshold they are asked for.  *)
(***************************************************************************)
Covered(input, keys) ==
    \/ input.internal \in keys
    \/ \E leaf \in DOMAIN input.needs : input.needs[leaf] \subseteq keys

AllCovered(psbt, keys) == \A i \in DOMAIN psbt : psbt[i].utxo /\ Covered(psbt[i], keys)
OnlyFirstNeedsKeys(psbt) == \A i \in DOMAIN psbt \ {1} : Covered(psbt[i], {})

FinalizesWithTheirKeys ==
    task.kind = "sign" =>
      LET completed == FinalizePsbt(answer.psbt).completed
          covered == AllCovered(task.psbt, PublicOf(answer.signed))
      IN  /\ completed => covered
          /\ covered /\ OnlyFirstNeedsKeys(task.psbt) => completed

OraclesMeetThreshold ==
    Answered("emulators") /\ answer.value.ok => answer.value.needs <= task.n

SigningCompletes == FinalizesWithTheirKeys /\ OraclesMeetThreshold
=============================================================================
