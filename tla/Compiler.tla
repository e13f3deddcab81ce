------------------------------ MODULE Compiler ------------------------------
(***************************************************************************)
(* sapio/src/contract/compiler: the compilation of one contract instance   *)
(* (mod.rs, cache.rs, util.rs), with conditional_compile.rs and            *)
(* amountrange.rs, and its recompilation once effects have been added.     *)
(*                                                                         *)
(* compile() is one synchronous call whose iterator chain pulls one        *)
(* function after the other; a step of this module is the code between two *)
(* calls of the contract's own functions.  What those return is chosen     *)
(* when they are called and remembered in "answers": contract functions    *)
(* are deterministic, so a recompilation sees the same values.             *)
(*                                                                         *)
(* A clause is the sequence of the ways to satisfy it, each a set of atoms *)
(* (keys, and CTV(h) for a template hash): <<{}>> is Trivial, <<>> is      *)
(* Unsatisfiable, <<{a}, {b}>> is Or(a, b).  A leaf of the taproot tree is *)
(* a clause.  SIMPs, schemas and the descriptor's encoding are left out.   *)
(***************************************************************************)
EXTENDS Integers, Sequences, TLC, Sats

CONSTANTS
    Contracts,      \* contracts: [funcs, finishes, guardKind]
    Clauses,        \* what guard functions may return
    Keys,           \* the atoms that are public keys
    TemplateLists,  \* what a then or continuation function may return
    Amounts,        \* what ensure_amount may return
    EffectKeys,     \* the keys of one MapEffectDB entry, in BTreeMap order
    Size            \* weight a feerate is charged for (tx plus satisfaction)

Trivial == <<{}>>
Unsatisfiable == <<>>
NUMS == <<"key", "NUMS">>   \* pick_key's static default key

\* An Err in the iterator a function returns, or for the call as a whole.
ErrTemplate == [hash |-> "err", total |-> 0, max |-> 0, guards |-> {},
                feerate |-> -1]
CTV(h) == <<"ctv", h>>

IsSeq(s) == s \in Seq({s[i] : i \in DOMAIN s})

ASSUME SizeAssumption == Size \in Nat /\ Amounts \subseteq Nat

\* What the contract's functions give is vectors, of guards that name no
\* template; a template's max pays for its outputs (TemplateFunded of
\* TemplateBuilder).  No effect has the name of the default one's call.
ASSUME ContractAssumption ==
    /\ IsSeq(EffectKeys)
    /\ \A n \in DOMAIN EffectKeys : EffectKeys[n] # "DefaultEffect"
    /\ \A c \in Contracts :
         /\ IsSeq(c.funcs) /\ IsSeq(c.finishes)
         /\ \A i \in DOMAIN c.funcs :
              IsSeq(c.funcs[i].guards) /\ IsSeq(c.funcs[i].conds)
    /\ \A clause \in Clauses :
         /\ IsSeq(clause)
         /\ \A i \in DOMAIN clause : \A a \in clause[i] : a[1] # "ctv"
    /\ \A l \in TemplateLists :
         /\ IsSeq(l)
         /\ \A i \in DOMAIN l :
              /\ l[i].total \in Nat /\ l[i].max \in Nat
              /\ l[i].total <= l[i].max
              /\ \A a \in l[i].guards : a[1] # "ctv"

VARIABLES
    contract,   \* what is compiled
    answers,    \* what the contract's functions returned, by call
    effects,    \* the MapEffectDB: a set of [at, key]
    pass,       \* 1, then 2 for the recompilation
    previous,   \* the Compiled of the first pass
    pc,
    idx,        \* position in funcs, then in finishes
    derived,    \* every path derived so far; a context derives under its own
    usedNames,  \* Renamer.used_names
    names,      \* the name each processed function got
    nullable,   \* of the function at idx
    guard,      \* the guards of the function at idx, as one clause
    cache,      \* GuardCache: the clauses of the Cache guards called so far
    calls,      \* calls of the function at idx still to make, by place
    txs,        \* templates it returned, not yet inserted
    txClauses,  \* the clauses extracted from those inserted
    committed,  \* hash -> template, for ctv_to_tx
    suggested,  \* hash -> template, for suggested_txs
    range,      \* amount_range, -1 for None
    leaves,     \* clause_accumulator, flattened
    finishLeaves,
    points,     \* the paths of the continuation points
    compiled    \* the result

funcVars == <<nullable, guard, calls, txs, txClauses>>
nameVars == <<usedNames, names>>
guardVars == <<cache>>
txVars == <<committed, suggested, range>>
outVars == <<leaves, finishLeaves, points, compiled>>
passVars == <<contract, effects, pass, previous>>
vars == <<passVars, answers, pc, idx, derived, nameVars, funcVars, guardVars,
          txVars, outVars>>

NoResult == [root |-> "none"]
Func == contract.funcs[idx]
IsThen == Func.kind = "then"

\* Answers(call, S): what call returned before, or else anything in S.
Answers(call, S) == IF call \in DOMAIN answers THEN {answers[call]} ELSE S
With(map, k, v) ==
    [x \in DOMAIN map \cup {k} |-> IF x = k THEN v ELSE map[x]]
Remember(call, r) == answers' = With(answers, call, r)

\* Context::derive, for a set of fragments under one path
Fresh(paths) == paths \cap derived = {}
Derive(paths) == derived' = derived \cup paths

Root == <<"root">>
ActionPath(name) == Root \o <<"Action", name>>
EffectPath(f, name) ==
    Append(ActionPath(name), IF f.kind = "then" THEN "Next" ELSE "Suggested")

Fail ==
    /\ pc' = "failed"
    /\ UNCHANGED <<passVars, idx, derived, nameVars, funcVars, guardVars,
                   txVars, outVars>>
----------------------------------------------------------------------------
(* ConditionalCompileType::merge                                           *)

CondTypes == {"Skippable", "Nullable", "Required", "Never", "NoConstraint",
              "Fail"}

MutMerge(a, b) ==   \* mutant: Never gives way to a stronger Required
    IF a = "NoConstraint" THEN b
    ELSE IF b = "NoConstraint" THEN a
    ELSE IF "Fail" \in {a, b} THEN "Fail"
    ELSE IF "Required" \in {a, b} THEN "Required"
    ELSE IF "Never" \in {a, b} THEN "Never"
    ELSE IF "Skippable" \in {a, b} THEN "Skippable" ELSE "Nullable"

Merge(a, b) ==
    IF a = "NoConstraint" THEN b
    ELSE IF b = "NoConstraint" THEN a
    ELSE IF "Fail" \in {a, b} \/ {a, b} = {"Never", "Required"} THEN "Fail"
    ELSE IF "Never" \in {a, b} THEN "Never"
    ELSE IF "Required" \in {a, b} THEN "Required"
    ELSE IF "Skippable" \in {a, b} THEN "Skippable" ELSE "Nullable"

\* CCILWrapper::assemble, a left fold
Assemble(conds) ==
    LET fold[n \in 0..Len(conds)] ==
          IF n = 0 THEN "NoConstraint" ELSE Merge(fold[n - 1], conds[n])
    IN fold[Len(conds)]
----------------------------------------------------------------------------
Init ==
    /\ contract \in Contracts
    /\ answers = <<>>
    /\ effects = {}
    /\ pass = 1
    /\ previous = NoResult
    /\ pc = "ensure" /\ idx = 1
    /\ derived = {} /\ usedNames = {} /\ names = <<>>
    /\ nullable = FALSE /\ guard = Trivial
    /\ cache = <<>>
    /\ calls = {} /\ txs = <<>> /\ txClauses = <<>>
    /\ committed = <<>> /\ suggested = <<>>
    /\ range = [min |-> -1, max |-> -1]
    /\ leaves = <<>> /\ finishLeaves = <<>> /\ points = {}
    /\ compiled = NoResult

\* AmountRange::update_range.  None is below every Some, so min stays None.
UpdateRange(r, a) == [min |-> Smaller(r.min, a), max |-> Larger(r.max, a)]

EnsureAmount ==
    /\ pc = "ensure"
    /\ \E a \in Answers(<<"ensure">>, Amounts \cup {-1}) :
         /\ Remember(<<"ensure">>, a)
         /\ \/ a = -1 /\ Fail
            \/ /\ a # -1
               /\ Derive({Append(Root, "Cloned"), Append(Root, "Action")})
               /\ range' = UpdateRange(range, a)
               /\ pc' = "name"
               /\ UNCHANGED <<passVars, idx, nameVars, funcVars, guardVars,
                              committed, suggested, outVars>>

\* Renamer::get_name tries the name and then name_renamed_0, for ever:
\* "count" is never advanced.
Renamed(name) == name \o "_renamed_0"
FreeNames(name) == {name, Renamed(name)} \ usedNames
MutGetName(name) == name        \* mutant: names are not made unique
GetName(name) == IF name \in usedNames THEN Renamed(name) ELSE name

NameFunction ==
    /\ pc = "name" /\ idx <= Len(contract.funcs)
    /\ UNCHANGED <<passVars, answers, idx, funcVars, guardVars, txVars,
                   outVars>>
    /\ LET name == GetName(Func.name) IN
       \/ /\ FreeNames(Func.name) = {}
          /\ pc' = "spinning"
          /\ UNCHANGED <<derived, nameVars>>
       \/ /\ FreeNames(Func.name) # {}
          /\ usedNames' = usedNames \cup {name}
          /\ names' = Append(names, name)
          /\ IF Fresh({ActionPath(name)})
             THEN /\ Derive({ActionPath(name)})
                  /\ pc' = "cond"
             ELSE /\ pc' = "panic"  \* expect(UNIQUE_DERIVE_PANIC_MSG)
                  /\ UNCHANGED derived

\* The function is dropped, fails the whole compilation, or is processed.
CompileIf ==
    /\ pc = "cond"
    /\ \E r \in Answers(<<"cond", idx>>, [1..Len(Func.conds) -> CondTypes]) :
         LET decision == Assemble(r) IN
         /\ Remember(<<"cond", idx>>, r)
         /\ \/ decision = "Fail" /\ Fail
            \/ /\ decision \in {"Skippable", "Never"}
               /\ pc' = "name" /\ idx' = idx + 1
               /\ UNCHANGED <<passVars, derived, nameVars, funcVars,
                              guardVars, txVars, outVars>>
            \/ /\ decision \in {"Required", "NoConstraint", "Nullable"}
               /\ pc' = "guard"
               /\ nullable' = (decision = "Nullable")
               /\ UNCHANGED <<passVars, idx, derived, nameVars, guard, calls,
                              txs, txClauses, guardVars, txVars, outVars>>

\* GuardCache::get: a Cache guard is called once per contract instance, with
\* the context of its first use; a Fresh guard at every use.
GetGuard(g, at, c) ==
    LET cached == contract.guardKind[g] = "Cache"
        call == <<"guard", g, IF cached THEN Root ELSE at>>
    IN  \/ /\ cached /\ g \in DOMAIN cache
           /\ c = cache[g]
           /\ UNCHANGED <<answers, guardVars>>
        \/ /\ ~(cached /\ g \in DOMAIN cache)
           /\ c \in Answers(call, Clauses)
           /\ Remember(call, c)
           /\ cache' = IF cached THEN With(cache, g, c) ELSE cache

\* The calls compute_all_effects makes: the default effect, and with the web
\* API one call per effect filed under the path of the effect context, by
\* their place in the map; 0 is the default.
Effect(n) == IF n = 0 THEN "DefaultEffect" ELSE EffectKeys[n]
EffectsAt(path) ==
    {n \in DOMAIN EffectKeys : [at |-> path, key |-> EffectKeys[n]] \in effects}
MutCalls(f, name) ==   \* mutant: looked up where the function's context is
    {0} \cup IF f.kind = "api" THEN EffectsAt(ActionPath(name)) ELSE {}
Calls(f, name) ==
    {0} \cup IF f.kind = "api" THEN EffectsAt(EffectPath(f, name)) ELSE {}

\* create_guards derives Metadata from the same context for each guard, so
\* its iterator yields one pair of contexts and never another.
CreateGuards ==
    LET here == ActionPath(names[Len(names)])
        GuardCtx == Append(here, "Guard")
    IN
    /\ pc = "guard"
    /\ UNCHANGED <<passVars, idx, nameVars, nullable, txs, txClauses, txVars,
                   outVars>>
    /\ Derive({GuardCtx, Append(here, "Metadata"),
               EffectPath(Func, names[Len(names)])})
    /\ \/ /\ Len(Func.guards) >= 2
          /\ pc' = "spinning"
          /\ UNCHANGED <<answers, guard, calls, guardVars>>
       \/ /\ Len(Func.guards) < 2
          /\ pc' = "call"
          /\ calls' = Calls(Func, names[Len(names)])
          /\ IF Func.guards = <<>>
             THEN guard' = Trivial /\ UNCHANGED <<answers, guardVars>>
             ELSE \E c \in Clauses :
                    guard' = c /\ GetGuard(Func.guards[1], GuardCtx, c)

NextCall(n) == n \in calls /\ \A m \in calls : n <= m
CallPaths(here, n) ==
    IF n = 0 THEN {Append(here, "DefaultEffect")}
    ELSE LET applied == Append(here, "Effects")
         IN  {applied, Append(applied, EffectKeys[n])}

CallFunction ==
    LET here == EffectPath(Func, names[Len(names)]) IN
    /\ pc = "call"
    /\ \E n \in calls :
         /\ NextCall(n)
         /\ Derive(CallPaths(here, n))
         /\ calls' = calls \ {n}
         /\ pc' = IF calls = {n} THEN "insert" ELSE "call"
         /\ \E r \in Answers(<<"call", idx, Effect(n)>>, TemplateLists) :
              Remember(<<"call", idx, Effect(n)>>, r) /\ txs' = txs \o r
    /\ UNCHANGED <<passVars, idx, nameVars, nullable, guard, txClauses,
                   guardVars, txVars, outVars>>

\* BTreeMap::entry(h).or_insert(t)
OrInsert(map, t) ==
    IF t.hash \in DOMAIN map THEN map ELSE With(map, t.hash, t)

MutInsertTemplate ==   \* mutant: suggested templates land in ctv_to_tx too
    /\ pc = "insert" /\ txs # <<>> /\ Head(txs) # ErrTemplate
    /\ txs' = Tail(txs)
    /\ committed' = OrInsert(committed, Head(txs))
    /\ suggested' = IF IsThen THEN suggested
                    ELSE OrInsert(suggested, Head(txs))
    /\ range' = UpdateRange(range, Head(txs).max)
    /\ txClauses' = IF IsThen
                    THEN Append(txClauses, {CTV(Head(txs).hash)})
                    ELSE txClauses
    /\ UNCHANGED <<passVars, answers, pc, idx, derived, nameVars, nullable,
                   guard, calls, guardVars, outVars>>

\* The clause is extracted from the template the map kept, which is the first
\* one with this hash.
InsertTemplate ==
    LET t == Head(txs)
        map == OrInsert(IF IsThen THEN committed ELSE suggested, t)
        kept == map[t.hash]
    IN
    /\ pc = "insert" /\ txs # <<>>
    /\ UNCHANGED answers
    /\ \/ /\ t = ErrTemplate
          /\ Fail
       \/ /\ t # ErrTemplate /\ ~IsThen /\ kept.guards # {}
          /\ Fail       \* AdditionalGuardsNotAllowedHere
       \/ /\ t # ErrTemplate /\ (IsThen \/ kept.guards = {})
          /\ txs' = Tail(txs)
          /\ range' = UpdateRange(range, t.max)
          /\ IF IsThen
             THEN /\ committed' = map
                  /\ txClauses' = Append(txClauses,
                                         kept.guards \cup {CTV(t.hash)})
                  /\ UNCHANGED suggested
             ELSE /\ suggested' = map
                  /\ UNCHANGED <<committed, txClauses>>
          /\ UNCHANGED <<passVars, pc, idx, derived, nameVars, nullable,
                         guard, calls, guardVars, outVars>>

\* optimizer_flatten_policy: a top-level Or gives one leaf per alternative.
\* (An Unsatisfiable leaf can never be used; it is left out.)
Flatten(clause) == [i \in DOMAIN clause |-> <<clause[i]>>]

\* And(clause, atoms)
MutConjoin(clause, atoms) == <<atoms>>   \* mutant: the guard is forgotten
Conjoin(clause, atoms) == [i \in DOMAIN clause |-> clause[i] \cup atoms]

MutCombined == <<>>   \* mutant: a guarded function loses its templates
Combined == [i \in DOMAIN txClauses |-> Conjoin(guard, txClauses[i])]

FunctionDone(newLeaves) ==
    /\ leaves' = leaves \o newLeaves
    /\ pc' = "name" /\ idx' = idx + 1
    /\ nullable' = FALSE /\ guard' = Trivial /\ txClauses' = <<>>
    /\ UNCHANGED <<passVars, answers, derived, nameVars, calls, txs,
                   guardVars, txVars, finishLeaves, compiled>>

\* combine_txtmpls.  Compiling a policy may fail: miniscript's decision.
CombineTemplates ==
    /\ pc = "insert" /\ txs = <<>> /\ IsThen
    /\ \/ /\ nullable /\ txClauses = <<>>
          /\ FunctionDone(<<>>)
          /\ UNCHANGED points
       \/ /\ txClauses # <<>> /\ guard # Unsatisfiable
          /\ FunctionDone(Combined)
          /\ UNCHANGED points
       \/ /\ ~(nullable /\ txClauses = <<>>)
          /\ Fail     \* MissingTemplates, or a policy miniscript refuses
          /\ UNCHANGED answers

AddContinuation ==
    /\ pc = "insert" /\ txs = <<>> /\ ~IsThen
    /\ \/ /\ FunctionDone(Flatten(guard))
          /\ points' = points \cup {EffectPath(Func, names[Len(names)])}
       \/ Fail /\ UNCHANGED answers    \* gen_simps, or miniscript

FunctionsDone ==
    /\ pc = "name" /\ idx > Len(contract.funcs)
    /\ pc' = "finish" /\ idx' = 1
    /\ Derive({Append(Root, "FinishFn")})
    /\ UNCHANGED <<passVars, answers, nameVars, funcVars, guardVars, txVars,
                   outVars>>

FinishCtx(j) == Root \o <<"FinishFn", ToString(j)>>

FinishFn ==
    /\ pc = "finish" /\ idx <= Len(contract.finishes)
    /\ \E c \in Clauses :
         /\ GetGuard(contract.finishes[idx], FinishCtx(idx), c)
         /\ finishLeaves' = finishLeaves \o Flatten(c)
         /\ Derive({FinishCtx(idx), Append(FinishCtx(idx), "Metadata")})
         /\ idx' = idx + 1
         /\ UNCHANGED <<passVars, pc, nameVars, funcVars, txVars, leaves,
                        points, compiled>>

AllLeaves == finishLeaves \o leaves

\* pick_key_from_miniscripts: the first leaf that is a bare key.
IsBareKey(leaf) == \E k \in Keys : leaf = <<{k}>>
PickKey ==
    LET bare == {i \in DOMAIN AllLeaves : IsBareKey(AllLeaves[i])}
    IN  IF bare = {} THEN NUMS
        ELSE LET first == CHOOSE i \in bare : \A j \in bare : i <= j
             IN  CHOOSE k \in Keys : AllLeaves[first] = <<{k}>>

\* The feerate estimate of one committed template, with the code's outcome:
\* the template is reported when its fees are NOT below what the rate needs.
Fees(t) == range.max - t.total
Reported(t) == t.feerate # -1 /\ ~(Fees(t) < t.feerate * Size)

SealCompiled ==
    /\ compiled' = [root |-> Root, key |-> PickKey, leaves |-> AllLeaves,
                    committed |-> committed, suggested |-> suggested,
                    points |-> points, max |-> range.max]
    /\ Derive({Append(Root, "Metadata")})

\* Subtracting a larger Amount panics.
Seal ==
    /\ pc = "finish" /\ idx > Len(contract.finishes)
    /\ UNCHANGED answers
    /\ \/ Fail   \* MinFeerateError, Tr::new, metadata()
       \/ /\ \A h \in DOMAIN committed : ~Reported(committed[h])
          /\ IF \A h \in DOMAIN committed : Fees(committed[h]) >= 0
             THEN pc' = "done" /\ SealCompiled
             ELSE pc' = "panic" /\ UNCHANGED <<compiled, derived>>
          /\ UNCHANGED <<passVars, idx, nameVars, funcVars, guardVars, txVars,
                         leaves, finishLeaves, points>>

\* A user files effects under reported continuation points and compiles the
\* same contract again.
Recompile ==
    /\ pc = "done" /\ pass = 1
    /\ pass' = 2
    /\ previous' = compiled
    /\ effects' \in SUBSET [at : compiled.points,
                             key : {EffectKeys[i] : i \in DOMAIN EffectKeys}]
    /\ UNCHANGED <<contract, answers>>
    /\ pc' = "ensure" /\ idx' = 1
    /\ derived' = {} /\ usedNames' = {} /\ names' = <<>>
    /\ nullable' = FALSE /\ guard' = Trivial
    /\ cache' = <<>>
    /\ calls' = {} /\ txs' = <<>> /\ txClauses' = <<>>
    /\ committed' = <<>> /\ suggested' = <<>>
    /\ range' = [min |-> -1, max |-> -1]
    /\ leaves' = <<>> /\ finishLeaves' = <<>> /\ points' = {}
    /\ compiled' = NoResult

Next ==
    \/ EnsureAmount \/ NameFunction \/ CompileIf \/ CreateGuards
    \/ CallFunction \/ InsertTemplate \/ CombineTemplates \/ AddContinuation
    \/ FunctionsDone \/ FinishFn \/ Seal \/ Recompile

Spec == Init /\ [][Next]_vars
FairSpec == Spec /\ WF_vars(Next)
----------------------------------------------------------------------------
Templates == UNION {{l[i] : i \in DOMAIN l} : l \in TemplateLists}
Maybe(S) == S \cup {-1}

\* Every variable has the type of the local it stands for.
TypeOK ==
    /\ pc \in {"ensure", "name", "cond", "guard", "call", "insert", "finish",
               "done", "failed", "spinning", "panic"}
    /\ contract \in Contracts /\ pass \in 1..2
    /\ nullable \in BOOLEAN /\ guard \in Clauses \cup {Trivial}
    /\ \A g \in DOMAIN cache :
         cache[g] \in Clauses /\ contract.guardKind[g] = "Cache"
    /\ \A map \in {committed, suggested} : \A h \in DOMAIN map :
         map[h] \in Templates /\ map[h].hash = h
    /\ range.max \in Maybe(Nat)
    /\ points \subseteq derived

\* What the contract's functions said, once everything has been called.
Functions == DOMAIN contract.funcs
Conds(i) == LET r == answers[<<"cond", i>>] IN {r[c] : c \in DOMAIN r}
Called(i) == <<"call", i, "DefaultEffect">> \in DOMAIN answers
PathOf(i) == EffectPath(contract.funcs[i], names[i])
Asked(i) ==
    IF Called(i)
    THEN {<<"call", i, Effect(n)>> : n \in Calls(contract.funcs[i], names[i])}
    ELSE {}
Returned(i) ==
    UNION {{answers[c][n] : n \in DOMAIN answers[c]} :
             c \in Asked(i) \cap DOMAIN answers}
GuardAnswer(g, at) ==
    answers[<<"guard", g, IF contract.guardKind[g] = "Cache" THEN Root
                          ELSE at>>]
Ways(clause) == {clause[i] : i \in DOMAIN clause}
GuardOf(i) ==
    LET f == contract.funcs[i] IN
    IF f.guards = <<>> THEN Trivial
    ELSE GuardAnswer(f.guards[1], Append(ActionPath(names[i]), "Guard"))
SpendingWays == UNION {Ways(AllLeaves[l]) : l \in DOMAIN AllLeaves}
Done == pc = "done"

\* What the descriptor lets one do: its leaves, and its key path.
OfferedWays ==
    SpendingWays \cup IF compiled.key = NUMS THEN {} ELSE {{compiled.key}}

IsPoint(i) == Called(i) /\ contract.funcs[i].kind # "then"

\* The ways the contract itself gives to spend its coin.  A continuation
\* without a guard gives none: "If no guards and not CTV, then nothing gets
\* added (not interpreted as Trivial True)" (mod.rs:235-236).
Licensed(way) ==
    \/ \E j \in DOMAIN contract.finishes :
         way \in Ways(GuardAnswer(contract.finishes[j], FinishCtx(j)))
    \/ \E i \in Functions :
         /\ IsPoint(i) /\ contract.funcs[i].guards # <<>>
         /\ way \in Ways(GuardOf(i))
    \/ \E i \in Functions :
         /\ Called(i) /\ contract.funcs[i].kind = "then"
         /\ \E w \in Ways(GuardOf(i)), t \in Returned(i) :
              w \cup {CTV(t.hash)} \subseteq way

\* Where the code departs from that comment: the clause of no guards is
\* Trivial, and compile adds it as a leaf for a continuation all the same.
UnguardedPoint == \E i \in Functions : IsPoint(i) /\ contract.funcs[i].guards = <<>>

\* Nobody can spend by the compiled descriptor, through a leaf or its key, in
\* a way the contract did not ask for: not without the guard of the function a
\* leaf comes from, not through a function its conditions removed, and not
\* with a key that some leaf asks for among others (combine_txtmpls,
\* GuardCache, the skipping flat_map of compile, pick_key_from_miniscripts).
\* One way is excepted, which mod.rs:235-236 says is not there: a contract
\* that has a continuation without guards can be spent by anyone.
OnlyLicensedWays ==
    Done => \A way \in OfferedWays : Licensed(way) \/ (way = {} /\ UnguardedPoint)

\* ctv_to_tx and the script agree: each committed transaction can be made by
\* some leaf, and each CTV leaf has its transaction on file.  Suggested
\* transactions are never enforced.
CommittedAreEnforced ==
    Done => DOMAIN committed =
              {h \in {t.hash : t \in Templates} :
                 \E way \in SpendingWays : CTV(h) \in way}

\* The precedence table in the comment of merge, whatever the order and the
\* number of conditions: Fail and the conflict of Never with Required always
\* fail the compilation, Never and Skippable remove what is not Required, and
\* what is Required is called and, for a then, has templates.
CompileIfRespected ==
    Done => \A i \in Functions :
        LET cs == Conds(i) IN
        /\ "Fail" \notin cs /\ ~({"Never", "Required"} \subseteq cs)
        /\ Called(i) <=> ({"Never", "Skippable"} \cap cs = {}
                          \/ "Required" \in cs)
        /\ (Called(i) /\ contract.funcs[i].kind = "then" /\ Returned(i) = {})
             => ("Nullable" \in cs /\ "Required" \notin cs)

\* The expect()s on derived paths and the subtraction of amounts in the fee
\* estimate cannot fail, whatever names and templates the contract has.
NeverPanics == pc # "panic"

\* An effect filed under the path of a reported continuation point reaches,
\* on recompilation, the function at that path and no other, and all that a
\* continuation answers to the default effect and to those filed is suggested.
\* A point without the web API is reported too (mod.rs:272-278, without a
\* schema), and what is filed there is dropped (mod.rs:87-89).
CallOf(i, n) == <<"call", i, Effect(n)>>
EffectsReachTheirPoint ==
    Done =>
        /\ \A e \in effects : \E i \in Functions :
             /\ IsPoint(i) /\ PathOf(i) = e.at /\ e.at \in compiled.points
             /\ contract.funcs[i].kind = "api" =>
                  <<"call", i, e.key>> \in DOMAIN answers
        /\ \A i \in Functions, n \in DOMAIN EffectKeys :
             CallOf(i, n) \in DOMAIN answers =>
               [at |-> PathOf(i), key |-> EffectKeys[n]] \in effects
        /\ \A i \in Functions, n \in {0} \cup DOMAIN EffectKeys :
             IsPoint(i) /\ CallOf(i, n) \in DOMAIN answers =>
               \A k \in DOMAIN answers[CallOf(i, n)] :
                 answers[CallOf(i, n)][k].hash \in DOMAIN compiled.suggested

\* Effects only ever add suggestions: the address (key and leaves), the
\* committed transactions and the continuation points a user has seen are the
\* same after a recompilation with effects, and nothing suggested is lost.
\* (finish.rs: "it would destabilize compilation with effect arguments".)
EffectsKeepTheContract ==
    (Done /\ pass = 2) =>
        /\ compiled.root = previous.root /\ compiled.key = previous.key
        /\ compiled.leaves = previous.leaves
        /\ compiled.committed = previous.committed
        /\ compiled.points = previous.points
        /\ DOMAIN previous.suggested \subseteq DOMAIN compiled.suggested
        /\ previous.max <= compiled.max
----------------------------------------------------------------------------
(* What comments of the code say and the code does not do.                 *)

\* "note that this zip with would loop forever if there were to be a bug
\* here": every compilation ends, with a result or an error.
CompilationEnds == <>(pc \in {"done", "failed"})

\* "And(And(Top Guard, And(add_guard(1),..., add_guard(n))), CTV)": a template
\* can be made only together with the guards it carries.
TemplateGuardsEnforced ==
    Done => \A i \in Functions :
        contract.funcs[i].kind = "then" =>
            \A t \in Returned(i) :
                \E way \in SpendingWays :
                    t.guards \cup {CTV(t.hash)} \subseteq way
=============================================================================
