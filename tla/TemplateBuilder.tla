-------------------------- MODULE TemplateBuilder --------------------------
(***************************************************************************)
(* sapio/src/template/builder.rs: the interactive builder a contract's     *)
(* functions use to put a transaction template together, with the part of  *)
(* contract/context.rs it drives (available funds, derived path            *)
(* fragments).                                                             *)
(*                                                                         *)
(* Every method takes the builder by value: a call that returns Err drops  *)
(* it, so "failed" is terminal, and so is "template" (the From impl that   *)
(* finishes the builder).  "addingFees" is the AddingFees type state: only *)
(* the methods of impl<T> BuilderState<T> exist there.                     *)
(*                                                                         *)
(* Names, colors, extra metadata and the version are left out: no          *)
(* condition of the code reads them.  A child contract is reduced to       *)
(* whether its compilation succeeds.                                       *)
(***************************************************************************)
EXTENDS Integers, Sequences, Sats

CONSTANTS
    Amounts,      \* the amounts a contract passes to the builder, in sats
    RelLocks,     \* relative locks passed to set_sequence
    AbsLocks,     \* absolute locks passed to set_lock_time
    Clauses,      \* clauses passed to add_guard
    Protocols,    \* SIMP protocol numbers
    MaxFunds,     \* bound: initial funds plus top-ups (the supply is < 2^64)
    MaxOutputs,   \* bound: outputs of one template
    MaxInputs,    \* bound: inputs of one template
    MaxGuards     \* bound: calls of add_guard

\* A lock is [kind, value]; the kinds are RH/RT (relative height and time)
\* and AH/AT (absolute).
Lock(kinds) == [kind : kinds, value : Nat]

ASSUME AmountsAssumption == Amounts \subseteq Nat /\ MaxFunds \in Nat
ASSUME LocksAssumption == /\ RelLocks \subseteq Lock({"RH", "RT"})
                          /\ AbsLocks \subseteq Lock({"AH", "AT"})

VARIABLES
    mode,         \* "building", "addingFees", "template" or "failed"
    error,        \* the CompilationError of a failed call
    avail,        \* ctx.available_funds
    derived,      \* n \in derived: ctx.already_derived holds Branch(n)
    fees,
    outputs,      \* each with the amount and the Branch its contract got
    sequences,    \* one relative lock or None per input
    simps,        \* per input: the SIMP protocols already attached
    lockTime,     \* absolute lock or None
    minFeerate,   \* Amount or None
    guards,
    template,     \* the finished Template, or NoTemplate
    funded,       \* history: initial funds and every add_amount
    spent,        \* history: what bare spend_amount calls took
    taken         \* history: branches derived before the builder existed

ctxVars == <<avail, derived>>
historyVars == <<funded, spent, taken>>
lockVars == <<sequences, simps, lockTime>>
vars == <<mode, error, ctxVars, fees, outputs, lockVars, minFeerate, guards,
          template, historyVars>>

None == [kind |-> "None", value |-> 0]
NoFeerate == -1
NoTemplate == [max |-> -1]

\* Two locks of one kind merge to the later of the two.
SameKind(old, new) == old = None \/ old.kind = new.kind
Merged(old, new) ==
    IF old = None THEN new ELSE [old EXCEPT !.value = Larger(@, new.value)]

Building == mode = "building"
Open == mode \in {"building", "addingFees"}

\* An Err result: the builder is dropped with everything it held.
Fail(e) ==
    /\ mode' = "failed"
    /\ error' = e
    /\ UNCHANGED <<ctxVars, fees, outputs, lockVars, minFeerate, guards,
                   template, historyVars>>

\* Indices count from 0; a negative one counts from the back.
Position(ii) == IF ii >= 0 THEN ii + 1 ELSE Len(sequences) + ii + 1
Indices == -(MaxInputs + 1)..MaxInputs
----------------------------------------------------------------------------
Init ==
    /\ mode = "building"
    /\ error = "none"
    /\ avail \in 0..MaxFunds
    /\ taken \in SUBSET (0..(MaxOutputs - 1))
    /\ derived = taken
    /\ fees = 0
    /\ outputs = <<>>
    /\ sequences = <<None>>
    /\ simps = <<{}>>
    /\ lockTime = None
    /\ minFeerate = NoFeerate
    /\ guards = <<>>
    /\ template = NoTemplate
    /\ funded = avail
    /\ spent = 0

MutOutputNotSpent(a) ==    \* mutant: the parent keeps the funds it gave away
    /\ Building /\ Len(outputs) < MaxOutputs
    /\ Len(outputs) \notin derived /\ avail >= a
    /\ derived' = derived \cup {Len(outputs)}
    /\ outputs' = Append(outputs, [amount |-> a, branch |-> Len(outputs)])
    /\ UNCHANGED <<mode, error, avail, fees, lockVars, minFeerate, guards,
                   template, historyVars>>

MutBranchNotChecked(a) ==  \* mutant: derive never looks at already_derived
    /\ Building /\ Len(outputs) < MaxOutputs /\ avail >= a
    /\ derived' = derived \cup {Len(outputs)}
    /\ avail' = avail - a
    /\ outputs' = Append(outputs, [amount |-> a, branch |-> Len(outputs)])
    /\ UNCHANGED <<mode, error, fees, lockVars, minFeerate, guards, template,
                   historyVars>>

\* add_output: derive Branch(outputs.len()), hand `a` to the child context,
\* spend it here, compile the child, push the output.
AddOutput(a) ==
    LET branch == Len(outputs) IN
    /\ Building /\ branch < MaxOutputs
    /\ branch \notin derived /\ avail >= a
    /\ derived' = derived \cup {branch}
    /\ avail' = avail - a
    /\ outputs' = Append(outputs, [amount |-> a, branch |-> branch])
    /\ UNCHANGED <<mode, error, fees, lockVars, minFeerate, guards, template,
                   historyVars>>

AddOutputFails(a) ==
    /\ Building /\ Len(outputs) < MaxOutputs
    /\ \/ Len(outputs) \in derived /\ Fail("ContexPathAlreadyDerived")
       \/ Len(outputs) \notin derived /\ avail < a /\ Fail("OutOfFunds")
       \/ /\ Len(outputs) \notin derived /\ avail >= a
          /\ Fail("child contract does not compile")

AddAmount(a) ==
    /\ Building /\ funded + a <= MaxFunds
    /\ avail' = avail + a
    /\ funded' = funded + a
    /\ UNCHANGED <<mode, error, derived, fees, outputs, lockVars, minFeerate,
                   guards, template, spent, taken>>

AddSequence ==
    /\ Building /\ Len(sequences) < MaxInputs
    /\ sequences' = Append(sequences, None)
    /\ simps' = Append(simps, {})
    /\ UNCHANGED <<mode, error, ctxVars, fees, outputs, lockTime, minFeerate,
                   guards, template, historyVars>>

MutSequenceReplaced(ii, s) ==  \* mutant: the new lock replaces the old one
    /\ Building /\ Position(ii) \in DOMAIN sequences
    /\ SameKind(sequences[Position(ii)], s)
    /\ sequences' = [sequences EXCEPT ![Position(ii)] = s]
    /\ UNCHANGED <<mode, error, ctxVars, fees, outputs, simps, lockTime,
                   minFeerate, guards, template, historyVars>>

SetSequence(ii, s) ==
    /\ Building
    /\ Position(ii) \in DOMAIN sequences
    /\ SameKind(sequences[Position(ii)], s)
    /\ sequences' = [sequences EXCEPT ![Position(ii)] = Merged(@, s)]
    /\ UNCHANGED <<mode, error, ctxVars, fees, outputs, simps, lockTime,
                   minFeerate, guards, template, historyVars>>

SetSequenceFails(ii, s) ==
    /\ Building
    /\ \/ Position(ii) \notin DOMAIN sequences /\ Fail("NoSuchSequence")
       \/ /\ Position(ii) \in DOMAIN sequences
          /\ ~SameKind(sequences[Position(ii)], s)
          /\ Fail("IncompatibleSequence")

AddSimpForInput(ii, p) ==
    /\ Building
    /\ Position(ii) \in DOMAIN simps
    /\ p \notin simps[Position(ii)]
    /\ simps' = [simps EXCEPT ![Position(ii)] = @ \cup {p}]
    /\ UNCHANGED <<mode, error, ctxVars, fees, outputs, sequences, lockTime,
                   minFeerate, guards, template, historyVars>>

AddSimpForInputFails(ii, p) ==
    /\ Building
    /\ \/ Position(ii) \notin DOMAIN simps /\ Fail("NoSuchSequence")
       \/ /\ Position(ii) \in DOMAIN simps
          /\ p \in simps[Position(ii)]
          /\ Fail("AlreadyDefined")

SetLockTime(l) ==
    /\ Building
    /\ SameKind(lockTime, l)
    /\ lockTime' = Merged(lockTime, l)
    /\ UNCHANGED <<mode, error, ctxVars, fees, outputs, sequences, simps,
                   minFeerate, guards, template, historyVars>>

SetLockTimeFails(l) ==
    /\ Building
    /\ ~SameKind(lockTime, l)
    /\ Fail("IncompatibleSequence")

AddGuard(g) ==
    /\ Building /\ Len(guards) < MaxGuards
    /\ guards' = Append(guards, g)
    /\ UNCHANGED <<mode, error, ctxVars, fees, outputs, lockVars, minFeerate,
                   template, historyVars>>

SpendAmount(a) ==
    /\ Open /\ avail >= a
    /\ avail' = avail - a
    /\ spent' = spent + a
    /\ UNCHANGED <<mode, error, derived, fees, outputs, lockVars, minFeerate,
                   guards, template, funded, taken>>

MutFeesUnchecked(a) ==  \* mutant: the fees are not checked against the funds
    /\ Open
    /\ mode' = "addingFees"
    /\ avail' = avail - a
    /\ fees' = fees + a
    /\ UNCHANGED <<error, derived, outputs, lockVars, minFeerate, guards,
                   template, historyVars>>

\* add_fees moves the builder to the AddingFees state: no output, lock or
\* top-up can follow.
AddFees(a) ==
    /\ Open /\ avail >= a
    /\ mode' = "addingFees"
    /\ avail' = avail - a
    /\ fees' = fees + a
    /\ UNCHANGED <<error, derived, outputs, lockVars, minFeerate, guards,
                   template, historyVars>>

DebitFails(a) ==
    /\ Open /\ avail < a
    /\ Fail("OutOfFunds")

SetMinFeerate(a) ==
    /\ Open
    /\ minFeerate' = IF minFeerate = NoFeerate THEN a
                     ELSE Smaller(minFeerate, a)
    /\ UNCHANGED <<mode, error, ctxVars, fees, outputs, lockVars, guards,
                   template, historyVars>>

MutMaxWithoutFees ==   \* mutant: Template.max forgets the fees
    /\ Open
    /\ mode' = "template"
    /\ template' = [max |-> TotalAmount(outputs), outputs |-> outputs,
                    sequences |-> sequences, lockTime |-> lockTime,
                    guards |-> guards, minFeerate |-> minFeerate]
    /\ UNCHANGED <<error, ctxVars, fees, outputs, lockVars, minFeerate, guards,
                   historyVars>>

\* impl From<BuilderState> for Template
Finish ==
    /\ Open
    /\ mode' = "template"
    /\ template' = [max |-> TotalAmount(outputs) + fees, outputs |-> outputs,
                    sequences |-> sequences, lockTime |-> lockTime,
                    guards |-> guards, minFeerate |-> minFeerate]
    /\ UNCHANGED <<error, ctxVars, fees, outputs, lockVars, minFeerate, guards,
                   historyVars>>

Next ==
    \/ \E a \in Amounts :
         \/ AddOutput(a) \/ AddOutputFails(a) \/ AddAmount(a)
         \/ SpendAmount(a) \/ AddFees(a) \/ DebitFails(a) \/ SetMinFeerate(a)
    \/ AddSequence
    \/ \E ii \in Indices :
         \/ \E s \in RelLocks : SetSequence(ii, s) \/ SetSequenceFails(ii, s)
         \/ \E p \in Protocols :
              AddSimpForInput(ii, p) \/ AddSimpForInputFails(ii, p)
    \/ \E l \in AbsLocks : SetLockTime(l) \/ SetLockTimeFails(l)
    \/ \E g \in Clauses : AddGuard(g)
    \/ Finish

Spec == Init /\ [][Next]_vars
----------------------------------------------------------------------------
MaybeLock(kinds) == Lock(kinds) \cup {None}
Feerate == Nat \cup {NoFeerate}
OutputRec == [amount : Nat, branch : Nat]

\* Every variable has the type of the field it stands for.
TypeOK ==
    /\ mode \in {"building", "addingFees", "template", "failed"}
    /\ avail \in Nat /\ fees \in Nat /\ funded \in Nat /\ spent \in Nat
    /\ derived \subseteq Nat /\ taken \subseteq Nat
    /\ outputs \in Seq(OutputRec)
    /\ sequences \in Seq(MaybeLock({"RH", "RT"}))
    /\ lockTime \in MaybeLock({"AH", "AT"})
    /\ minFeerate \in Feerate
    /\ Len(simps) = Len(sequences)

\* No sat is created or lost while a template is built: what is still
\* available, the outputs, the fees and the bare spends always add up to what
\* the context was given (Context::with_amount, spend_amount, add_amount and
\* the three builder methods that call them).
FundsConserved ==
    avail + TotalAmount(outputs) + fees + spent = funded

\* Template.max is what an input must bring: it pays for every output and the
\* fees, and is never more than the funds the context held.
TemplateFunded ==
    mode = "template" =>
        /\ template.max + avail + spent = funded
        /\ \A i \in DOMAIN template.outputs :
             template.outputs[i].amount <= template.max

\* The contexts that compiled the outputs have paths nobody used before: not
\* one another's, and not one the contract derived for itself beforehand.
ChildPathsFresh ==
    /\ \A i \in DOMAIN outputs : outputs[i].branch \in derived \ taken
    /\ \A i, j \in DOMAIN outputs :
         outputs[i].branch = outputs[j].branch => i = j

\* old <= new as promises to the user: a lock may appear or be extended, it
\* never disappears, is shortened, or turns from heights to times.
LockExtended(old, new) ==
    old = None \/ (old.kind = new.kind /\ old.value <= new.value)

\* "it will merge by taking the max of the argument": no sequence of calls
\* weakens a lock already asked for, whatever index form the calls use, and
\* inputs keep their position.
LocksNeverWeaken ==
    [][/\ LockExtended(lockTime, lockTime')
       /\ Len(sequences) <= Len(sequences')
       /\ \A i \in DOMAIN sequences :
            LockExtended(sequences[i], sequences'[i])]_vars

\* The builder keeps the promise of the purse.
Purse == INSTANCE FundsLedger
    WITH balance <- avail,
         deposited <- funded,
         withdrawn <- TotalAmount(outputs) + fees + spent
PurseSpec == Purse!Spec
=============================================================================
