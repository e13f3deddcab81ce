---------------------------- MODULE ContractCoins ----------------------------
(***************************************************************************)
(* The vocabulary the contract modules share: what a contract says of the  *)
(* ways its coin may be spent.                                             *)
(*                                                                         *)
(* A contract is a record whose field `is' names the struct of the source  *)
(* and whose other fields are the struct's.  For each contract there is an *)
(* operator that gives the set of its ways: one per then!, continuation    *)
(* (for each of its arguments) and finish! function the contract declares  *)
(* and its conditions let compile.  A coin is a contract that holds sats.  *)
(*                                                                         *)
(* A clause is its disjunctive form: the set of its alternatives, each the *)
(* keys that sign and the relative and absolute locks that must expire.    *)
(* Keys are tuples, so that <<"alice">> and <<"oracle", 3>> compare.       *)
(* Locks count blocks; seqTime and lockTime are the ones set in seconds.   *)
(***************************************************************************)
EXTENDS Sats, FiniteSets, FiniteSetsExt, SequencesExt

(* Clauses: miniscript's policies as the contracts build them. *)
Trivial == {[keys |-> {}, older |-> {}, after |-> {}]}
Unsatisfiable == {}
Key(k) == {[keys |-> {k}, older |-> {}, after |-> {}]}
Older(t) == {[keys |-> {}, older |-> {t}, after |-> {}]}
After(t) == {[keys |-> {}, older |-> {}, after |-> {t}]}
And(C, D) ==
    {[keys |-> c.keys \cup d.keys, older |-> c.older \cup d.older,
      after |-> c.after \cup d.after] : c \in C, d \in D}
Or(C, D) == C \cup D
Threshold(n, keys) ==
    {[keys |-> K, older |-> {}, after |-> {}] : K \in kSubset(n, keys)}
AllOf(keys) == Threshold(Cardinality(keys), keys)

(* Transactions: an output pays a contract, an address among them. *)
Address(who) == [is |-> "Address", who |-> who]
Out(to, sats) == [to |-> to, sats |-> sats]
PayTo(who, sats) == Out(Address(who), sats)
Tx(outs) ==
    [outs |-> outs, seq |-> 0, seqTime |-> 0, lock |-> 0, lockTime |-> 0,
     fees |-> 0,     \* add_fees, and what spend_amount leaves to miners
     brings |-> 0,   \* add_amount
     inputs |-> 0]   \* add_sequence
OutSats(outs) == SumFunction([i \in DOMAIN outs |-> outs[i].sats])

\* estimate_tx_size: what it counts for inputs, outputs and the rest; the
\* script of an address counts nothing, that of a contract 34 bytes.
EstimateTxSize(tx) ==
    12 + 41 * (1 + tx.inputs) + 9 * Len(tx.outs)
       + 34 * Cardinality({i \in DOMAIN tx.outs : tx.outs[i].to.is # "Address"})

\* then! functions: the guard and the hash of a template the spend must have.
Template(name, guard, tx) ==
    [name |-> name, guard |-> guard, tx |-> tx, asked |-> {}, ctv |-> TRUE,
     free |-> FALSE]
\* finish! functions: whoever satisfies the guard spends as they like.
Finish(name, guard) ==
    [Template(name, guard, Tx(<<>>)) EXCEPT !.ctv = FALSE, !.free = TRUE]
\* Continuations license their guard; what they return is a suggestion.
Suggestion(name, guard, tx, asked) ==
    [Template(name, guard, tx) EXCEPT !.ctv = FALSE, !.asked = asked]
Continuation(name, guard, txs) ==
    {Finish(name, guard)} \cup {Suggestion(name, guard, tx, {}) : tx \in txs}
=============================================================================
