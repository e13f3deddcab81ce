----------------------------- MODULE PsbtSigning -----------------------------
(***************************************************************************)
(* Signing a psbt with the keys of a SigningKey and finalizing it          *)
(* (sapio-psbt/src/lib.rs and external_api.rs).                            *)
(*                                                                         *)
(* An extended key is its fingerprint, its own public key and a function   *)
(* from derivation paths to the public keys derived.  An input of a psbt   *)
(* says whether its utxo is known, its internal key, where each key of its *)
(* leaves comes from (tap_key_origins), and which keys each leaf needs; it *)
(* collects signatures.  A signature is good for one input and one leaf.   *)
(***************************************************************************)
EXTENDS Integers, Sequences

NoKey == "no key"
KeyPath == "key path"     \* the leaf of a key path signature

\* get_sig hashes for input 0, whichever input it signs.
GetSig(key, leaf) == [key |-> key, leaf |-> leaf, input |-> 1]

\* The entries of compute_fingerprint_map with a fingerprint; its sort keeps the
\* order of keys that have the same one.
WithPrint(keys, print) == {i \in DOMAIN keys : keys[i].print = print}

\* key.derive_priv(path): fails where the key has no such child.
Derives(key, path) == path \in DOMAIN key.child

MutFindInternal(input, keys) ==
    \E i \in DOMAIN keys : keys[i].own = input.internal

\* find_internal_keypair: a key that is one of ours, or derived from one.
FindInternal(input, keys) ==
    \/ \E i \in DOMAIN keys : keys[i].own = input.internal
    \/ /\ input.internal \in DOMAIN input.origins
       /\ LET from == input.origins[input.internal]
          IN  \E i \in WithPrint(keys, from.print) :
                /\ Derives(keys[i], from.path)
                /\ keys[i].child[from.path] = input.internal

\* compute_matching_keys: the first key that derives anything decides.
Matches(input, keys, public) ==
    LET from == input.origins[public]
        derive == {i \in WithPrint(keys, from.print) : Derives(keys[i], from.path)}
    IN  \E i \in derive :
          /\ \A j \in derive : i <= j
          /\ keys[i].child[from.path] = public

TopKeySigs(input, keys) ==
    IF input.internal # NoKey /\ FindInternal(input, keys)
    THEN {GetSig(input.internal, KeyPath)} ELSE {}

TapleafSigs(input, keys) ==
    UNION {{GetSig(public, leaf) : leaf \in input.origins[public].leaves} :
             public \in {k \in DOMAIN input.origins : Matches(input, keys, k)}}

\* A signature replaces an earlier one of its key for its leaf.
SignInput(input, keys) ==
    LET new == TopKeySigs(input, keys) \cup TapleafSigs(input, keys)
        replaced == {s \in input.sigs :
                       \E t \in new : s.key = t.key /\ s.leaf = t.leaf}
    IN  [input EXCEPT !.sigs = (@ \ replaced) \cup new]

\* sign_psbt_mut: every input in turn, none if the coin of any is unknown.
SignPsbt(psbt, keys) ==
    IF \E i \in DOMAIN psbt : ~psbt[i].utxo THEN [ok |-> FALSE, psbt |-> psbt]
    ELSE [ok |-> TRUE, psbt |-> [i \in DOMAIN psbt |-> SignInput(psbt[i], keys)]]

\* What psbt.finalize wants of an input (external: miniscript checks every
\* signature it uses).
Satisfied(psbt, i) ==
    LET good == {s \in psbt[i].sigs : s.input = i}
        signed(leaf) == {s.key : s \in {t \in good : t.leaf = leaf}}
    IN  \/ psbt[i].internal # NoKey /\ psbt[i].internal \in signed(KeyPath)
        \/ \E leaf \in DOMAIN psbt[i].needs : psbt[i].needs[leaf] \subseteq signed(leaf)

\* finalize_psbt_format_api: Finished, or NotFinished with the psbt as it is.
FinalizePsbt(psbt) ==
    [completed |-> \A i \in DOMAIN psbt : psbt[i].utxo /\ Satisfied(psbt, i)]
=============================================================================
