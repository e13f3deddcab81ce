----------------------------- MODULE MCCompiler -----------------------------
EXTENDS Compiler

F(kind, name, conds, guards) ==
    [kind |-> kind, name |-> name, conds |-> conds, guards |-> guards]
T(h, total, max, guards, feerate) ==
    [hash |-> h, total |-> total, max |-> max, guards |-> guards,
     feerate |-> feerate]

K1 == <<"key", "k1">>
K2 == <<"key", "k2">>
MCClauses == {Trivial, Unsatisfiable, <<{K1}>>, <<{K1}, {K2}>>}
MCKeys == {K1, K2}
MCAmounts == {1, 3}
MCEffectKeys == <<"e1", "e2">>

Plain == T("h1", 1, 1, {}, -1)
Guarded == T("h1", 1, 2, {K2}, -1)
Rated == T("h2", 1, 2, {}, 2)
MCTemplateLists ==
    {<<>>, <<Plain>>, <<Guarded>>, <<Rated, Plain>>, <<ErrTemplate>>}

Kinds == [g1 |-> "Cache", g2 |-> "Fresh"]
C(funcs, finishes) ==
    [funcs |-> funcs, finishes |-> finishes, guardKind |-> Kinds]
MCContracts == {
    \* a guarded transition beside a continuation, one cached guard for both
    C(<<F("then", "a", <<"c">>, <<"g1">>), F("api", "u", <<>>, <<"g1">>)>>, <<>>),
    \* conditions that have to be merged
    C(<<F("then", "a", <<"c", "c">>, <<>>)>>, <<"g2">>),
    \* two functions of one name, templates that may coincide
    C(<<F("then", "a", <<>>, <<>>), F("then", "a", <<>>, <<"g2">>)>>, <<"g1">>),
    C(<<F("cont", "a", <<>>, <<"g2">>), F("api", "a", <<>>, <<>>)>>, <<"g2">>),
    \* what get_name and create_guards cannot get past
    C(<<F("then", "a", <<>>, <<>>), F("then", "a", <<>>, <<>>),
        F("then", "a", <<>>, <<>>)>>, <<>>),
    C(<<F("then", "a", <<>>, <<"g1", "g2">>)>>, <<>>)}

\* A then function with the two guards of plugin-example/ordinal-inscription.
MCTwoGuards == {C(<<F("then", "a", <<>>, <<"g1", "g2">>)>>, <<>>)}
=============================================================================
