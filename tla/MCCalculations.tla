-------------------------- MODULE MCCalculations --------------------------
EXTENDS Calculations

MCReserved == {"@root", "@action"}
MCLetters == {"a", "_"}
MCNumerals == {"0", "1"}
MCHuge == {"2"}

SeqsUpTo(S, n) == UNION {[1..k -> S] : k \in 0..n}

LockTasks ==
    [kind : {"lock"}, from : {"height from now", "units from now"}, n : 0..U16Max] \cup
    [kind : {"lock"}, from : {"height", "time"}, n : 0..U32Max] \cup
    [kind : {"lock"}, from : {"seconds from now", "seconds"}, n : 0..U32Max + 20]

Listable == {RelHeight(0), RelHeight(3), RelTime(0), RelTime(3), AbsHeight(0),
             AbsHeight(5), AbsTime(StartOfTime), AbsTime(StartOfTime + 5)}
SwapTasks == [kind : {"swap"}, locks : SUBSET Listable]

\* Coins of one and two ranges, in the order of their sats and not.
Coins == {<<<<3, 5>>>>, <<<<3, 7>>>>, <<<<3, 8>>>>, <<<<1, 3>>, <<6, 8>>>>,
          <<<<1, 4>>, <<6, 10>>>>, <<<<1, 2>>, <<4, 5>>, <<6, 8>>>>, <<<<6, 8>>, <<1, 4>>>>}

SplitTasks == [kind : {"split"}, ranges : Coins, amounts : SeqsUpTo(1..3, 3)]

Payouts == {<<>>} \cup {<<n>> : n \in 1..3} \cup {<<2, 1>>, <<3, 1>>, <<2, 2>>, <<2, 0>>}
PlanTasks ==
    UNION {[kind : {"plan"}, ranges : {coin},
            spec : [payouts : Payouts, payins : {<<>>, <<2>>}, fees : 0..1,
                    ordinals : {S \in SUBSET SatsOf(coin) : Cardinality(S) <= 2}]] :
             coin \in Coins}

SellTasks ==
    [kind : {"sell"}, ranges : Coins, ord : 1..8, sale : {[amount |-> 3, change |-> 2]}]

Fragments == {Reserve(w) : w \in MCReserved} \cup {Branch(n) : n \in MCNumerals} \cup
             {Named(<<>>), Named(<<"a">>), Named(<<"_", "2">>)}
PathTasks == [kind : {"path"}, fragments : SeqsUpTo(Fragments, 3) \ {<<>>}]
TextTasks ==
    [kind : {"text"}, text : SeqsUpTo({"@root", "a", "0", "2", "#", "/", "-"}, 3)]

ConfigTasks == [kind : {"config"}, file : [Networks -> Entries]]
EmulatorTasks == [kind : {"emulators"}, n : 0..3, threshold : 0..4]

\* Alice has one extended key, Bob two; "N" is a key nobody has.
MCHolders == {"alice", "bob"}
MCKeysOf ==
    [alice |-> <<[print |-> 2, own |-> "A", child |-> [m |-> "A", p |-> "A1"]]>>,
     bob |-> <<[print |-> 3, own |-> "B", child |-> [m |-> "B", p |-> "B1"]],
               [print |-> 1, own |-> "C", child |-> [m |-> "C", q |-> "C1"]]>>]

From(leaves, print, path) == [leaves |-> leaves, print |-> print, path |-> path]
Input(internal, origins, needs) ==
    [utxo |-> TRUE, internal |-> internal, origins |-> origins, needs |-> needs,
     sigs |-> {}]

Inputs ==
    {Input("A", [B1 |-> From({"l"}, 3, "p")], [l |-> {"B1"}]),
     Input("N", [A1 |-> From({"l"}, 2, "p"), B1 |-> From({"l"}, 3, "p"),
                 C |-> From({"k"}, 1, "m")], [l |-> {"A1", "B1"}, k |-> {"C"}]),
     Input("N", [A |-> From({"l"}, 2, "m"), N |-> From({"l"}, 3, "p")],
           [l |-> {"A", "N"}, k |-> {"N"}]),
     Input("C1", [C1 |-> From({}, 1, "q"), A |-> From({"k"}, 2, "m")],
           [k |-> {"A", "N"}]),
     Input("N", [A |-> From({"l"}, 2, "m"), B |-> From({"l"}, 3, "m")],
           [l |-> {"A", "B"}]),
     Input("N", [A1 |-> From({"l", "k"}, 2, "p")], [l |-> {}, k |-> {"A1"}])}
Unfunded == [Input("A", <<>>, <<>>) EXCEPT !.utxo = FALSE]
SignTasks ==
    [kind : {"sign"}, psbt : SeqsUpTo(Inputs, 2) \cup {<<i, Unfunded>> : i \in Inputs}]

MCTasks == UNION {LockTasks, SwapTasks, SplitTasks, PlanTasks, SellTasks, PathTasks,
                  TextTasks, ConfigTasks, EmulatorTasks, SignTasks}
=============================================================================
