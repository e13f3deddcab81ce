----------------------------- MODULE MCBindPsbt -----------------------------
EXTENDS BindPsbt

Obj(path, address, templates) ==
    [root |-> path, address |-> address, max |-> 3, templates |-> templates,
     encodes |-> TRUE]
To(o, amount) == [to |-> o, amount |-> amount]
T(inputs, outs) == [inputs |-> inputs, outs |-> outs]

\* "key" and "key2" are plain addresses: both have the empty path.
MCObject == [
    tree |-> Obj("r", "A", <<"split", "cancel">>),
    left |-> Obj("r/0", "B", <<"pay", "join">>),
    right |-> Obj("r/1", "C", <<"chain">>),
    last |-> Obj("r/1/0", "E", <<>>),
    key |-> Obj("", "K", <<>>),
    key2 |-> Obj("", "L", <<>>),
    plain |-> Obj("p", "P", <<"pay">>),
    fork |-> Obj("f", "F", <<"apart", "quit">>),
    twice |-> Obj("w", "D", <<"both">>),
    data |-> Obj("", "return", <<>>),
    odd |-> [Obj("o", "O", <<"pay">>) EXCEPT !.encodes = FALSE]]
MCTemplate == [
    split |-> T(1, <<To("left", 1), To("right", 2)>>),
    cancel |-> T(3, <<To("key2", 3)>>),
    pay |-> T(1, <<To("key", 1)>>),
    join |-> T(2, <<To("key", 2)>>),
    chain |-> T(2, <<To("last", 2)>>),
    apart |-> T(1, <<To("plain", 1), To("right", 2)>>),
    quit |-> T(3, <<>>),
    both |-> T(1, <<To("plain", 1), To("plain", 2)>>)]
MCRoots == {"tree", "fork", "right", "plain", "twice", "data", "odd"}
MCPayable == {"A", "C", "D", "F", "O", "P"}
MCOutputMaps == {
    [h \in {} |-> <<>>],
    [join |-> <<NoOutPoint, UserCoin>>, chain |-> <<NoOutPoint, NoOutPoint>>],
    [cancel |-> <<NoOutPoint>>]}
MCUserOutputs == {<<Output("A", 2), Output("A", 5)>>, <<Output("x", 1)>>,
                  <<Output("x", 1), Output("C", 3)>>}
MCChangePositions == {-1, 0, 1}
=============================================================================
