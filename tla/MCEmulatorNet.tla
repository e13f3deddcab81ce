--------------------------- MODULE MCEmulatorNet ---------------------------
EXTENDS EmulatorNet

\* Client 1 has two threads; client 2 signs with both oracles.
MCClients == {1, 2}
MCCallers == {"t1", "t2", "t3"}
MCClientOf == [t1 |-> 1, t2 |-> 1, t3 |-> 2]
MCOrder == <<<<"o1">>, <<"o2", "o1">>>>
MCWants == [t1 |-> {"x"}, t2 |-> {"y"}, t3 |-> {"x", "bad"}]
MCMaxProcesses == <<1, 2>>
=============================================================================
