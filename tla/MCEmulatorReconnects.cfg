SPECIFICATION FairSpec
CONSTANTS
    Clients <- MCClients
    Callers <- MCCallers
    ClientOf <- MCClientOf
    Oracles = {"o1", "o2"}
    Order <- MCOrder
    Debug = {}
    CrashProne = {"o2"}
    Txs = {"x", "y", "bad"}
    Wants <- MCWants
    Unsignable = {"bad"}
    MaxProcesses <- MCMaxProcesses
PROPERTIES
    SignsAgain
