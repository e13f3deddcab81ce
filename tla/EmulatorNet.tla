---------------------------- MODULE EmulatorNet ----------------------------
(***************************************************************************)
(* ctv_emulators: processes whose threads sign PSBTs through a federation  *)
(* of remote oracles.  connections/hd.rs (one lazily opened TCP connection *)
(* per oracle, behind a mutex), connections/federated.rs (all oracles, one *)
(* after the other), servers/hd.rs (one task per connection; in debug mode *)
(* one connection at a time and out on any error).                         *)
(*                                                                         *)
(* A PSBT is its transaction and the oracles whose signatures it carries.  *)
(* A connection is <<client, n>>: the n-th process of that client.  It     *)
(* waits in the oracle's accept queue, is served by a task, or is in       *)
(* neither: then the server's end is closed.                               *)
(***************************************************************************)
EXTENDS Naturals, Sequences

CONSTANTS
    Clients,       \* processes with a FederatedEmulatorConnection
    Callers,       \* their threads
    ClientOf,      \* caller -> client
    Oracles,
    Order,         \* client -> its emulators, in the order of the Vec
    Debug,         \* the oracles started with debug = true
    CrashProne,    \* bound: oracles whose process may be killed
    Txs,
    Wants,         \* caller -> the transactions it signs
    Unsignable,    \* transactions an oracle's sign() returns Err for
    MaxProcesses   \* bound, by client: processes it runs in turn

ASSUME EmulatorAssumption ==
    /\ ClientOf \in [Callers -> Clients]
    /\ \A c \in Clients : Order[c] \in Seq(Oracles) /\ Order[c] # <<>>
    /\ Wants \in [Callers -> SUBSET Txs]
    /\ Debug \cup CrashProne \subseteq Oracles /\ Unsignable \subseteq Txs
    /\ MaxProcesses \in [Clients -> Nat \ {0}]
    /\ "none" \notin Callers \cup Txs

VARIABLES
    up,       \* oracle: bind() is running
    queue,    \* oracle: connections not yet accepted
    served,   \* oracle: connections a task is reading
    wire,     \* oracle, connection: the frame in flight on it
    process,  \* client: which process is running
    opened,   \* client, oracle: connection holds Some(stream)
    holder,   \* client, oracle: the caller that has the mutex, or NoCaller
    pc,       \* caller: "idle", "lock", "send" or "wait"
    pos,      \* caller: position in Order of the emulator it is at
    psbt,     \* caller: what it signs, [tx, sigs]
    outcome   \* caller: how the last call ended: "none", "ok" or "err"

oracleVars == <<up, queue, served>>
clientVars == <<process, opened, holder>>
callerVars == <<pc, pos, psbt, outcome>>
vars == <<oracleVars, wire, clientVars, callerVars>>

NoCaller == "none"
Connections == UNION {{c} \X (1..MaxProcesses[c]) : c \in Clients}
Range(s) == {s[i] : i \in DOMAIN s}
NoPSBT == [tx |-> "none", sigs |-> {}]
Silent == [kind |-> "none", tx |-> "none", sigs |-> {}]
Frame(kind, p) == [kind |-> kind, tx |-> p.tx, sigs |-> p.sigs]

At(t) == Order[ClientOf[t]][pos[t]]                \* the oracle t is at
Conn(c) == <<c, process[c]>>
ServerOpen(o, k) == k \in Range(queue[o]) \cup served[o]
----------------------------------------------------------------------------
Init ==
    /\ up = [o \in Oracles |-> TRUE]
    /\ queue = [o \in Oracles |-> <<>>]
    /\ served = [o \in Oracles |-> {}]
    /\ wire = [o \in Oracles |-> [k \in Connections |-> Silent]]
    /\ process = [c \in Clients |-> 1]
    /\ opened = [c \in Clients |-> {}]
    /\ holder = [c \in Clients |-> [o \in Oracles |-> NoCaller]]
    /\ pc = [t \in Callers |-> "idle"]
    /\ pos = [t \in Callers |-> 1]
    /\ psbt = [t \in Callers |-> NoPSBT]
    /\ outcome = [t \in Callers |-> "none"]

\* FederatedEmulatorConnection::sign starts with its first emulator.
StartSign(t, tx) ==
    /\ pc[t] = "idle"
    /\ pc' = [pc EXCEPT ![t] = "lock"]
    /\ psbt' = [psbt EXCEPT ![t] = [tx |-> tx, sigs |-> {}]]
    /\ outcome' = [outcome EXCEPT ![t] = "none"]
    /\ UNCHANGED <<oracleVars, wire, clientVars, pos>>

\* self.connection.lock().await
Lock(t) ==
    /\ pc[t] = "lock"
    /\ holder[ClientOf[t]][At(t)] = NoCaller
    /\ holder' = [holder EXCEPT ![ClientOf[t]][At(t)] = t]
    /\ pc' = [pc EXCEPT ![t] = "send"]
    /\ UNCHANGED <<oracleVars, wire, process, opened, pos, psbt, outcome>>

MutCallFails(t) ==    \* mutant: a failed call keeps the mutex
    /\ pc' = [pc EXCEPT ![t] = "idle"]
    /\ outcome' = [outcome EXCEPT ![t] = "err"]
    /\ psbt' = [psbt EXCEPT ![t] = NoPSBT]
    /\ UNCHANGED <<oracleVars, clientVars, pos>>

\* A `?` in the loop or in the federated for: the guard is dropped and the
\* whole call fails.  The connection stays what it was.
CallFails(t) ==
    /\ holder' = [holder EXCEPT ![ClientOf[t]][At(t)] = NoCaller]
    /\ pc' = [pc EXCEPT ![t] = "idle"]
    /\ outcome' = [outcome EXCEPT ![t] = "err"]
    /\ pos' = [pos EXCEPT ![t] = 1]
    /\ psbt' = [psbt EXCEPT ![t] = NoPSBT]
    /\ UNCHANGED <<oracleVars, process, opened>>

\* The first call opens the connection; the listener's queue takes it.
Connect(t) ==
    LET c == ClientOf[t]
        o == At(t)
    IN
    /\ pc[t] = "send" /\ o \notin opened[c]
    /\ UNCHANGED wire
    /\ \/ ~up[o] /\ CallFails(t)
       \/ /\ up[o]
          /\ opened' = [opened EXCEPT ![c] = @ \cup {o}]
          /\ queue' = [queue EXCEPT ![o] = Append(@, Conn(c))]
          /\ UNCHANGED <<up, served, process, holder, callerVars>>

MutRequest(t) ==   \* mutant: the mutex is released once the request is out
    LET c == ClientOf[t] IN
    /\ pc[t] = "send" /\ At(t) \in opened[c]
    /\ ServerOpen(At(t), Conn(c))
    /\ wire' = [wire EXCEPT ![At(t)][Conn(c)] = Frame("request", psbt[t])]
    /\ pc' = [pc EXCEPT ![t] = "wait"]
    /\ holder' = [holder EXCEPT ![c][At(t)] = NoCaller]
    /\ UNCHANGED <<oracleVars, process, opened, pos, psbt, outcome>>

Request(t) ==
    LET c == ClientOf[t]
        o == At(t)
    IN
    /\ pc[t] = "send" /\ o \in opened[c]
    /\ \/ /\ ~ServerOpen(o, Conn(c))
          /\ CallFails(t) /\ UNCHANGED wire
       \/ /\ ServerOpen(o, Conn(c))
          /\ wire' = [wire EXCEPT ![o][Conn(c)] = Frame("request", psbt[t])]
          /\ pc' = [pc EXCEPT ![t] = "wait"]
          /\ UNCHANGED <<oracleVars, clientVars, pos, psbt, outcome>>

MutCombined(t, answer) == {At(t)}   \* mutant: the signatures are replaced
\* b.combine(answer): union of the signatures
Combined(t, answer) == psbt[t].sigs \cup answer.sigs

MoreEmulators(t) == pos[t] < Len(Order[ClientOf[t]])

\* The response, b.combine(), and on to the next emulator or Ok(b).
Response(t) ==
    LET c == ClientOf[t]
        o == At(t)
        answer == wire[o][Conn(c)]
    IN
    /\ pc[t] = "wait" /\ answer.kind = "response"
    /\ wire' = [wire EXCEPT ![o][Conn(c)] = Silent]
    /\ \/ answer.tx # psbt[t].tx /\ CallFails(t)   \* "Fault Signed PSBT"
       \/ /\ answer.tx = psbt[t].tx
          /\ psbt' = [psbt EXCEPT ![t] = [tx |-> answer.tx,
                                          sigs |-> Combined(t, answer)]]
          /\ holder' = [holder EXCEPT ![c][o] = NoCaller]
          /\ IF MoreEmulators(t)
             THEN /\ pc' = [pc EXCEPT ![t] = "lock"]
                  /\ pos' = [pos EXCEPT ![t] = @ + 1]
                  /\ UNCHANGED outcome
             ELSE /\ pc' = [pc EXCEPT ![t] = "idle"]
                  /\ outcome' = [outcome EXCEPT ![t] = "ok"]
                  /\ pos' = [pos EXCEPT ![t] = 1]
          /\ UNCHANGED <<oracleVars, process, opened>>

\* The server closed the connection before it answered.
Disconnected(t) ==
    LET k == Conn(ClientOf[t]) IN
    /\ pc[t] = "wait"
    /\ ~ServerOpen(At(t), k) /\ wire[At(t)][k].kind # "response"
    /\ CallFails(t) /\ UNCHANGED wire
----------------------------------------------------------------------------
(* The oracle                                                              *)

\* A task ends in an error: its socket is dropped, and in debug mode bind()
\* returns and takes the listener and every connection with it.
TaskFails(o, k) ==
    /\ wire' = [wire EXCEPT ![o] =
         IF o \in Debug THEN [l \in Connections |-> Silent]
         ELSE [@ EXCEPT ![k] = Silent]]
    /\ served' = [served EXCEPT ![o] = IF o \in Debug THEN {} ELSE @ \ {k}]
    /\ queue' = [queue EXCEPT ![o] = IF o \in Debug THEN <<>> ELSE @]
    /\ up' = [up EXCEPT ![o] = o \notin Debug]

\* listener.accept(); in debug mode the previous task is joined first.
Accept(o) ==
    /\ up[o] /\ queue[o] # <<>>
    /\ o \in Debug => served[o] = {}
    /\ queue' = [queue EXCEPT ![o] = Tail(@)]
    /\ served' = [served EXCEPT ![o] = @ \cup {Head(queue[o])}]
    /\ UNCHANGED <<up, wire, clientVars, callerVars>>

Answer(o, p) == [kind |-> "response", tx |-> p.tx, sigs |-> p.sigs \cup {o}]

\* handle(): sign the request and answer, or end the task.
Handle(o, k) ==
    /\ k \in served[o] /\ wire[o][k].kind = "request"
    /\ UNCHANGED <<clientVars, callerVars>>
    /\ \/ wire[o][k].tx \in Unsignable /\ TaskFails(o, k)
       \/ /\ wire[o][k].tx \notin Unsignable
          /\ wire' = [wire EXCEPT ![o][k] = Answer(o, @)]
          /\ UNCHANGED oracleVars

\* The task has read all there is and meets end-of-file: the process at the
\* other end is gone.
HangUp(o, k) ==
    /\ k \in served[o] /\ wire[o][k].kind # "request"
    /\ k[2] # process[k[1]]
    /\ TaskFails(o, k)
    /\ UNCHANGED <<clientVars, callerVars>>

\* The oracle's process dies.  An answer already sent may still arrive.
Crash(o) ==
    /\ up[o] /\ o \in CrashProne
    /\ up' = [up EXCEPT ![o] = FALSE]
    /\ queue' = [queue EXCEPT ![o] = <<>>]
    /\ served' = [served EXCEPT ![o] = {}]
    /\ \E arrive \in SUBSET {k \in Connections :
                               wire[o][k].kind = "response"} :
         wire' = [wire EXCEPT ![o] =
                    [k \in Connections |->
                       IF k \in arrive THEN @[k] ELSE Silent]]
    /\ UNCHANGED <<clientVars, callerVars>>

RestartOracle(o) ==
    /\ ~up[o]
    /\ up' = [up EXCEPT ![o] = TRUE]
    /\ UNCHANGED <<queue, served, wire, clientVars, callerVars>>

\* A client process ends, whatever its threads are doing, and a new one runs.
RestartClient(c) ==
    LET mine == {t \in Callers : ClientOf[t] = c} IN
    /\ process[c] < MaxProcesses[c]
    /\ process' = [process EXCEPT ![c] = @ + 1]
    /\ opened' = [opened EXCEPT ![c] = {}]
    /\ holder' = [holder EXCEPT ![c] = [o \in Oracles |-> NoCaller]]
    /\ pc' = [t \in Callers |-> IF t \in mine THEN "idle" ELSE pc[t]]
    /\ pos' = [t \in Callers |-> IF t \in mine THEN 1 ELSE pos[t]]
    /\ outcome' = [t \in Callers |-> IF t \in mine THEN "none" ELSE outcome[t]]
    /\ psbt' = [t \in Callers |-> IF t \in mine THEN NoPSBT ELSE psbt[t]]
    /\ UNCHANGED <<oracleVars, wire>>

CallStep(t) == Lock(t) \/ Connect(t) \/ Request(t) \/ Response(t)
               \/ Disconnected(t)
TaskStep(o, k) == Handle(o, k) \/ HangUp(o, k)

Next ==
    \/ \E t \in Callers :
         \/ \E tx \in Wants[t] : StartSign(t, tx)
         \/ CallStep(t)
    \/ \E o \in Oracles :
         \/ Accept(o) \/ Crash(o) \/ RestartOracle(o)
         \/ \E k \in Connections : TaskStep(o, k)
    \/ \E c \in Clients : RestartClient(c)

Spec == Init /\ [][Next]_vars

\* The runtime runs every task and delivers what is sent; tokio's mutex is
\* first come, first served, so a caller gets it in the end (strong fairness;
\* its other steps stay enabled until taken).  Nobody has to restart an
\* oracle or to sign.
Fairness ==
    /\ \A t \in Callers : SF_vars(CallStep(t))
    /\ \A o \in Oracles :
         /\ WF_vars(Accept(o))
         /\ \A k \in Connections : WF_vars(TaskStep(o, k))

FairSpec == Spec /\ Fairness
----------------------------------------------------------------------------
PSBT == [tx : Txs, sigs : SUBSET Oracles]
Frames == {Silent} \cup [kind : {"request", "response"}, tx : Txs,
                         sigs : SUBSET Oracles]

\* Every variable has the type of the state it stands for.
TypeOK ==
    /\ up \in [Oracles -> BOOLEAN]
    /\ queue \in [Oracles -> Seq(Connections)]
    /\ served \in [Oracles -> SUBSET Connections]
    /\ wire \in [Oracles -> [Connections -> Frames]]
    /\ process \in [Clients -> Nat]
    /\ \A c \in Clients : Conn(c) \in Connections
    /\ opened \in [Clients -> SUBSET Oracles]
    /\ holder \in [Clients -> [Oracles -> Callers \cup {NoCaller}]]
    /\ pc \in [Callers -> {"idle", "lock", "send", "wait"}]
    /\ pos \in [Callers -> Nat]
    /\ \A t \in Callers : pos[t] \in DOMAIN Order[ClientOf[t]]
    /\ psbt \in [Callers -> PSBT \cup {NoPSBT}]
    /\ outcome \in [Callers -> {"none", "ok", "err"}]

\* The mutex: one caller of a process at a time uses its connection to an
\* oracle, from the request to the response.
OneUserPerConnection ==
    \A t \in Callers :
        pc[t] \in {"send", "wait"} => holder[ClientOf[t]][At(t)] = t

\* Threads of one process share a connection and frames carry no request
\* number, yet the answer a caller is about to read is the answer to its own
\* request, with all the signatures it sent and the oracle's.
AnswersAreMine ==
    \A t \in Callers :
        LET answer == wire[At(t)][Conn(ClientOf[t])] IN
        (pc[t] = "wait" /\ answer.kind = "response") =>
            /\ answer.tx = psbt[t].tx
            /\ answer.sigs = psbt[t].sigs \cup {At(t)}

\* A server started in debug mode has one connection at a time, across
\* crashes of either side; a server that is down has none.
DebugServesOne ==
    \A o \in Oracles :
        /\ o \in Debug => \A k, l \in served[o] : k = l
        /\ ~up[o] => queue[o] = <<>> /\ served[o] = {}

\* Federated signing keeps the promise of the trait to each of its callers,
\* whatever the other threads and processes and the oracles do.
Ended == [none |-> "idle", ok |-> "signed", err |-> "failed"]
Job(t) ==
    [status |-> IF pc[t] # "idle" THEN "busy" ELSE Ended[outcome[t]],
     tx |-> psbt[t].tx, sigs |-> psbt[t].sigs]
Signing == INSTANCE SigningService
    WITH job <- [t \in Callers |-> Job(t)],
         Needed <- [t \in Callers |-> Range(Order[ClientOf[t]])]
SigningSpec == Signing!Spec

\* Somebody else's connection keeps a debug server busy: it is joined first.
BehindDebug(t) ==
    \E o \in Debug : \E k \in served[o] : k # Conn(ClientOf[t])

\* A call of sign returns, whatever crashes: no caller waits for a mutex, a
\* connection or an answer for ever, unless a debug server it may need keeps
\* serving another process.
CallsReturn ==
    \A t \in Callers :
        <>[]~BehindDebug(t) => [](pc[t] # "idle" => <>(pc[t] = "idle"))
----------------------------------------------------------------------------
(* What comments of the code say and the code does not do.                 *)

\* "connection to the reconnect SocketAddr", and a loop that connects: a
\* caller that keeps trying, with oracles that are back for good and
\* transactions they sign, is served again.
SignsAgain ==
    \A t \in Callers :
        (/\ \A o \in Range(Order[ClientOf[t]]) : <>[]up[o]
         /\ []<>(pc[t] = "send" /\ psbt[t].tx \notin Unsignable))
            => []<>(outcome[t] = "ok")
=============================================================================
