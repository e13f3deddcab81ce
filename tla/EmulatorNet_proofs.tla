------------------------- MODULE EmulatorNet_proofs -------------------------
(***************************************************************************)
(* The emulator network for any clients, threads, oracles and order of     *)
(* oracles: connections are used by one caller at a time, answers reach    *)
(* the caller they are for, and signing implements SigningService.         *)
(***************************************************************************)
EXTENDS EmulatorNet, TLAPS

\* What a call has when it is at its pos-th oracle: a transaction signed by
\* the oracles before it.
SignedSoFar(t) == {Order[ClientOf[t]][i] : i \in 1..(pos[t] - 1)}

CallsInOrder ==
    \A t \in Callers :
        /\ pc[t] = "idle" => pos[t] = 1
        /\ pc[t] # "idle" => psbt[t] \in PSBT /\ psbt[t].sigs = SignedSoFar(t)

\* AnswersAreMine is not inductive without its counterpart for the request
\* the answer is made from.
RequestsAreMine ==
    \A t \in Callers :
        LET frame == wire[At(t)][Conn(ClientOf[t])] IN
        (pc[t] = "wait" /\ frame.kind = "request") =>
            frame.tx = psbt[t].tx /\ frame.sigs = psbt[t].sigs

IInv ==
    /\ TypeOK
    /\ CallsInOrder
    /\ OneUserPerConnection
    /\ RequestsAreMine
    /\ AnswersAreMine

\* The oracle a caller is at, and the connection it uses for it.
LEMMA CallerPlace ==
    ASSUME TypeOK, NEW t \in Callers
    PROVE  /\ ClientOf[t] \in Clients
           /\ At(t) \in Oracles
           /\ Conn(ClientOf[t]) \in Connections
<1>1. ClientOf[t] \in Clients
  BY EmulatorAssumption
<1>2. Order[ClientOf[t]] \in Seq(Oracles) /\ pos[t] \in DOMAIN Order[ClientOf[t]]
  BY <1>1, EmulatorAssumption DEF TypeOK
<1>3. At(t) \in Oracles
  BY <1>2 DEF At
<1>4. QED
  BY <1>1, <1>3 DEF TypeOK

\* Every client has a first oracle, so a call can start at position 1.
LEMMA FirstPosition ==
    ASSUME NEW t \in Callers
    PROVE  1 \in DOMAIN Order[ClientOf[t]]
<1>1. Order[ClientOf[t]] \in Seq(Oracles) /\ Order[ClientOf[t]] # <<>>
  BY EmulatorAssumption
<1>2. QED
  BY <1>1

\* The first process of every client has a connection of its own.
LEMMA FirstProcess ==
    ASSUME NEW c \in Clients, NEW n \in 1..MaxProcesses[c]
    PROVE  <<c, n>> \in Connections
BY DEF Connections

LEMMA SilentIsFrame == Silent \in Frames
BY DEF Frames

LEMMA InitInv == Init => IInv
<1> SUFFICES ASSUME Init PROVE IInv
  OBVIOUS
<1> USE EmulatorAssumption
<1>1. TypeOK
  <2>1. wire \in [Oracles -> [Connections -> Frames]]
    BY SilentIsFrame DEF Init
  <2>2. \A c \in Clients : Conn(c) \in Connections
    <3> TAKE c \in Clients
    <3>1. 1 \in 1..MaxProcesses[c]
      OBVIOUS
    <3>2. process[c] = 1
      BY DEF Init
    <3>3. QED
      BY <3>1, <3>2, FirstProcess DEF Conn
  <2>3. \A t \in Callers : pos[t] \in DOMAIN Order[ClientOf[t]]
    BY FirstPosition DEF Init
  <2>4. queue \in [Oracles -> Seq(Connections)]
    BY DEF Init
  <2>5. QED
    BY <2>1, <2>2, <2>3, <2>4 DEF Init, TypeOK, NoCaller
<1>2. CallsInOrder
  BY DEF Init, CallsInOrder
<1>3. OneUserPerConnection /\ RequestsAreMine /\ AnswersAreMine
  BY DEF Init, OneUserPerConnection, RequestsAreMine, AnswersAreMine
<1>4. QED
  BY <1>1, <1>2, <1>3 DEF IInv
----------------------------------------------------------------------------
LEMMA CallFailsType ==
    ASSUME TypeOK, NEW t \in Callers, CallFails(t), UNCHANGED wire
    PROVE  TypeOK'
<1>1. 1 \in DOMAIN Order[ClientOf[t]]
  BY FirstPosition
<1>2. \A s \in Callers : pos'[s] \in DOMAIN Order[ClientOf[s]]
  BY <1>1 DEF CallFails, TypeOK
<1>3. \A c \in Clients : Conn(c)' \in Connections
  BY DEF CallFails, TypeOK, Conn
<1>4. ClientOf[t] \in Clients /\ At(t) \in Oracles
  BY CallerPlace
<1>5. holder' \in [Clients -> [Oracles -> Callers \cup {NoCaller}]]
  BY <1>4 DEF CallFails, TypeOK
<1>6. QED
  BY <1>2, <1>3, <1>5 DEF CallFails, TypeOK, oracleVars

LEMMA TaskFailsType ==
    ASSUME TypeOK, NEW o \in Oracles, NEW k \in Connections, TaskFails(o, k),
           UNCHANGED <<clientVars, callerVars>>
    PROVE  TypeOK'
<1>1. wire' \in [Oracles -> [Connections -> Frames]]
  BY SilentIsFrame DEF TaskFails, TypeOK
<1>2. queue' \in [Oracles -> Seq(Connections)]
  BY DEF TaskFails, TypeOK
<1>3. served' \in [Oracles -> SUBSET Connections]
  BY DEF TaskFails, TypeOK
<1>4. up' \in [Oracles -> BOOLEAN]
  BY DEF TaskFails, TypeOK
<1>5. \A c \in Clients : Conn(c)' \in Connections
  BY DEF TypeOK, Conn, clientVars
<1>6. QED
  BY <1>1, <1>2, <1>3, <1>4, <1>5 DEF TypeOK, clientVars, callerVars

LEMMA TypeStep ==
    ASSUME IInv, [Next]_vars
    PROVE  TypeOK'
<1> USE EmulatorAssumption DEF IInv
<1>1. ASSUME NEW t \in Callers, NEW tx \in Wants[t], StartSign(t, tx)
      PROVE  TypeOK'
  <2>1. [tx |-> tx, sigs |-> {}] \in PSBT
    BY DEF PSBT
  <2>2. \A c \in Clients : Conn(c)' \in Connections
    BY <1>1 DEF StartSign, TypeOK, Conn, clientVars
  <2>3. QED
    BY <1>1, <2>1, <2>2 DEF StartSign, TypeOK, oracleVars, clientVars
<1>2. ASSUME NEW t \in Callers, Lock(t) PROVE TypeOK'
  <2>1. holder' \in [Clients -> [Oracles -> Callers \cup {NoCaller}]]
    BY <1>2, CallerPlace DEF Lock, TypeOK
  <2>2. \A c \in Clients : Conn(c)' \in Connections
    BY <1>2 DEF Lock, TypeOK, Conn
  <2>3. QED
    BY <1>2, <2>1, <2>2 DEF Lock, TypeOK, oracleVars
<1>3. ASSUME NEW t \in Callers, Connect(t) PROVE TypeOK'
  <2>1. CASE CallFails(t)
    BY <1>3, <2>1, CallFailsType DEF Connect
  <2>2. CASE ~CallFails(t)
    <3>1. queue' = [queue EXCEPT ![At(t)] = Append(@, Conn(ClientOf[t]))]
          /\ opened' = [opened EXCEPT ![ClientOf[t]] = @ \cup {At(t)}]
          /\ UNCHANGED <<wire, up, served, process, holder, callerVars>>
      BY <1>3, <2>2 DEF Connect
    <3>2. ClientOf[t] \in Clients /\ At(t) \in Oracles
          /\ Conn(ClientOf[t]) \in Connections
      BY CallerPlace
    <3>3. queue' \in [Oracles -> Seq(Connections)]
      BY <3>1, <3>2 DEF TypeOK
    <3>4. opened' \in [Clients -> SUBSET Oracles]
      BY <3>1, <3>2 DEF TypeOK
    <3>5. \A c \in Clients : Conn(c)' \in Connections
      BY <3>1 DEF TypeOK, Conn
    <3>6. QED
      BY <3>1, <3>3, <3>4, <3>5 DEF TypeOK, callerVars
  <2>3. QED
    BY <2>1, <2>2
<1>4. ASSUME NEW t \in Callers, Request(t) PROVE TypeOK'
  <2>1. CASE CallFails(t) /\ UNCHANGED wire
    BY <2>1, CallFailsType
  <2>2. CASE ~(CallFails(t) /\ UNCHANGED wire)
    <3>1. /\ wire' = [wire EXCEPT ![At(t)][Conn(ClientOf[t])] =
                        Frame("request", psbt[t])]
          /\ pc' = [pc EXCEPT ![t] = "wait"]
          /\ UNCHANGED <<oracleVars, clientVars, pos, psbt, outcome>>
      BY <1>4, <2>2 DEF Request
    <3>2. psbt[t] \in PSBT
      BY <1>4 DEF Request, CallsInOrder
    <3>3. Frame("request", psbt[t]) \in Frames
      BY <3>2 DEF Frame, Frames, PSBT
    <3>4. wire' \in [Oracles -> [Connections -> Frames]]
      BY <3>1, <3>3, CallerPlace DEF TypeOK
    <3>5. \A c \in Clients : Conn(c)' \in Connections
      BY <3>1 DEF TypeOK, Conn, clientVars
    <3>6. QED
      BY <3>1, <3>4, <3>5 DEF TypeOK, oracleVars, clientVars
  <2>3. QED
    BY <2>1, <2>2
<1>5. ASSUME NEW t \in Callers, Response(t) PROVE TypeOK'
  <2> DEFINE c == ClientOf[t]
             o == At(t)
             answer == wire[o][Conn(c)]
  <2>1. wire' = [wire EXCEPT ![o][Conn(c)] = Silent]
    BY <1>5 DEF Response
  <2>2. /\ c \in Clients /\ o \in Oracles /\ Conn(c) \in Connections
        /\ answer \in Frames
    BY CallerPlace DEF TypeOK
  <2>3. wire' \in [Oracles -> [Connections -> Frames]]
    BY <2>1, <2>2, SilentIsFrame DEF TypeOK
  <2>4. CASE CallFails(t)
    <3>1. \A s \in Callers : pos'[s] \in DOMAIN Order[ClientOf[s]]
      BY <2>4, FirstPosition DEF CallFails, TypeOK
    <3>2. \A d \in Clients : Conn(d)' \in Connections
      BY <2>4 DEF CallFails, TypeOK, Conn
    <3>3. holder' \in [Clients -> [Oracles -> Callers \cup {NoCaller}]]
      BY <2>2, <2>4 DEF CallFails, TypeOK
    <3>4. QED
      BY <2>3, <2>4, <3>1, <3>2, <3>3 DEF CallFails, TypeOK, oracleVars
  <2>5. CASE ~CallFails(t)
    <3>1. /\ psbt' = [psbt EXCEPT ![t] = [tx |-> answer.tx,
                                          sigs |-> Combined(t, answer)]]
          /\ holder' = [holder EXCEPT ![c][o] = NoCaller]
          /\ IF MoreEmulators(t)
             THEN /\ pc' = [pc EXCEPT ![t] = "lock"]
                  /\ pos' = [pos EXCEPT ![t] = @ + 1]
                  /\ UNCHANGED outcome
             ELSE /\ pc' = [pc EXCEPT ![t] = "idle"]
                  /\ outcome' = [outcome EXCEPT ![t] = "ok"]
                  /\ pos' = [pos EXCEPT ![t] = 1]
          /\ UNCHANGED <<oracleVars, process, opened>>
      BY <1>5, <2>5 DEF Response
    <3>2. psbt[t] \in PSBT
      BY <1>5 DEF Response, CallsInOrder
    <3>3. Combined(t, answer) \in SUBSET Oracles
      BY <2>2, <3>2 DEF Combined, PSBT, Frames, Silent
    <3>4. psbt' \in [Callers -> PSBT \cup {NoPSBT}]
      <4>1. answer.tx = psbt[t].tx
        BY <1>5, <2>5 DEF Response
      <4>2. [tx |-> answer.tx, sigs |-> Combined(t, answer)] \in PSBT
        BY <3>2, <3>3, <4>1 DEF PSBT
      <4>3. QED
        BY <3>1, <4>2 DEF TypeOK
    <3>5. pos' \in [Callers -> Nat]
          /\ \A s \in Callers : pos'[s] \in DOMAIN Order[ClientOf[s]]
      <4>1. Order[c] \in Seq(Oracles) /\ pos[t] \in 1..Len(Order[c])
        BY <2>2 DEF TypeOK
      <4>2. pos[t] + 1 \in 1..Len(Order[c]) \/ ~MoreEmulators(t)
        BY <4>1 DEF MoreEmulators
      <4>3. CASE MoreEmulators(t)
        <5>1. pos' = [pos EXCEPT ![t] = pos[t] + 1]
          BY <3>1, <4>3
        <5>2. pos[t] + 1 \in DOMAIN Order[ClientOf[t]]
          BY <4>1, <4>2, <4>3
        <5>3. pos[t] + 1 \in Nat /\ pos \in [Callers -> Nat]
              /\ \A s \in Callers : pos[s] \in DOMAIN Order[ClientOf[s]]
          BY <4>1 DEF TypeOK
        <5>4. QED
          BY <5>1, <5>2, <5>3
      <4>4. CASE ~MoreEmulators(t)
        BY <3>1, <4>4, FirstPosition DEF TypeOK
      <4>5. QED
        BY <4>3, <4>4
    <3>6. holder' \in [Clients -> [Oracles -> Callers \cup {NoCaller}]]
      BY <2>2, <3>1 DEF TypeOK
    <3>7. \A d \in Clients : Conn(d)' \in Connections
      BY <3>1 DEF TypeOK, Conn
    <3>8. pc' \in [Callers -> {"idle", "lock", "send", "wait"}]
          /\ outcome' \in [Callers -> {"none", "ok", "err"}]
      BY <3>1 DEF TypeOK
    <3>9. UNCHANGED <<up, queue, served, process, opened>>
      BY <3>1 DEF oracleVars
    <3>10. QED
      BY <2>3, <3>4, <3>5, <3>6, <3>7, <3>8, <3>9 DEF TypeOK
  <2>6. QED
    BY <2>4, <2>5
<1>6. ASSUME NEW t \in Callers, Disconnected(t) PROVE TypeOK'
  BY <1>6, CallFailsType DEF Disconnected
<1>7. ASSUME NEW o \in Oracles, Accept(o) PROVE TypeOK'
  <2>1. queue[o] \in Seq(Connections) /\ queue[o] # <<>>
    BY <1>7 DEF Accept, TypeOK
  <2>2. Head(queue[o]) \in Connections /\ Tail(queue[o]) \in Seq(Connections)
    BY <2>1
  <2>3. queue' \in [Oracles -> Seq(Connections)]
        /\ served' \in [Oracles -> SUBSET Connections]
    BY <1>7, <2>2 DEF Accept, TypeOK
  <2>4. \A c \in Clients : Conn(c)' \in Connections
    BY <1>7 DEF Accept, TypeOK, Conn, clientVars
  <2>5. QED
    BY <1>7, <2>3, <2>4 DEF Accept, TypeOK, clientVars, callerVars
<1>8. ASSUME NEW o \in Oracles, NEW k \in Connections, Handle(o, k)
      PROVE  TypeOK'
  <2>1. CASE TaskFails(o, k)
    BY <1>8, <2>1, TaskFailsType DEF Handle
  <2>2. CASE ~TaskFails(o, k)
    <3>1. wire' = [wire EXCEPT ![o][k] = Answer(o, @)]
          /\ UNCHANGED <<oracleVars, clientVars, callerVars>>
      BY <1>8, <2>2 DEF Handle
    <3>2. wire[o][k] \in Frames /\ wire[o][k].kind = "request"
      BY <1>8 DEF Handle, TypeOK
    <3>3. Answer(o, wire[o][k]) \in Frames
      BY <3>2 DEF Answer, Frames, Silent
    <3>4. wire' \in [Oracles -> [Connections -> Frames]]
      BY <3>1, <3>3 DEF TypeOK
    <3>5. \A c \in Clients : Conn(c)' \in Connections
      BY <3>1 DEF TypeOK, Conn, clientVars
    <3>6. QED
      BY <3>1, <3>4, <3>5 DEF TypeOK, oracleVars, clientVars, callerVars
  <2>3. QED
    BY <2>1, <2>2
<1>9. ASSUME NEW o \in Oracles, NEW k \in Connections, HangUp(o, k)
      PROVE  TypeOK'
  BY <1>9, TaskFailsType DEF HangUp
<1>10. ASSUME NEW o \in Oracles, Crash(o) PROVE TypeOK'
  <2>1. PICK arrive \in SUBSET Connections :
          wire' = [wire EXCEPT ![o] =
                     [k \in Connections |-> IF k \in arrive THEN @[k]
                                            ELSE Silent]]
    BY <1>10 DEF Crash
  <2>2. wire' \in [Oracles -> [Connections -> Frames]]
    BY <2>1, SilentIsFrame DEF TypeOK
  <2>3. queue' \in [Oracles -> Seq(Connections)]
        /\ served' \in [Oracles -> SUBSET Connections]
        /\ up' \in [Oracles -> BOOLEAN]
    BY <1>10 DEF Crash, TypeOK
  <2>4. \A c \in Clients : Conn(c)' \in Connections
    BY <1>10 DEF Crash, TypeOK, Conn, clientVars
  <2>5. QED
    BY <1>10, <2>2, <2>3, <2>4 DEF Crash, TypeOK, clientVars, callerVars
<1>11. ASSUME NEW o \in Oracles, RestartOracle(o) PROVE TypeOK'
  <2>1. \A c \in Clients : Conn(c)' \in Connections
    BY <1>11 DEF RestartOracle, TypeOK, Conn, clientVars
  <2>2. QED
    BY <1>11, <2>1 DEF RestartOracle, TypeOK, clientVars, callerVars
<1>12. ASSUME NEW c \in Clients, RestartClient(c) PROVE TypeOK'
  <2>1. process[c] + 1 \in 1..MaxProcesses[c]
    BY <1>12 DEF RestartClient, TypeOK
  <2>2. process' \in [Clients -> Nat]
    BY <1>12 DEF RestartClient, TypeOK
  <2>3. \A d \in Clients : Conn(d)' \in Connections
    BY <1>12, <2>1, FirstProcess DEF RestartClient, TypeOK, Conn
  <2>4. pos' \in [Callers -> Nat]
        /\ \A t \in Callers : pos'[t] \in DOMAIN Order[ClientOf[t]]
    BY <1>12, FirstPosition DEF RestartClient, TypeOK
  <2>5. holder' \in [Clients -> [Oracles -> Callers \cup {NoCaller}]]
    BY <1>12 DEF RestartClient, TypeOK
  <2>6. QED
    BY <1>12, <2>2, <2>3, <2>4, <2>5 DEF RestartClient, TypeOK, oracleVars
<1>13. CASE UNCHANGED vars
  <2>1. \A c \in Clients : Conn(c)' \in Connections
    BY <1>13 DEF vars, clientVars, TypeOK, Conn
  <2>2. QED
    BY <1>13, <2>1 DEF vars, oracleVars, clientVars, callerVars, TypeOK
<1>14. QED
  BY <1>1, <1>2, <1>3, <1>4, <1>5, <1>6, <1>7, <1>8, <1>9, <1>10, <1>11,
     <1>12, <1>13
     DEF Next, CallStep, TaskStep
----------------------------------------------------------------------------
\* Whoever is past the lock is the only one in its cell.
LEMMA AloneAtOracle ==
    ASSUME OneUserPerConnection,
           NEW s \in Callers, NEW t \in Callers,
           pc[s] \in {"send", "wait"}, pc[t] \in {"send", "wait"},
           ClientOf[s] = ClientOf[t], At(s) = At(t)
    PROVE  s = t
BY DEF OneUserPerConnection

LEMMA CallFailsOneUser ==
    ASSUME TypeOK, OneUserPerConnection,
           NEW t \in Callers, CallFails(t), pc[t] \in {"send", "wait"}
    PROVE  OneUserPerConnection'
<1> SUFFICES ASSUME NEW s \in Callers, pc'[s] \in {"send", "wait"}
             PROVE  holder'[ClientOf[s]][At(s)'] = s
  BY DEF OneUserPerConnection
<1>1. s # t /\ pc[s] = pc'[s]
  BY DEF CallFails, TypeOK
<1>2. At(s)' = At(s)
  BY <1>1 DEF CallFails, TypeOK, At
<1>3. ~(ClientOf[s] = ClientOf[t] /\ At(s) = At(t))
  BY <1>1, AloneAtOracle
<1>4. holder[ClientOf[s]][At(s)] = s
  BY <1>1 DEF OneUserPerConnection
<1>5. holder' = [holder EXCEPT ![ClientOf[t]][At(t)] = NoCaller]
  BY DEF CallFails
<1>6. QED
  BY <1>2, <1>3, <1>4, <1>5, CallerPlace DEF TypeOK

LEMMA OneUserStep ==
    ASSUME IInv, [Next]_vars
    PROVE  OneUserPerConnection'
<1> USE EmulatorAssumption DEF IInv
<1>1. ASSUME NEW t \in Callers, NEW tx \in Wants[t], StartSign(t, tx)
      PROVE  OneUserPerConnection'
  BY <1>1 DEF StartSign, OneUserPerConnection, TypeOK, At, clientVars
<1>2. ASSUME NEW t \in Callers, Lock(t) PROVE OneUserPerConnection'
  <2> SUFFICES ASSUME NEW s \in Callers, pc'[s] \in {"send", "wait"}
               PROVE  holder'[ClientOf[s]][At(s)'] = s
    BY DEF OneUserPerConnection
  <2>1. At(s)' = At(s) /\ holder[ClientOf[t]][At(t)] = NoCaller
        /\ holder' = [holder EXCEPT ![ClientOf[t]][At(t)] = t]
    BY <1>2 DEF Lock, At
  <2>2. CASE s = t
    BY <2>1, <2>2, CallerPlace DEF TypeOK
  <2>3. CASE s # t
    <3>1. pc[s] \in {"send", "wait"}
      BY <1>2, <2>3 DEF Lock, TypeOK
    <3>2. holder[ClientOf[s]][At(s)] = s /\ s # NoCaller
      BY <3>1 DEF OneUserPerConnection, NoCaller
    <3>3. QED
      BY <2>1, <3>2, CallerPlace DEF TypeOK
  <2>4. QED
    BY <2>2, <2>3
<1>3. ASSUME NEW t \in Callers, Connect(t) PROVE OneUserPerConnection'
  <2>1. CASE CallFails(t)
    BY <1>3, <2>1, CallFailsOneUser DEF Connect
  <2>2. CASE UNCHANGED <<up, served, process, holder, callerVars>>
    BY <2>2 DEF OneUserPerConnection, At, callerVars
  <2>3. QED
    BY <1>3, <2>1, <2>2 DEF Connect
<1>4. ASSUME NEW t \in Callers, Request(t) PROVE OneUserPerConnection'
  <2>1. CASE CallFails(t)
    BY <1>4, <2>1, CallFailsOneUser DEF Request
  <2>2. CASE /\ pc' = [pc EXCEPT ![t] = "wait"]
             /\ UNCHANGED <<oracleVars, clientVars, pos, psbt, outcome>>
    BY <1>4, <2>2 DEF Request, OneUserPerConnection, TypeOK, At, clientVars
  <2>3. QED
    BY <1>4, <2>1, <2>2 DEF Request
<1>5. ASSUME NEW t \in Callers, Response(t) PROVE OneUserPerConnection'
  <2>1. CASE CallFails(t)
    BY <1>5, <2>1, CallFailsOneUser DEF Response
  <2>2. CASE ~CallFails(t)
    <3> SUFFICES ASSUME NEW s \in Callers, pc'[s] \in {"send", "wait"}
                 PROVE  holder'[ClientOf[s]][At(s)'] = s
      BY DEF OneUserPerConnection
    <3>1. holder' = [holder EXCEPT ![ClientOf[t]][At(t)] = NoCaller]
          /\ pc[t] = "wait"
      BY <1>5, <2>2 DEF Response
    <3>2. s # t /\ pc[s] = pc'[s] /\ pos[s] = pos'[s]
      BY <1>5, <2>2 DEF Response, TypeOK
    <3>3. At(s)' = At(s)
      BY <3>2 DEF At
    <3>4. ~(ClientOf[s] = ClientOf[t] /\ At(s) = At(t))
      BY <3>1, <3>2, AloneAtOracle
    <3>5. holder[ClientOf[s]][At(s)] = s
      BY <3>2 DEF OneUserPerConnection
    <3>6. QED
      BY <3>1, <3>3, <3>4, <3>5, CallerPlace DEF TypeOK
  <2>3. QED
    BY <2>1, <2>2
<1>6. ASSUME NEW t \in Callers, Disconnected(t) PROVE OneUserPerConnection'
  BY <1>6, CallFailsOneUser DEF Disconnected
<1>7. CASE UNCHANGED <<clientVars, callerVars>>
  BY <1>7 DEF OneUserPerConnection, At, clientVars, callerVars
<1>8. ASSUME NEW c \in Clients, RestartClient(c) PROVE OneUserPerConnection'
  <2> SUFFICES ASSUME NEW s \in Callers, pc'[s] \in {"send", "wait"}
               PROVE  holder'[ClientOf[s]][At(s)'] = s
    BY DEF OneUserPerConnection
  <2>1. ClientOf[s] # c /\ pc'[s] = pc[s] /\ pos'[s] = pos[s]
    BY <1>8 DEF RestartClient
  <2>2. At(s)' = At(s) /\ holder'[ClientOf[s]] = holder[ClientOf[s]]
    BY <1>8, <2>1 DEF RestartClient, At, TypeOK
  <2>3. QED
    BY <2>1, <2>2 DEF OneUserPerConnection
<1>9. CASE UNCHANGED vars
  BY <1>9 DEF vars, clientVars, callerVars, OneUserPerConnection, At
<1>10. QED
  <2>1. ASSUME NEW o \in Oracles,
               \/ Accept(o) \/ Crash(o) \/ RestartOracle(o)
               \/ \E k \in Connections : TaskStep(o, k)
        PROVE  UNCHANGED <<clientVars, callerVars>>
    BY <2>1 DEF Accept, Crash, RestartOracle, TaskStep, Handle, HangUp
  <2>2. QED
    BY <1>1, <1>2, <1>3, <1>4, <1>5, <1>6, <1>7, <1>8, <1>9, <2>1
       DEF Next, CallStep
----------------------------------------------------------------------------
\* The calls: a signature is added at each oracle, and every call starts over.
LEMMA CallsStep ==
    ASSUME IInv, [Next]_vars
    PROVE  CallsInOrder'
<1> USE EmulatorAssumption DEF IInv
<1> DEFINE InOrder(s) ==
             /\ pc[s] = "idle" => pos[s] = 1
             /\ pc[s] # "idle" =>
                  psbt[s] \in PSBT /\ psbt[s].sigs = SignedSoFar(s)
<1>1. SUFFICES ASSUME NEW s \in Callers PROVE InOrder(s)'
  BY DEF CallsInOrder
<1>2. InOrder(s)
  BY DEF CallsInOrder
<1>3. CASE UNCHANGED <<pc[s], pos[s], psbt[s]>>
  BY <1>2, <1>3 DEF SignedSoFar
<1>4. ASSUME CallFails(s) PROVE InOrder(s)'
  BY <1>4 DEF CallFails, TypeOK
<1>5. ASSUME NEW t \in Callers, s # t, CallFails(t)
      PROVE  UNCHANGED <<pc[s], pos[s], psbt[s]>>
  BY <1>5 DEF CallFails, TypeOK
<1>6. ASSUME NEW t \in Callers, NEW tx \in Wants[t], StartSign(t, tx)
      PROVE  InOrder(s)'
  <2>1. CASE s = t
    <3>1. pos'[s] = 1 /\ pc'[s] # "idle" /\ psbt'[s] = [tx |-> tx, sigs |-> {}]
      BY <1>2, <1>6, <2>1 DEF StartSign, TypeOK
    <3>2. SignedSoFar(s)' = {}
      BY <3>1 DEF SignedSoFar
    <3>3. psbt'[s] \in PSBT
      BY <2>1, <3>1 DEF PSBT
    <3>4. QED
      BY <3>1, <3>2, <3>3
  <2>2. CASE s # t
    BY <1>3, <1>6, <2>2 DEF StartSign, TypeOK
  <2>3. QED
    BY <2>1, <2>2
<1>7. ASSUME NEW t \in Callers,
             pc[t] # "idle", pc' \in {[pc EXCEPT ![t] = "send"],
                                      [pc EXCEPT ![t] = "wait"]},
             UNCHANGED <<pos, psbt>>
      PROVE  InOrder(s)'
  BY <1>2, <1>7 DEF SignedSoFar, TypeOK
<1>8. ASSUME NEW t \in Callers, Response(t) PROVE InOrder(s)'
  <2>1. CASE CallFails(t)
    BY <1>3, <1>4, <1>5, <2>1
  <2>2. CASE ~CallFails(t) /\ s # t
    BY <1>3, <1>8, <2>2 DEF Response, TypeOK
  <2>3. CASE ~CallFails(t) /\ s = t
    <3> DEFINE answer == wire[At(t)][Conn(ClientOf[t])]
    <3>1. /\ psbt' = [psbt EXCEPT ![t] = [tx |-> answer.tx,
                                          sigs |-> Combined(t, answer)]]
          /\ answer.tx = psbt[t].tx
          /\ answer.sigs = psbt[t].sigs \cup {At(t)}
          /\ psbt[t] \in PSBT /\ psbt[t].sigs = SignedSoFar(t)
      BY <1>2, <1>8, <2>3 DEF Response, AnswersAreMine
    <3>2. psbt'[t].sigs = SignedSoFar(t) \cup {At(t)}
      BY <3>1 DEF Combined, TypeOK
    <3>3. psbt'[t] \in PSBT
      BY <3>1, CallerPlace DEF Combined, TypeOK, PSBT
    <3>4. CASE ~MoreEmulators(t)
      BY <1>8, <2>3, <3>4 DEF Response, TypeOK
    <3>5. CASE MoreEmulators(t)
      <4>1. pos'[t] = pos[t] + 1 /\ pc'[t] = "lock" /\ pos[t] \in Nat
            /\ pos[t] \in DOMAIN Order[ClientOf[t]]
        BY <1>8, <2>3, <3>5 DEF Response, TypeOK
      <4>2. pos[t] >= 1
        BY <4>1, CallerPlace
      <4>3. 1..(pos'[t] - 1) = 1..(pos[t] - 1) \cup {pos[t]}
        BY <4>1, <4>2
      <4>4. SignedSoFar(t)' = SignedSoFar(t) \cup {At(t)}
        BY <4>3 DEF SignedSoFar, At
      <4>5. QED
        BY <2>3, <3>2, <3>3, <4>1, <4>4
    <3>6. QED
      BY <3>4, <3>5
  <2>4. QED
    BY <2>1, <2>2, <2>3
<1>9. ASSUME NEW t \in Callers, Lock(t) PROVE InOrder(s)'
  BY <1>7, <1>9 DEF Lock
<1>10. ASSUME NEW t \in Callers, Connect(t) PROVE InOrder(s)'
  BY <1>3, <1>4, <1>5, <1>10 DEF Connect, callerVars
<1>11. ASSUME NEW t \in Callers, Request(t) PROVE InOrder(s)'
  BY <1>3, <1>4, <1>5, <1>7, <1>11 DEF Request
<1>12. ASSUME NEW t \in Callers, Disconnected(t) PROVE InOrder(s)'
  BY <1>3, <1>4, <1>5, <1>12 DEF Disconnected
<1>13. ASSUME NEW c \in Clients, RestartClient(c) PROVE InOrder(s)'
  <2>1. CASE ClientOf[s] = c
    BY <1>13, <2>1 DEF RestartClient
  <2>2. CASE ClientOf[s] # c
    BY <1>3, <1>13, <2>2 DEF RestartClient
  <2>3. QED
    BY <2>1, <2>2
<1>14. ASSUME UNCHANGED callerVars PROVE InOrder(s)'
  BY <1>3, <1>14 DEF callerVars
<1>15. QED
  <2>1. ASSUME NEW o \in Oracles,
               \/ Accept(o) \/ Crash(o) \/ RestartOracle(o)
               \/ \E k \in Connections : TaskStep(o, k)
        PROVE  UNCHANGED callerVars
    BY <2>1 DEF Accept, Crash, RestartOracle, TaskStep, Handle, HangUp
  <2>2. CASE UNCHANGED vars
    BY <1>14, <2>2 DEF vars
  <2>3. QED
    BY <1>6, <1>8, <1>9, <1>10, <1>11, <1>12, <1>13, <1>14, <2>1, <2>2
       DEF Next, CallStep
----------------------------------------------------------------------------
\* The frame on the connection that caller s uses, and what it may be while
\* s waits: its own request, or the answer to it.
FrameOf(s) == wire[At(s)][Conn(ClientOf[s])]
Mine(s) ==
    pc[s] = "wait" =>
        /\ FrameOf(s).kind = "request" =>
             FrameOf(s).tx = psbt[s].tx /\ FrameOf(s).sigs = psbt[s].sigs
        /\ FrameOf(s).kind = "response" =>
             /\ FrameOf(s).tx = psbt[s].tx
             /\ FrameOf(s).sigs = psbt[s].sigs \cup {At(s)}

LEMMA MineIsBoth ==
    (\A s \in Callers : Mine(s)) <=> (RequestsAreMine /\ AnswersAreMine)
BY DEF Mine, FrameOf, RequestsAreMine, AnswersAreMine

\* A caller in the middle of its exchange that is left alone.
Alone(s) == UNCHANGED <<pc[s], pos[s], psbt[s], process[ClientOf[s]]>>

LEMMA AloneKeeps ==
    ASSUME NEW s \in Callers, Mine(s), Alone(s),
           FrameOf(s)' \in {FrameOf(s), Silent}
    PROVE  Mine(s)'
<1>1. At(s)' = At(s)
  BY DEF Alone, At
<1>2. QED
  BY <1>1 DEF Mine, Alone, Silent

LEMMA AloneSameFrame ==
    ASSUME NEW s \in Callers, Alone(s), UNCHANGED wire
    PROVE  FrameOf(s)' = FrameOf(s)
BY DEF Alone, FrameOf, At, Conn

LEMMA AloneFrame ==
    ASSUME TypeOK, NEW s \in Callers, Alone(s),
           \A o \in Oracles, k \in Connections :
               wire'[o][k] \in {wire[o][k], Silent}
    PROVE  FrameOf(s)' \in {FrameOf(s), Silent}
<1>1. FrameOf(s)' = wire'[At(s)][Conn(ClientOf[s])]
  BY DEF Alone, FrameOf, At, Conn
<1>2. QED
  BY <1>1, CallerPlace DEF FrameOf

\* A call that fails ends the exchange of its caller and touches no other.
LEMMA CallFailsMine ==
    ASSUME TypeOK, NEW s \in Callers, NEW t \in Callers, Mine(s),
           CallFails(t),
           s # t => FrameOf(s)' \in {FrameOf(s), Silent} \/ ~Alone(s)
    PROVE  Mine(s)'
<1>1. CASE s = t
  BY <1>1 DEF CallFails, TypeOK, Mine
<1>2. CASE s # t
  <2>1. Alone(s)
    BY <1>2 DEF CallFails, Alone, TypeOK
  <2>2. QED
    BY <1>2, <2>1, AloneKeeps
<1>3. QED
  BY <1>1, <1>2

\* Two callers that wait or send do not share a connection to one oracle.
LEMMA OtherCell ==
    ASSUME TypeOK, OneUserPerConnection,
           NEW s \in Callers, NEW t \in Callers, s # t,
           pc[s] \in {"send", "wait"}, pc[t] \in {"send", "wait"},
           NEW f, wire' = [wire EXCEPT ![At(t)][Conn(ClientOf[t])] = f],
           Alone(s)
    PROVE  FrameOf(s)' = FrameOf(s)
<1>1. FrameOf(s)' = wire'[At(s)][Conn(ClientOf[s])]
  BY DEF Alone, FrameOf, At, Conn
<1>2. At(s) # At(t) \/ Conn(ClientOf[s]) # Conn(ClientOf[t])
  BY AloneAtOracle DEF Conn
<1>3. /\ At(s) \in Oracles /\ Conn(ClientOf[s]) \in Connections
      /\ At(t) \in Oracles /\ Conn(ClientOf[t]) \in Connections
  BY CallerPlace
<1>4. QED
  BY <1>1, <1>2, <1>3 DEF FrameOf, TypeOK

LEMMA FramesStep ==
    ASSUME IInv, [Next]_vars
    PROVE  RequestsAreMine' /\ AnswersAreMine'
<1> USE EmulatorAssumption DEF IInv
<1>1. SUFFICES ASSUME NEW s \in Callers PROVE Mine(s)'
  BY DEF Mine, FrameOf, RequestsAreMine, AnswersAreMine
<1>2. Mine(s)
  BY MineIsBoth
<1>3. ASSUME pc'[s] # "wait" PROVE Mine(s)'
  BY <1>3 DEF Mine
<1>4. ASSUME NEW t \in Callers, CallFails(t), UNCHANGED wire
      PROVE  Mine(s)'
  BY <1>2, <1>4, CallFailsMine, AloneSameFrame
<1>5. ASSUME Alone(s), UNCHANGED wire PROVE Mine(s)'
  BY <1>2, <1>5, AloneKeeps, AloneSameFrame
<1>6. ASSUME UNCHANGED <<clientVars, callerVars>>,
             \A o \in Oracles, k \in Connections :
                 wire'[o][k] \in {wire[o][k], Silent}
      PROVE  Mine(s)'
  <2>1. Alone(s)
    BY <1>6 DEF Alone, clientVars, callerVars
  <2>2. QED
    BY <1>2, <1>6, <2>1, AloneKeeps, AloneFrame
<1>7. ASSUME NEW o \in Oracles, NEW k \in Connections, TaskFails(o, k)
      PROVE  \A p \in Oracles, l \in Connections :
               wire'[p][l] \in {wire[p][l], Silent}
  BY <1>7 DEF TaskFails, TypeOK
<1>8. ASSUME NEW t \in Callers, NEW tx \in Wants[t], StartSign(t, tx)
      PROVE  Mine(s)'
  <2>1. pc'[s] # "wait" \/ Alone(s)
    BY <1>8 DEF StartSign, Alone, TypeOK, clientVars
  <2>2. QED
    BY <1>3, <1>5, <1>8, <2>1 DEF StartSign
<1>9. ASSUME NEW t \in Callers, Lock(t) PROVE Mine(s)'
  <2>1. pc'[s] # "wait" \/ Alone(s)
    BY <1>9 DEF Lock, Alone, TypeOK
  <2>2. QED
    BY <1>3, <1>5, <1>9, <2>1 DEF Lock
<1>10. ASSUME NEW t \in Callers, Connect(t) PROVE Mine(s)'
  <2>1. CASE CallFails(t)
    BY <1>4, <1>10, <2>1 DEF Connect
  <2>2. CASE UNCHANGED <<up, served, process, holder, callerVars>>
    <3>1. Alone(s)
      BY <2>2 DEF Alone, callerVars
    <3>2. QED
      BY <1>5, <1>10, <3>1 DEF Connect
  <2>3. QED
    BY <1>10, <2>1, <2>2 DEF Connect
<1>11. ASSUME NEW t \in Callers, Request(t) PROVE Mine(s)'
  <2> DEFINE frame == Frame("request", psbt[t])
  <2>1. CASE CallFails(t) /\ UNCHANGED wire
    BY <1>4, <2>1
  <2>2. CASE /\ wire' = [wire EXCEPT ![At(t)][Conn(ClientOf[t])] = frame]
             /\ pc' = [pc EXCEPT ![t] = "wait"]
             /\ UNCHANGED <<oracleVars, clientVars, pos, psbt, outcome>>
    <3>1. CASE s = t
      <4>1. Conn(ClientOf[t])' = Conn(ClientOf[t]) /\ At(t)' = At(t)
        BY <2>2 DEF Conn, At, clientVars
      <4>2. FrameOf(t)' = frame
        BY <2>2, <4>1, CallerPlace DEF FrameOf, TypeOK
      <4>3. psbt'[t] = psbt[t]
        BY <2>2
      <4>4. QED
        BY <3>1, <4>2, <4>3 DEF Mine, Frame
    <3>2. CASE s # t
      <4>1. Alone(s)
        BY <2>2, <3>2 DEF Alone, TypeOK, clientVars
      <4>2. CASE pc[s] # "wait"
        BY <1>3, <4>1, <4>2 DEF Alone
      <4>3. CASE pc[s] = "wait"
        <5>1. pc[t] = "send"
          BY <1>11 DEF Request
        <5>2. FrameOf(s)' = FrameOf(s)
          BY <2>2, <3>2, <4>1, <4>3, <5>1, OtherCell
        <5>3. QED
          BY <1>2, <4>1, <5>2, AloneKeeps
      <4>4. QED
        BY <4>2, <4>3
    <3>3. QED
      BY <3>1, <3>2
  <2>3. QED
    BY <1>11, <2>1, <2>2 DEF Request
<1>12. ASSUME NEW t \in Callers, Response(t) PROVE Mine(s)'
  <2>1. pc[t] = "wait"
        /\ wire' = [wire EXCEPT ![At(t)][Conn(ClientOf[t])] = Silent]
    BY <1>12 DEF Response
  <2>2. CASE s = t
    <3>1. pc'[t] # "wait"
      BY <1>12 DEF Response, CallFails, TypeOK
    <3>2. QED
      BY <1>3, <2>2, <3>1
  <2>3. CASE s # t
    <3>1. Alone(s)
      BY <1>12, <2>3 DEF Response, CallFails, Alone, TypeOK
    <3>2. CASE pc[s] # "wait"
      BY <1>3, <3>1, <3>2 DEF Alone
    <3>3. CASE pc[s] = "wait"
      <4>1. FrameOf(s)' = FrameOf(s)
        BY <2>1, <2>3, <3>1, <3>3, OtherCell
      <4>2. QED
        BY <1>2, <3>1, <4>1, AloneKeeps
    <3>4. QED
      BY <3>2, <3>3
  <2>4. QED
    BY <2>2, <2>3
<1>13. ASSUME NEW t \in Callers, Disconnected(t) PROVE Mine(s)'
  BY <1>4, <1>13 DEF Disconnected
<1>14. ASSUME NEW o \in Oracles, Accept(o) \/ RestartOracle(o)
       PROVE  Mine(s)'
  <2>1. Alone(s) /\ UNCHANGED wire
    BY <1>14 DEF Accept, RestartOracle, Alone, clientVars, callerVars
  <2>2. QED
    BY <1>5, <2>1
<1>15. ASSUME NEW o \in Oracles, NEW k \in Connections, Handle(o, k)
       PROVE  Mine(s)'
  <2>1. CASE TaskFails(o, k)
    BY <1>6, <1>7, <1>15, <2>1 DEF Handle
  <2>2. CASE wire' = [wire EXCEPT ![o][k] = Answer(o, @)]
    <3>1. Alone(s) /\ wire[o][k].kind = "request"
      BY <1>15 DEF Handle, Alone, clientVars, callerVars
    <3>2. FrameOf(s)' = wire'[At(s)][Conn(ClientOf[s])]
          /\ psbt'[s] = psbt[s] /\ pc'[s] = pc[s] /\ At(s)' = At(s)
      BY <3>1 DEF Alone, FrameOf, At, Conn
    <3>3. CASE At(s) = o /\ Conn(ClientOf[s]) = k
      <4>1. FrameOf(s)' = Answer(o, FrameOf(s)) /\ FrameOf(s).kind = "request"
        BY <2>2, <3>1, <3>2, <3>3 DEF FrameOf, TypeOK
      <4>2. QED
        BY <1>2, <3>2, <3>3, <4>1 DEF Mine, Answer
    <3>4. CASE ~(At(s) = o /\ Conn(ClientOf[s]) = k)
      <4>1. FrameOf(s)' = FrameOf(s)
        BY <2>2, <3>2, <3>4, CallerPlace DEF FrameOf, TypeOK
      <4>2. QED
        BY <1>2, <3>1, <4>1, AloneKeeps
    <3>5. QED
      BY <3>3, <3>4
  <2>3. QED
    BY <1>15, <2>1, <2>2 DEF Handle
<1>16. ASSUME NEW o \in Oracles, NEW k \in Connections, HangUp(o, k)
       PROVE  Mine(s)'
  BY <1>6, <1>7, <1>16 DEF HangUp
<1>17. ASSUME NEW o \in Oracles, Crash(o) PROVE Mine(s)'
  <2>1. \A p \in Oracles, l \in Connections :
          wire'[p][l] \in {wire[p][l], Silent}
    BY <1>17 DEF Crash, TypeOK
  <2>2. QED
    BY <1>6, <1>17, <2>1 DEF Crash
<1>18. ASSUME NEW c \in Clients, RestartClient(c) PROVE Mine(s)'
  <2>1. CASE ClientOf[s] = c
    BY <1>3, <1>18, <2>1 DEF RestartClient
  <2>2. CASE ClientOf[s] # c
    <3>1. Alone(s) /\ UNCHANGED wire
      BY <1>18, <2>2 DEF RestartClient, Alone, TypeOK
    <3>2. QED
      BY <1>5, <3>1
  <2>3. QED
    BY <2>1, <2>2
<1>19. CASE UNCHANGED vars
  BY <1>5, <1>19 DEF vars, clientVars, callerVars, Alone
<1>20. QED
  BY <1>8, <1>9, <1>10, <1>11, <1>12, <1>13, <1>14, <1>15, <1>16, <1>17,
     <1>18, <1>19
     DEF Next, CallStep, TaskStep
----------------------------------------------------------------------------
LEMMA IInvStep == IInv /\ [Next]_vars => IInv'
BY TypeStep, CallsStep, OneUserStep, FramesStep DEF IInv

LEMMA Invariance == Spec => []IInv
BY InitInv, IInvStep, PTL DEF Spec

\* The network's state keeps its types for any clients, threads and oracles.
THEOREM TypeCorrect == Spec => []TypeOK
<1>1. IInv => TypeOK
  BY DEF IInv
<1>2. QED
  BY <1>1, Invariance, PTL

\* The mutex of HDOracleEmulatorConnection does its work: no connection is
\* used by two threads, whatever fails, crashes or restarts.
THEOREM ConnectionsExclusive == Spec => []OneUserPerConnection
<1>1. IInv => OneUserPerConnection
  BY DEF IInv
<1>2. QED
  BY <1>1, Invariance, PTL

\* No caller ever reads the answer to another caller's request, nor one that
\* lacks a signature it should have, although frames are not numbered.
THEOREM AnswersReachCallers == Spec => []AnswersAreMine
<1>1. IInv => AnswersAreMine
  BY DEF IInv
<1>2. QED
  BY <1>1, Invariance, PTL

\* A debug server serves one connection, and a dead one none.
THEOREM DebugServers == Spec => []DebugServesOne
<1>1. Init => DebugServesOne
  BY DEF Init, DebugServesOne
<1>2. ASSUME TypeOK, DebugServesOne, [Next]_vars PROVE DebugServesOne'
  <2> SUFFICES ASSUME NEW p \in Oracles
               PROVE  /\ p \in Debug => \A k, l \in served'[p] : k = l
                      /\ ~up'[p] => queue'[p] = <<>> /\ served'[p] = {}
    BY DEF DebugServesOne
  <2>1. /\ p \in Debug => \A k, l \in served[p] : k = l
        /\ ~up[p] => queue[p] = <<>> /\ served[p] = {}
    BY <1>2 DEF DebugServesOne
  <2>2. CASE UNCHANGED oracleVars
    BY <2>1, <2>2 DEF oracleVars
  <2>3. ASSUME NEW t \in Callers, Connect(t), ~UNCHANGED oracleVars
        PROVE  /\ up[At(t)] /\ UNCHANGED <<up, served>>
               /\ queue' = [queue EXCEPT ![At(t)] =
                              Append(@, Conn(ClientOf[t]))]
    BY <2>3 DEF Connect, CallFails
  <2>4. ASSUME NEW t \in Callers, Connect(t), ~UNCHANGED oracleVars
        PROVE  /\ p \in Debug => \A k, l \in served'[p] : k = l
               /\ ~up'[p] => queue'[p] = <<>> /\ served'[p] = {}
    BY <1>2, <2>1, <2>3, <2>4 DEF TypeOK
  <2>5. ASSUME NEW o \in Oracles, Accept(o)
        PROVE  /\ p \in Debug => \A k, l \in served'[p] : k = l
               /\ ~up'[p] => queue'[p] = <<>> /\ served'[p] = {}
    BY <1>2, <2>1, <2>5 DEF Accept, TypeOK
  <2>6. ASSUME NEW o \in Oracles, NEW k \in Connections, k \in served[o],
               TaskFails(o, k)
        PROVE  /\ p \in Debug => \A i, l \in served'[p] : i = l
               /\ ~up'[p] => queue'[p] = <<>> /\ served'[p] = {}
    BY <1>2, <2>1, <2>6 DEF TaskFails, TypeOK
  <2>7. ASSUME NEW o \in Oracles, Crash(o) \/ RestartOracle(o)
        PROVE  /\ p \in Debug => \A k, l \in served'[p] : k = l
               /\ ~up'[p] => queue'[p] = <<>> /\ served'[p] = {}
    BY <1>2, <2>1, <2>7 DEF Crash, RestartOracle, TypeOK
  <2>8. ASSUME NEW t \in Callers,
               \/ \E tx \in Wants[t] : StartSign(t, tx)
               \/ Lock(t) \/ Request(t) \/ Response(t) \/ Disconnected(t)
        PROVE  UNCHANGED oracleVars
    BY <2>8 DEF StartSign, Lock, Request, Response, Disconnected, CallFails
  <2>9. ASSUME NEW c \in Clients, RestartClient(c)
        PROVE  UNCHANGED oracleVars
    BY <2>9 DEF RestartClient
  <2>10. ASSUME NEW o \in Oracles, NEW k \in Connections, TaskStep(o, k)
         PROVE  (k \in served[o] /\ TaskFails(o, k)) \/ UNCHANGED oracleVars
    BY <2>10 DEF TaskStep, Handle, HangUp
  <2>11. CASE UNCHANGED vars
    BY <2>2, <2>11 DEF vars
  <2>12. QED
    BY <1>2, <2>2, <2>4, <2>5, <2>6, <2>7, <2>8, <2>9, <2>10, <2>11
       DEF Next, CallStep
<1>3. QED
  BY <1>1, <1>2, TypeCorrect, PTL DEF Spec
----------------------------------------------------------------------------
(* The refinement of SigningService                                        *)

Jobs == [t \in Callers |-> Job(t)]

\* A step of one caller changes its job only.
LEMMA OneJob ==
    ASSUME NEW t \in Callers,
           \A s \in Callers : s # t => UNCHANGED <<pc[s], outcome[s], psbt[s]>>
    PROVE  Jobs' = [Jobs EXCEPT ![t] = Job(t)']
<1>1. \A s \in Callers : s # t => Job(s)' = Job(s)
  BY DEF Job, Ended
<1>2. QED
  BY <1>1 DEF Jobs

\* A call that fails is an Abort.
LEMMA CallFailsAborts ==
    ASSUME TypeOK, NEW t \in Callers, pc[t] # "idle", CallFails(t)
    PROVE  Signing!Next
<1>1. Jobs' = [Jobs EXCEPT ![t] = Job(t)']
  BY OneJob DEF CallFails, TypeOK
<1>2. pc'[t] = "idle" /\ outcome'[t] = "err" /\ psbt'[t] = NoPSBT
  BY DEF CallFails, TypeOK
<1>3. Job(t)' = Signing!NoJob("failed")
  BY <1>2 DEF Job, Ended, Signing!NoJob, NoPSBT
<1>4. Jobs[t].status = "busy"
  BY DEF Jobs, Job, Ended
<1>5. Signing!Abort(t)
  BY <1>1, <1>3, <1>4 DEF Jobs, Signing!Abort
<1>6. QED
  BY <1>5 DEF Signing!Next

\* One answer is one signature, and the last one the return of the call.
LEMMA ResponseSigns ==
    ASSUME IInv, NEW t \in Callers, Response(t), ~CallFails(t)
    PROVE  Signing!Next
<1> USE DEF IInv
<1> DEFINE answer == wire[At(t)][Conn(ClientOf[t])]
           needed == Range(Order[ClientOf[t]])
<1>1. /\ psbt' = [psbt EXCEPT ![t] = [tx |-> answer.tx,
                                      sigs |-> Combined(t, answer)]]
      /\ answer.tx = psbt[t].tx
      /\ answer.sigs = psbt[t].sigs \cup {At(t)}
      /\ pc[t] = "wait"
  BY DEF Response, AnswersAreMine
<1>2. psbt'[t] = [tx |-> psbt[t].tx, sigs |-> psbt[t].sigs \cup {At(t)}]
  BY <1>1 DEF Combined, TypeOK
<1>3. Jobs' = [Jobs EXCEPT ![t] = Job(t)']
  BY OneJob DEF Response, TypeOK
<1>4. Jobs[t] = [status |-> "busy", tx |-> psbt[t].tx, sigs |-> psbt[t].sigs]
  BY <1>1 DEF Jobs, Job, Ended
<1>5. pos[t] \in DOMAIN Order[ClientOf[t]] /\ At(t) \in needed
  BY DEF TypeOK, At, Range
<1>6. psbt[t].sigs = SignedSoFar(t)
  BY <1>1 DEF CallsInOrder
<1>7. At(t) \in Oracles
  BY CallerPlace
<1>8. CASE MoreEmulators(t)
  <2>1. pc'[t] = "lock"
    BY <1>8 DEF Response, TypeOK
  <2>2. Job(t)' = [status |-> "busy", tx |-> psbt[t].tx,
                   sigs |-> psbt[t].sigs \cup {At(t)}]
    BY <1>2, <2>1 DEF Job, Ended
  <2>3. Signing!Sign(t, At(t))
    <3>1. /\ Jobs[t].status = "busy"
          /\ Jobs' = [Jobs EXCEPT ![t] =
                        [status |-> "busy", tx |-> Jobs[t].tx,
                         sigs |-> Jobs[t].sigs \cup {At(t)}]]
      BY <1>3, <1>4, <2>2
    <3>2. At(t) \in [u \in Callers |-> Range(Order[ClientOf[u]])][t]
      BY <1>5
    <3>3. QED
      BY <3>1, <3>2 DEF Jobs, Signing!Sign
  <2>4. QED
    BY <1>7, <2>3 DEF Signing!Next
<1>9. CASE ~MoreEmulators(t)
  <2>1. pc'[t] = "idle" /\ outcome'[t] = "ok"
    BY <1>9 DEF Response, TypeOK
  <2>2. Job(t)' = [status |-> "signed", tx |-> psbt[t].tx,
                   sigs |-> psbt[t].sigs \cup {At(t)}]
    BY <1>2, <2>1 DEF Job, Ended
  <2>3. psbt[t].sigs \cup {At(t)} = needed
    <3>1. Order[ClientOf[t]] \in Seq(Oracles)
      BY EmulatorAssumption
    <3>2. pos[t] = Len(Order[ClientOf[t]])
      BY <1>5, <1>9, <3>1 DEF MoreEmulators
    <3>3. needed = {Order[ClientOf[t]][i] : i \in 1..pos[t]}
      BY <3>1, <3>2 DEF Range
    <3>4. 1..pos[t] = 1..(pos[t] - 1) \cup {pos[t]}
      BY <1>5, <3>1
    <3>5. QED
      BY <1>6, <3>3, <3>4 DEF SignedSoFar, At
  <2>4. Signing!Return(t)
    <3> DEFINE all == [u \in Callers |-> Range(Order[ClientOf[u]])]
    <3>1. all[t] = needed
      OBVIOUS
    <3>2. /\ Jobs[t].status = "busy"
          /\ Jobs[t].sigs \cup {At(t)} = all[t]
          /\ Jobs' = [Jobs EXCEPT ![t] =
                        [status |-> "signed", tx |-> Jobs[t].tx,
                         sigs |-> all[t]]]
      <4>1. psbt[t].sigs \cup {At(t)} = all[t]
        BY <2>3, <3>1
      <4> HIDE DEF all
      <4>2. Job(t)' = [status |-> "signed", tx |-> psbt[t].tx, sigs |-> all[t]]
        BY <2>2, <4>1
      <4>3. QED
        BY <1>3, <1>4, <4>1, <4>2
    <3>3. At(t) \in all[t]
      BY <1>5, <3>1
    <3>4. QED
      BY <3>2, <3>3 DEF Jobs, Signing!Return
  <2>5. QED
    BY <2>4 DEF Signing!Next
<1>10. QED
  BY <1>8, <1>9

LEMMA StepSigns ==
    ASSUME IInv, [Next]_vars
    PROVE  [Signing!Next]_Jobs
<1> USE EmulatorAssumption DEF IInv
<1>1. CASE UNCHANGED <<pc, outcome, psbt>>
  BY <1>1 DEF Jobs, Job, Ended
<1>2. ASSUME NEW t \in Callers, pc[t] # "idle", CallFails(t)
      PROVE  Signing!Next
  BY <1>2, CallFailsAborts
<1>3. ASSUME NEW t \in Callers, NEW tx \in Wants[t], StartSign(t, tx)
      PROVE  Signing!Next
  <2>1. Jobs' = [Jobs EXCEPT ![t] = Job(t)']
    BY <1>3, OneJob DEF StartSign, TypeOK
  <2>2. pc'[t] = "lock" /\ psbt'[t] = [tx |-> tx, sigs |-> {}] /\ pc[t] = "idle"
    BY <1>3 DEF StartSign, TypeOK
  <2>3. Job(t)' = [status |-> "busy", tx |-> tx, sigs |-> {}]
    BY <2>2 DEF Job, Ended
  <2>4. Jobs[t].status # "busy"
    BY <2>2 DEF Jobs, Job, Ended, TypeOK
  <2>5. Signing!Begin(t, tx) /\ tx \in Txs
    BY <2>1, <2>3, <2>4 DEF Jobs, Signing!Begin
  <2>6. QED
    BY <2>5 DEF Signing!Next
<1>4. ASSUME NEW t \in Callers, pc[t] # "idle", pc'[t] # "idle",
             UNCHANGED <<psbt, outcome>>,
             \A s \in Callers : s # t => pc'[s] = pc[s]
      PROVE  Jobs' = Jobs
  BY <1>4 DEF Jobs, Job, Ended
<1>5. ASSUME NEW t \in Callers, CallStep(t) PROVE [Signing!Next]_Jobs
  <2>1. CASE Lock(t)
    BY <1>4, <2>1 DEF Lock, TypeOK
  <2>2. CASE Connect(t)
    BY <1>1, <1>2, <2>2 DEF Connect, callerVars
  <2>3. CASE Request(t)
    BY <1>2, <1>4, <2>3 DEF Request, TypeOK
  <2>4. CASE Response(t)
    <3>1. pc[t] # "idle"
      BY <2>4 DEF Response
    <3>2. QED
      BY <1>2, <2>4, <3>1, ResponseSigns
  <2>5. CASE Disconnected(t)
    BY <1>2, <2>5 DEF Disconnected
  <2>6. QED
    BY <1>5, <2>1, <2>2, <2>3, <2>4, <2>5 DEF CallStep
<1>6. ASSUME NEW c \in Clients, RestartClient(c) PROVE Signing!Next
  <2> DEFINE mine == {t \in Callers : ClientOf[t] = c}
  <2>1. \A t \in mine : Job(t)' = Signing!NoJob("idle")
    BY <1>6 DEF RestartClient, Job, Ended, Signing!NoJob, NoPSBT
  <2>2. \A t \in Callers \ mine : Job(t)' = Job(t)
    BY <1>6 DEF RestartClient, Job, Ended
  <2>3. Signing!Restart(mine) /\ mine \in SUBSET Callers
    BY <2>1, <2>2 DEF Jobs, Signing!Restart
  <2>4. QED
    BY <2>3 DEF Signing!Next
<1>7. ASSUME NEW o \in Oracles,
             \/ Accept(o) \/ Crash(o) \/ RestartOracle(o)
             \/ \E k \in Connections : TaskStep(o, k)
      PROVE  UNCHANGED <<pc, outcome, psbt>>
  BY <1>7 DEF Accept, Crash, RestartOracle, TaskStep, Handle, HangUp, callerVars
<1>8. CASE UNCHANGED vars
  BY <1>1, <1>8 DEF vars, callerVars
<1>9. QED
  BY <1>1, <1>3, <1>5, <1>6, <1>7, <1>8 DEF Next

\* Federated signing over shared connections implements the service each
\* caller of CTVEmulator::sign is promised: its own transaction, signed by
\* every oracle it needs, or an error.
THEOREM RefinesSigningService == Spec => SigningSpec
<1>1. Init => Signing!Init
  <2> SUFFICES ASSUME Init PROVE Signing!Init
    OBVIOUS
  <2>1. \A t \in Callers : Job(t) = Signing!NoJob("idle")
    BY DEF Init, Signing!NoJob, Job, Ended, NoPSBT
  <2>2. QED
    BY <2>1 DEF Signing!Init
<1>2. IInv /\ [Next]_vars => [Signing!Next]_Jobs
  BY StepSigns
<1>3. QED
  BY <1>1, <1>2, Invariance, PTL DEF Spec, SigningSpec, Signing!Spec, Jobs
=============================================================================
