-------------------------- MODULE PluginHost_proofs --------------------------
(***************************************************************************)
(* Theorems about the plugin host, for any number of plugins, nested       *)
(* instances and calls: who frees a string, what path a plugin is given,   *)
(* and when the key a command reports is good.                             *)
(***************************************************************************)
EXTENDS PluginHost, FiniteSetTheorems, TLAPS

(* Both sides never hold strings of one instance at the same time: the     *)
(* host does before create takes its arguments and after it returns.       *)
Held(f) ==
    /\ f.pc \in {"start", "null", "ended"} => f.live = {} /\ f.host = {} /\ f.guest = {}
    /\ f.pc \in {"args", "passed", "returned"} => f.live = f.host /\ f.guest = {}
    /\ f.pc = "returned" => f.host = {"result"}
    /\ f.pc \in {"guest", "waiting", "answered"} => f.live = f.guest /\ f.host = {}
    /\ f.pc \in {"args", "passed", "guest", "waiting", "answered"} => f.op = "create"

(* The modules of the first n instances.                                   *)
Path(n) == [j \in 1..n |-> stack[j].mod]

(* The route of an instance whose caller has the path p.                   *)
Routed(f, p) ==
    /\ f.op # "create" => f.route = <<>>
    /\ f.op = "create" /\ f.pc \in {"start", "args", "passed"} => f.route = p
    /\ f.op = "create" /\ f.pc \in {"guest", "waiting", "answered"} =>
         f.route = Append(p, f.mod)

StackOK ==
    \A i \in 1..Len(stack) :
        /\ Held(stack[i])
        /\ Routed(stack[i], Path(i - 1))
        /\ stack[i].pc = "waiting" <=> i # Len(stack)

(* create is the last function a command calls, so a handle that is used   *)
(* again has not got a path yet.                                           *)
CreateLast ==
    /\ \A i \in DOMAIN todo : todo[i][2] = "create" => i = Len(todo)
    /\ (stack # <<>> /\ stack[1].op = "create") => todo = <<>>

InPhase ==
    /\ stack # <<>> => phase = "calling"
    /\ phase = "starting" => todo = <<>>
    /\ outcome = "ok" => phase = "done"
    /\ phase \in {"missed", "writing", "instantiating"} => loads # <<>>
    /\ (command.cmd # "List" /\ phase \in {"loading", "missed", "writing", "instantiating"}) =>
         loads = <<command.mod>>

Usable ==
    \/ cache[command.mod] = "whole"
    \/ rival = [pc |-> "writing", mod |-> command.mod]
    \/ command.mod \in died

KeyKept ==
    /\ rival.pc # "none" => rival.mod \in Modules
    /\ rival.pc = "writing" => cache[rival.mod] # "absent"
    /\ (command.cmd # "List" /\ (phase \in {"instantiating", "calling"} \/ outcome = "ok")) =>
         Usable

IInv == TypeOK /\ StackOK /\ CreateLast /\ InPhase /\ KeyKept
------------------------------------------------------------------------------
(* Sequences of instances.                                                 *)

LEMMA Elements ==
    ASSUME NEW S, NEW s \in Seq(S)
    PROVE  Len(s) \in Nat /\ DOMAIN s = 1..Len(s) /\ \A i \in 1..Len(s) : s[i] \in S
OBVIOUS

LEMMA LastChanged ==
    ASSUME NEW S, NEW s \in Seq(S), s # <<>>, NEW e \in S
    PROVE  LET t == [s EXCEPT ![Len(s)] = e] IN
           /\ t \in Seq(S) /\ t # <<>> /\ Len(t) = Len(s) /\ t[Len(s)] = e
           /\ \A i \in 1..(Len(s) - 1) : t[i] = s[i]
OBVIOUS

LEMMA Appended ==
    ASSUME NEW S, NEW s \in Seq(S), NEW e \in S
    PROVE  LET t == Append(s, e) IN
           /\ t \in Seq(S) /\ t # <<>> /\ Len(t) = Len(s) + 1 /\ t[Len(t)] = e
           /\ \A i \in 1..Len(s) : t[i] = s[i]
OBVIOUS

LEMMA Shortened ==
    ASSUME NEW S, NEW s \in Seq(S), s # <<>>
    PROVE  LET t == SubSeq(s, 1, Len(s) - 1) IN
           /\ t \in Seq(S) /\ Len(t) = Len(s) - 1
           /\ \A i \in 1..(Len(s) - 1) : t[i] = s[i]
<1>1. Len(s) \in Nat \ {0} /\ Len(s) - 1 \in 0..Len(s)
  OBVIOUS
<1>2. SubSeq(s, 1, Len(s) - 1) \in Seq(S)
  BY <1>1
<1>3. PICK m : m = Len(s) - 1
  OBVIOUS
<1>4. Len(SubSeq(s, 1, m)) = m /\ \A i \in 1..m : SubSeq(s, 1, m)[i] = s[i]
  BY <1>1, <1>3
<1> QED
  BY <1>2, <1>3, <1>4

LEMMA Numbers ==
    ASSUME NEW n \in Nat \ {0}
    PROVE  /\ 1 \in 1..n /\ (n = 1 \/ 1 \in 1..(n - 1))
           /\ \A i \in 1..n : /\ i = n \/ i \in 1..(n - 1)
                              /\ 1..(i - 1) \subseteq 1..(n - 1)
OBVIOUS

LEMMA Before ==
    ASSUME NEW n \in Nat, n > 1
    PROVE  \E m \in Nat \ {0} :
             m = n - 1 /\ n = m + 1 /\ m \in 1..m /\ m \in 1..n /\ m # n
<1>1. n - 1 \in Nat \ {0}
  OBVIOUS
<1> QED
  BY <1>1

LEMMA Single ==
    ASSUME NEW S, NEW e \in S
    PROVE  <<e>> \in Seq(S) /\ Len(<<e>>) = 1 /\ <<e>>[1] = e /\ <<e>> # <<>>
OBVIOUS

LEMMA PathGrows ==
    ASSUME NEW n \in Nat, NEW S, NEW f, \A j \in 1..(n + 1) : f[j] \in S
    PROVE  [j \in 1..(n + 1) |-> f[j]] = Append([j \in 1..n |-> f[j]], f[n + 1])
<1> DEFINE g == [j \in 1..n |-> f[j]]
           a == Append(g, f[n + 1])
<1>1. g \in Seq(S) /\ Len(g) = n
  OBVIOUS
<1>2. a \in Seq(S) /\ Len(a) = n + 1
  BY <1>1
<1>3. \A k \in 1..(n + 1) : a[k] = f[k]
  BY <1>1
<1>4. a = [j \in 1..(n + 1) |-> a[j]]
  BY <1>2
<1> QED
  BY <1>3, <1>4
------------------------------------------------------------------------------
LEMMA Initially == Init => IInv
<1> SUFFICES ASSUME Init PROVE IInv
  OBVIOUS
<1>1. TypeOK
  BY PluginAssumption DEF Init, TypeOK
<1>2. StackOK /\ CreateLast
  BY DEF Init, StackOK, CreateLast
<1>3. InPhase /\ KeyKept
  BY DEF Init, InPhase, KeyKept
<1> QED
  BY <1>1, <1>2, <1>3 DEF IInv

(* An instance below the running one is not touched, so neither are the    *)
(* paths up to it.                                                         *)
LEMMA SamePath ==
    ASSUME NEW n, \A j \in 1..n : stack'[j].mod = stack[j].mod
    PROVE  Path(n)' = Path(n)
BY DEF Path

LEMMA TopChanged ==
    ASSUME stack \in Seq(Frames), StackOK, stack # <<>>,
           NEW g \in Frames, BecomesTop(g), g.op = Top.op, g.mod = Top.mod,
           Held(g), Routed(g, Path(Len(stack) - 1)), g.pc # "waiting"
    PROVE  /\ stack' \in Seq(Frames) /\ Len(stack') = Len(stack) /\ StackOK'
           /\ stack'[1].op = stack[1].op
<1>1. Len(stack) \in Nat \ {0} /\ stack' = [stack EXCEPT ![Len(stack)] = g]
  BY DEF BecomesTop
<1>2. /\ stack' \in Seq(Frames) /\ Len(stack') = Len(stack) /\ stack'[Len(stack)] = g
      /\ \A i \in 1..(Len(stack) - 1) : stack'[i] = stack[i]
  BY <1>1, LastChanged
<1>3. ASSUME NEW i \in 1..Len(stack)
      PROVE  /\ Held(stack[i])'
             /\ Routed(stack[i], Path(i - 1))'
             /\ (stack[i].pc = "waiting")' <=> i # Len(stack)
  <2>0. \A j \in 1..(i - 1) : stack'[j] = stack[j]
    BY <1>1, <1>2, Numbers
  <2>1. Path(i - 1)' = Path(i - 1)
    BY <2>0, SamePath
  <2>2. CASE i = Len(stack)
    BY <1>2, <2>1, <2>2 DEF Held, Routed
  <2>3. CASE i # Len(stack)
    <3>1. stack'[i] = stack[i]
      BY <1>1, <1>2, <2>3, Numbers
    <3>2. Held(stack[i]) /\ Routed(stack[i], Path(i - 1)) /\ stack[i].pc = "waiting"
      BY <2>3 DEF StackOK
    <3> QED
      BY <2>1, <2>3, <3>1, <3>2 DEF Held, Routed
  <2> QED
    BY <2>2, <2>3
<1>4. StackOK'
  BY <1>2, <1>3 DEF StackOK
<1>5. stack'[1].op = stack[1].op
  <2>1. CASE Len(stack) = 1
    BY <1>2, <2>1 DEF Top
  <2>2. CASE Len(stack) # 1
    <3>1. 1 \in 1..(Len(stack) - 1)
      BY <1>1, <2>2, Numbers
    <3> QED
      BY <1>2, <3>1
  <2> QED
    BY <2>1, <2>2
<1> QED
  BY <1>2, <1>4, <1>5

(* What a step of the running instance leaves of the invariant.            *)
LEMMA InstanceStep ==
    ASSUME IInv, stack # <<>>, UNCHANGED <<disk, command, phase, loads, todo, outcome, fault>>,
           calls' \in 0..MaxHostCalls,
           stack' \in Seq(Frames), Len(stack') <= MaxFrames, StackOK',
           stack'[1].op = stack[1].op
    PROVE  IInv'
<1>1. TypeOK'
  BY DEF IInv, TypeOK, disk
<1>2. CreateLast'
  BY DEF IInv, CreateLast
<1>3. InPhase'
  BY DEF IInv, InPhase
<1>4. KeyKept'
  BY DEF IInv, KeyKept, Usable, disk
<1> QED
  BY <1>1, <1>2, <1>3, <1>4 DEF IInv

(* The running instance, which is in Frames, changes and stays on top.     *)
LEMMA TopStep ==
    ASSUME IInv, stack # <<>>, UNCHANGED <<disk, command, phase, loads, todo, outcome, fault>>,
           calls' \in 0..MaxHostCalls,
           NEW g \in Frames, BecomesTop(g), g.op = Top.op, g.mod = Top.mod,
           Held(g), Routed(g, Path(Len(stack) - 1)), g.pc # "waiting"
    PROVE  IInv'
<1>1. stack \in Seq(Frames) /\ StackOK /\ Len(stack) <= MaxFrames
  BY DEF IInv, TypeOK
<1>2. /\ stack' \in Seq(Frames) /\ Len(stack') = Len(stack) /\ StackOK'
      /\ stack'[1].op = stack[1].op
  BY <1>1, TopChanged
<1> QED
  BY <1>1, <1>2, InstanceStep

LEMMA TopFrame ==
    ASSUME IInv, stack # <<>>
    PROVE  /\ Len(stack) \in Nat \ {0}
           /\ Top \in Frames /\ Held(Top) /\ Routed(Top, Path(Len(stack) - 1))
           /\ Top.pc # "waiting"
           /\ calls \in 0..MaxHostCalls
BY DEF IInv, TypeOK, StackOK, Top

(* The steps of the running instance.                                      *)
LEMMA PassArgsKept == ASSUME IInv, PassArgs PROVE IInv'
<1> DEFINE g == [HostHolds("args") EXCEPT !.pc = "args"]
<1>1. /\ stack # <<>> /\ Top.pc = "start" /\ Top.op = "create" /\ BecomesTop(g)
      /\ UNCHANGED <<disk, command, phase, loads, todo, outcome, fault>> /\ calls' = calls
  BY DEF PassArgs, At
<1>2. Top \in Frames /\ Held(Top) /\ Routed(Top, Path(Len(stack) - 1)) /\ calls' \in 0..MaxHostCalls
  BY <1>1, TopFrame
<1>3. /\ g \in Frames /\ g.pc = "args" /\ g.op = "create" /\ g.mod = Top.mod
      /\ g.route = Top.route /\ g.live = g.host /\ g.guest = {}
  BY <1>1, <1>2 DEF Frames, Strings, HostHolds, Held
<1>4. Held(g) /\ Routed(g, Path(Len(stack) - 1))
  BY <1>1, <1>2, <1>3 DEF Held, Routed
<1> HIDE DEF g
<1> QED
  BY <1>1, <1>2, <1>3, <1>4, TopStep

LEMMA PassPathKept == ASSUME IInv, PassPath PROVE IInv'
<1> DEFINE g == [HostHolds("path") EXCEPT !.pc = "passed"]
<1>1. /\ stack # <<>> /\ Top.pc = "args" /\ BecomesTop(g)
      /\ UNCHANGED <<disk, command, phase, loads, todo, outcome, fault>> /\ calls' = calls
  BY DEF PassPath, At
<1>2. Top \in Frames /\ Held(Top) /\ Routed(Top, Path(Len(stack) - 1)) /\ calls' \in 0..MaxHostCalls
  BY <1>1, TopFrame
<1>3. /\ g \in Frames /\ g.pc = "passed" /\ g.op = "create" /\ g.op = Top.op /\ g.mod = Top.mod
      /\ g.route = Top.route /\ g.live = g.host /\ g.guest = {}
  BY <1>1, <1>2 DEF Frames, Strings, HostHolds, Held
<1>4. Held(g) /\ Routed(g, Path(Len(stack) - 1))
  BY <1>1, <1>2, <1>3 DEF Held, Routed
<1> HIDE DEF g
<1> QED
  BY <1>1, <1>2, <1>3, <1>4, TopStep

LEMMA EnterKept == ASSUME IInv, Enter PROVE IInv'
<1> DEFINE g == [Top EXCEPT !.pc = "guest", !.host = {}, !.guest = Top.host,
                            !.route = Append(@, Top.mod)]
<1>1. /\ stack # <<>> /\ Top.pc = "passed" /\ BecomesTop(g)
      /\ UNCHANGED <<disk, command, phase, loads, todo, outcome, fault>> /\ calls' = calls
  BY DEF Enter, At
<1>2. Top \in Frames /\ Held(Top) /\ Routed(Top, Path(Len(stack) - 1)) /\ calls' \in 0..MaxHostCalls
  BY <1>1, TopFrame
<1>3. Top.route \in Seq(Modules) /\ Top.mod \in Modules
  BY <1>2 DEF Frames
<1>4. Append(Top.route, Top.mod) \in Seq(Modules)
  BY <1>3
<1>5. PICK r \in Seq(Modules) : r = Append(Top.route, Top.mod)
  BY <1>4
<1>6. g = [Top EXCEPT !.pc = "guest", !.host = {}, !.guest = Top.host, !.route = r]
  BY <1>5
<1>7. /\ g \in Frames /\ g.pc = "guest" /\ g.op = "create" /\ g.op = Top.op /\ g.mod = Top.mod
      /\ g.route = r /\ g.live = g.guest /\ g.host = {}
  BY <1>1, <1>2, <1>6 DEF Frames, Strings, Held
<1>8. Held(g) /\ Routed(g, Path(Len(stack) - 1))
  BY <1>1, <1>2, <1>5, <1>7 DEF Held, Routed
<1> HIDE DEF g
<1> QED
  BY <1>1, <1>2, <1>7, <1>8, TopStep

LEMMA GetKept == ASSUME IInv, Get PROVE IInv'
<1> DEFINE g == [HostHolds("result") EXCEPT !.pc = "returned", !.ok = TRUE]
<1>1. /\ stack # <<>> /\ Top.pc = "start" /\ Top.op \in Getters /\ BecomesTop(g)
      /\ UNCHANGED <<disk, command, phase, loads, todo, outcome, fault>> /\ calls' = calls
  BY DEF Get, At
<1>2. Top \in Frames /\ Held(Top) /\ Routed(Top, Path(Len(stack) - 1)) /\ calls' \in 0..MaxHostCalls
  BY <1>1, TopFrame
<1>3. /\ g \in Frames /\ g.pc = "returned" /\ g.op = Top.op /\ g.mod = Top.mod
      /\ g.route = Top.route /\ g.live = g.host /\ g.host = {"result"} /\ g.guest = {}
  BY <1>1, <1>2 DEF Frames, Strings, HostHolds, Held
<1>4. Held(g) /\ Routed(g, Path(Len(stack) - 1))
  BY <1>1, <1>2, <1>3 DEF Held, Routed, Getters
<1> HIDE DEF g
<1> QED
  BY <1>1, <1>2, <1>3, <1>4, TopStep

LEMMA ReturnKept == ASSUME IInv, NEW ok \in BOOLEAN, Return(ok) PROVE IInv'
<1> DEFINE g == [Top EXCEPT !.pc = "returned", !.ok = ok,
                            !.live = (@ \ Top.guest) \cup {"result"}, !.guest = {},
                            !.host = {"result"}]
<1>1. /\ stack # <<>> /\ Top.pc = "guest" /\ BecomesTop(g)
      /\ UNCHANGED <<disk, command, phase, loads, todo, outcome, fault>> /\ calls' = calls
  BY DEF Return, At
<1>2. Top \in Frames /\ Held(Top) /\ Routed(Top, Path(Len(stack) - 1)) /\ calls' \in 0..MaxHostCalls
  BY <1>1, TopFrame
<1>3. /\ g \in Frames /\ g.pc = "returned" /\ g.op = Top.op /\ g.mod = Top.mod
      /\ g.route = Top.route /\ g.live = (Top.live \ Top.guest) \cup {"result"}
      /\ g.host = {"result"} /\ g.guest = {}
  BY <1>1, <1>2 DEF Frames, Strings
<1>4. Held(g) /\ Routed(g, Path(Len(stack) - 1))
  BY <1>1, <1>2, <1>3 DEF Held, Routed
<1> HIDE DEF g
<1> QED
  BY <1>1, <1>2, <1>3, <1>4, TopStep

LEMMA ReadResultKept == ASSUME IInv, NEW parses \in BOOLEAN, ReadResult(parses) PROVE IInv'
<1> DEFINE g == [Top EXCEPT !.pc = "ended", !.ok = @ /\ parses, !.live = @ \ {"result"},
                            !.host = @ \ {"result"}]
<1>1. /\ stack # <<>> /\ Top.pc = "returned" /\ BecomesTop(g)
      /\ UNCHANGED <<disk, command, phase, loads, todo, outcome, fault>> /\ calls' = calls
  BY DEF ReadResult, At
<1>2. Top \in Frames /\ Held(Top) /\ Routed(Top, Path(Len(stack) - 1)) /\ calls' \in 0..MaxHostCalls
  BY <1>1, TopFrame
<1>3. /\ g \in Frames /\ g.pc = "ended" /\ g.op = Top.op /\ g.mod = Top.mod
      /\ g.route = Top.route /\ g.live = Top.live \ {"result"}
      /\ g.host = Top.host \ {"result"} /\ g.guest = Top.guest
  BY <1>1, <1>2 DEF Frames, Strings
<1>4. Held(g) /\ Routed(g, Path(Len(stack) - 1))
  BY <1>1, <1>2, <1>3 DEF Held, Routed
<1> HIDE DEF g
<1> QED
  BY <1>1, <1>2, <1>3, <1>4, TopStep

LEMMA ReturnNullKept == ASSUME IInv, ReturnNull PROVE IInv'
<1> DEFINE g == [Top EXCEPT !.pc = "null", !.live = @ \ Top.guest, !.guest = {}]
<1>1. /\ stack # <<>> /\ Top.pc \in {"guest", "start"} /\ (Top.pc = "start" => Top.op = "api")
      /\ BecomesTop(g)
      /\ UNCHANGED <<disk, command, phase, loads, todo, outcome, fault>> /\ calls' = calls
  BY DEF ReturnNull, At
<1>2. Top \in Frames /\ Held(Top) /\ Routed(Top, Path(Len(stack) - 1)) /\ calls' \in 0..MaxHostCalls
  BY <1>1, TopFrame
<1>3. /\ g \in Frames /\ g.pc = "null" /\ g.op = Top.op /\ g.mod = Top.mod
      /\ g.route = Top.route /\ g.live = Top.live \ Top.guest /\ g.host = Top.host /\ g.guest = {}
  BY <1>1, <1>2 DEF Frames, Strings
<1>4. Held(g) /\ Routed(g, Path(Len(stack) - 1))
  BY <1>1, <1>2, <1>3 DEF Held, Routed
<1> HIDE DEF g
<1> QED
  BY <1>1, <1>2, <1>3, <1>4, TopStep

LEMMA DropNullKept == ASSUME IInv, NEW traps \in BOOLEAN, DropNull(traps) PROVE IInv'
<1> DEFINE g == [Top EXCEPT !.pc = IF traps THEN "trapped" ELSE "ended", !.ok = FALSE]
<1>1. /\ stack # <<>> /\ Top.pc = "null" /\ BecomesTop(g)
      /\ UNCHANGED <<disk, command, phase, loads, todo, outcome, fault>> /\ calls' = calls
  BY DEF DropNull, At
<1>2. Top \in Frames /\ Held(Top) /\ Routed(Top, Path(Len(stack) - 1)) /\ calls' \in 0..MaxHostCalls
  BY <1>1, TopFrame
<1>3. /\ g \in Frames /\ g.pc \in {"trapped", "ended"} /\ g.op = Top.op /\ g.mod = Top.mod
      /\ g.route = Top.route /\ g.live = Top.live /\ g.host = Top.host /\ g.guest = Top.guest
  BY <1>1, <1>2 DEF Frames
<1>4. Held(g) /\ Routed(g, Path(Len(stack) - 1))
  BY <1>1, <1>2, <1>3 DEF Held, Routed
<1> HIDE DEF g
<1> QED
  BY <1>1, <1>2, <1>3, <1>4, TopStep

LEMMA TrapKept == ASSUME IInv, Trap PROVE IInv'
<1> DEFINE g == [Top EXCEPT !.pc = "trapped"]
<1>1. /\ stack # <<>> /\ Top.pc \in {"start", "args", "guest"} /\ BecomesTop(g)
      /\ UNCHANGED <<disk, command, phase, loads, todo, outcome, fault>> /\ calls' = calls
  BY DEF Trap, At
<1>2. Top \in Frames /\ Held(Top) /\ Routed(Top, Path(Len(stack) - 1)) /\ calls' \in 0..MaxHostCalls
  BY <1>1, TopFrame
<1>3. /\ g \in Frames /\ g.pc = "trapped" /\ g.op = Top.op /\ g.mod = Top.mod
      /\ g.route = Top.route
  BY <1>1, <1>2 DEF Frames
<1>4. Held(g) /\ Routed(g, Path(Len(stack) - 1))
  BY <1>1, <1>2, <1>3 DEF Held, Routed
<1> HIDE DEF g
<1> QED
  BY <1>1, <1>2, <1>3, <1>4, TopStep

LEMMA TakeAnswerKept == ASSUME IInv, TakeAnswer PROVE IInv'
<1> DEFINE g == [Top EXCEPT !.pc = "guest", !.live = @ \ {"answer"}, !.guest = @ \ {"answer"}]
<1>1. /\ stack # <<>> /\ Top.pc = "answered" /\ BecomesTop(g)
      /\ UNCHANGED <<disk, command, phase, loads, todo, outcome, fault>> /\ calls' = calls
  BY DEF TakeAnswer, At
<1>2. Top \in Frames /\ Held(Top) /\ Routed(Top, Path(Len(stack) - 1)) /\ calls' \in 0..MaxHostCalls
  BY <1>1, TopFrame
<1>3. /\ g \in Frames /\ g.pc = "guest" /\ g.op = Top.op /\ g.mod = Top.mod
      /\ g.route = Top.route /\ g.live = Top.live \ {"answer"} /\ g.host = Top.host
      /\ g.guest = Top.guest \ {"answer"}
  BY <1>1, <1>2 DEF Frames, Strings
<1>4. Held(g) /\ Routed(g, Path(Len(stack) - 1))
  BY <1>1, <1>2, <1>3 DEF Held, Routed
<1> HIDE DEF g
<1> QED
  BY <1>1, <1>2, <1>3, <1>4, TopStep

LEMMA EmulateKept == ASSUME IInv, Emulate PROVE IInv'
<1> DEFINE g == [Top EXCEPT !.pc = "answered", !.live = @ \cup {"answer"},
                            !.guest = @ \cup {"answer"}]
<1>1. /\ stack # <<>> /\ Top.pc = "guest" /\ BecomesTop(g) /\ calls < MaxHostCalls
      /\ UNCHANGED <<disk, command, phase, loads, todo, outcome, fault>> /\ calls' = calls + 1
  BY DEF Emulate, CallsHost, At
<1>2. Top \in Frames /\ Held(Top) /\ Routed(Top, Path(Len(stack) - 1)) /\ calls \in 0..MaxHostCalls
  BY <1>1, TopFrame
<1>3. /\ g \in Frames /\ g.pc = "answered" /\ g.op = Top.op /\ g.mod = Top.mod
      /\ g.route = Top.route /\ g.live = Top.live \cup {"answer"} /\ g.host = Top.host
      /\ g.guest = Top.guest \cup {"answer"}
  BY <1>1, <1>2 DEF Frames, Strings
<1>4. Held(g) /\ Routed(g, Path(Len(stack) - 1))
  BY <1>1, <1>2, <1>3 DEF Held, Routed
<1>5. calls' \in 0..MaxHostCalls
  BY <1>1, <1>2, PluginAssumption
<1> HIDE DEF g
<1> QED
  BY <1>1, <1>2, <1>3, <1>4, <1>5, TopStep

(* The path of an instance's caller, and with the instance's module that   *)
(* of the instances it calls.                                              *)
LEMMA NextPath ==
    ASSUME stack \in Seq(Frames), NEW n \in 1..Len(stack)
    PROVE  Path(n) = Append(Path(n - 1), stack[n].mod)
<1> DEFINE f == [j \in 1..n |-> stack[j].mod]
<1>1. PICK k \in Nat : n = k + 1
  <2>1. n \in Nat \ {0} /\ n - 1 \in Nat /\ n = (n - 1) + 1
    OBVIOUS
  <2> QED
    BY <2>1
<1>2. \A j \in 1..n : stack[j] \in Frames
  OBVIOUS
<1>3. \A j \in 1..(k + 1) : f[j] \in Modules
  BY <1>1, <1>2 DEF Frames
<1>4. [j \in 1..(k + 1) |-> f[j]] = Append([j \in 1..k |-> f[j]], f[k + 1])
  <2> HIDE DEF f
  <2> QED
    BY <1>3, PathGrows
<1>5. \A j \in 1..k : j \in 1..n
  BY <1>1
<1>6. [j \in 1..k |-> f[j]] = Path(n - 1)
  BY <1>1, <1>5 DEF Path
<1> QED
  BY <1>1, <1>4, <1>6 DEF Path

LEMMA ModuleRefusedKept == ASSUME IInv, ModuleRefused PROVE IInv'
<1>1. /\ stack # <<>> /\ stack' = stack /\ calls < MaxHostCalls /\ calls' = calls + 1
      /\ UNCHANGED <<disk, command, phase, loads, todo, outcome, fault>>
  BY DEF ModuleRefused, CallsHost, At
<1>2. calls' \in 0..MaxHostCalls
  BY <1>1, TopFrame, PluginAssumption
<1>3. StackOK'
  BY <1>1 DEF IInv, StackOK, Path
<1>4. stack \in Seq(Frames) /\ Len(stack) <= MaxFrames
  BY DEF IInv, TypeOK
<1> QED
  BY <1>1, <1>2, <1>3, <1>4, InstanceStep

LEMMA CallModuleKept ==
    ASSUME IInv, NEW locator \in Locators, NEW op \in Functions, CallModule(locator, op)
    PROVE  IInv'
<1> DEFINE n == Len(stack)
           w == [Top EXCEPT !.pc = "waiting"]
           c == Frame(Lookup(locator), op, IF op = "create" THEN Top.route ELSE <<>>)
           t == [stack EXCEPT ![n] = w]
<1>1. /\ stack # <<>> /\ Top.pc = "guest" /\ calls < MaxHostCalls /\ calls' = calls + 1
      /\ n < MaxFrames /\ Lookup(locator) # NoModule /\ stack' = Append(t, c)
      /\ UNCHANGED <<disk, command, phase, loads, todo, outcome, fault>>
  BY DEF CallModule, CallsHost, At, Top
<1>2. /\ n \in Nat \ {0} /\ stack \in Seq(Frames) /\ StackOK /\ calls \in 0..MaxHostCalls
      /\ Top \in Frames /\ Held(Top) /\ Routed(Top, Path(n - 1))
  BY <1>1, TopFrame DEF IInv, TypeOK
<1>3. calls' \in 0..MaxHostCalls /\ n + 1 <= MaxFrames
  BY <1>1, <1>2, PluginAssumption
<1>4. /\ w \in Frames /\ w.pc = "waiting" /\ w.op = Top.op /\ w.mod = Top.mod
      /\ w.route = Top.route /\ w.live = Top.live /\ w.host = Top.host /\ w.guest = Top.guest
  BY <1>2 DEF Frames
<1>5. Held(w) /\ Routed(w, Path(n - 1))
  BY <1>1, <1>2, <1>4 DEF Held, Routed
<1>6. Lookup(locator) \in Modules
  <2>1. Top.mod \in Modules
    BY <1>2 DEF Frames
  <2> QED
    BY <1>1, <2>1, PluginAssumption DEF Lookup
<1>7. c \in Frames
  BY <1>2, <1>6 DEF Frames, Frame
<1>8. /\ c.pc = "start" /\ c.op = op /\ c.live = {} /\ c.host = {} /\ c.guest = {}
      /\ c.route = IF op = "create" THEN Top.route ELSE <<>>
  BY DEF Frame
<1>9. /\ t \in Seq(Frames) /\ Len(t) = n /\ t[n] = w
      /\ \A i \in 1..(n - 1) : t[i] = stack[i]
  <2> HIDE DEF w
  <2> QED
    BY <1>1, <1>2, <1>4, LastChanged
<1>10. /\ stack' \in Seq(Frames) /\ Len(stack') = n + 1 /\ stack'[n + 1] = c
       /\ stack'[n] = w /\ \A i \in 1..(n - 1) : stack'[i] = stack[i]
  <2> HIDE DEF t, c, w
  <2>1. /\ stack' \in Seq(Frames) /\ Len(stack') = n + 1 /\ stack'[n + 1] = c
        /\ \A i \in 1..n : stack'[i] = t[i]
    BY <1>1, <1>7, <1>9, Appended
  <2> QED
    BY <1>2, <1>9, <2>1
<1> HIDE DEF t, c, w
<1>11. \A i \in 1..n : stack'[i].mod = stack[i].mod /\ stack'[i].op = stack[i].op
  <2>1. stack'[n].mod = stack[n].mod /\ stack'[n].op = stack[n].op
    BY <1>4, <1>10 DEF Top
  <2> QED
    BY <1>2, <1>10, <2>1, Numbers
<1>12. \A i \in 1..(n + 1) : Path(i - 1)' = Path(i - 1)
  <2>1. ASSUME NEW i \in 1..(n + 1)
        PROVE  \A j \in 1..(i - 1) : stack'[j].mod = stack[j].mod
    <3>1. 1..(i - 1) \subseteq 1..n
      BY <1>2
    <3> QED
      BY <1>11, <3>1
  <2> QED
    BY <2>1, SamePath
<1>13. Held(c) /\ Routed(c, Path(n))
  <2>1. Path(n) = Append(Path(n - 1), Top.mod)
    BY <1>2, NextPath DEF Top
  <2>2. Top.op = "create" /\ Top.route = Append(Path(n - 1), Top.mod)
    BY <1>1, <1>2 DEF Held, Routed
  <2> QED
    BY <1>8, <2>1, <2>2 DEF Held, Routed
<1>14. ASSUME NEW i \in 1..(n + 1)
       PROVE  /\ Held(stack[i])'
              /\ Routed(stack[i], Path(i - 1))'
              /\ (stack[i].pc = "waiting")' <=> i # n + 1
  <2>1. Path(i - 1)' = Path(i - 1)
    BY <1>12
  <2>2. i = n + 1 \/ i = n \/ (i \in 1..(n - 1) /\ i \in 1..n /\ i # n /\ i # n + 1)
    BY <1>2
  <2>3. CASE i = n + 1
    <3>1. Path(i - 1) = Path(n)
      BY <1>2, <2>3
    <3> QED
      BY <1>8, <1>10, <1>13, <2>1, <2>3, <3>1 DEF Held, Routed
  <2>4. CASE i = n
    <3>1. n # n + 1
      BY <1>2
    <3> QED
      BY <1>4, <1>5, <1>10, <2>1, <2>4, <3>1 DEF Held, Routed
  <2>5. CASE i \in 1..(n - 1) /\ i \in 1..n /\ i # n /\ i # n + 1
    <3>1. Held(stack[i]) /\ Routed(stack[i], Path(i - 1)) /\ stack[i].pc = "waiting"
      BY <1>2, <2>5 DEF StackOK
    <3>2. stack'[i] = stack[i]
      BY <1>10, <2>5
    <3> QED
      BY <2>1, <2>5, <3>1, <3>2 DEF Held, Routed
  <2> QED
    BY <2>2, <2>3, <2>4, <2>5
<1>15. StackOK'
  BY <1>10, <1>14 DEF StackOK
<1>16. stack'[1].op = stack[1].op
  BY <1>2, <1>11, Numbers
<1> QED
  BY <1>1, <1>3, <1>10, <1>15, <1>16, InstanceStep

LEMMA AnswerKept ==
    ASSUME IInv, NEW allocated \in BOOLEAN, Answer(allocated)
    PROVE  IInv'
<1> DEFINE n == Len(stack)
           rest == SubSeq(stack, 1, n - 1)
           caller == rest[Len(rest)]
           answered == [caller EXCEPT !.pc = "answered", !.live = @ \cup {"answer"},
                                      !.guest = @ \cup {"answer"}]
           g == IF allocated THEN answered ELSE [caller EXCEPT !.pc = "guest"]
<1>1. /\ n > 1 /\ stack' = [rest EXCEPT ![Len(rest)] = g]
      /\ UNCHANGED <<disk, command, phase, loads, todo, outcome, fault>> /\ calls' = calls
  BY DEF Answer
<1>2. /\ stack \in Seq(Frames) /\ StackOK /\ n <= MaxFrames /\ calls \in 0..MaxHostCalls
  BY DEF IInv, TypeOK
<1>3. PICK m \in Nat \ {0} : m = n - 1 /\ n = m + 1 /\ m \in 1..m /\ m \in 1..n /\ m # n
  <2>1. n \in Nat
    BY <1>2
  <2> QED
    BY <1>1, <2>1, Before
<1>4. stack # <<>> /\ m <= MaxFrames
  BY <1>2, <1>3, PluginAssumption
<1>5. /\ rest \in Seq(Frames) /\ Len(rest) = m
      /\ \A i \in 1..m : rest[i] = stack[i]
  BY <1>2, <1>3, <1>4, Shortened
<1>6. rest # <<>> /\ m \in 1..m /\ m \in 1..n /\ m # n
  <2> HIDE DEF rest
  <2> QED
    BY <1>3, <1>5
<1>7. /\ caller = stack[m] /\ caller \in Frames /\ caller.pc = "waiting"
      /\ Held(caller) /\ Routed(caller, Path(m - 1))
  <2> HIDE DEF rest
  <2>1. caller = stack[m] /\ caller \in Frames
    BY <1>5, <1>6
  <2> HIDE DEF caller
  <2>2. Held(stack[m]) /\ Routed(stack[m], Path(m - 1)) /\ stack[m].pc = "waiting"
    BY <1>2, <1>6 DEF StackOK
  <2> QED
    BY <2>1, <2>2
<1> HIDE DEF rest, caller
<1>8. /\ g \in Frames /\ g.op = caller.op /\ g.mod = caller.mod /\ g.route = caller.route
      /\ g.host = caller.host /\ g.pc \in {"guest", "answered"} /\ g.live = g.guest
  <2>1. CASE allocated
    BY <1>7, <2>1 DEF Frames, Strings, Held
  <2>2. CASE ~allocated
    BY <1>7, <2>2 DEF Frames, Held
  <2> QED
    BY <2>1, <2>2
<1> HIDE DEF g
<1>9. Held(g) /\ Routed(g, Path(m - 1))
  BY <1>7, <1>8 DEF Held, Routed
<1>10. /\ stack' \in Seq(Frames) /\ Len(stack') = m /\ stack'[m] = g
       /\ \A i \in 1..(m - 1) : stack'[i] = rest[i]
  BY <1>1, <1>5, <1>6, <1>8, LastChanged
<1>11. \A i \in 1..(m - 1) : i \in 1..m /\ i \in 1..n /\ i # n /\ i # m
  BY <1>3
<1>12. \A i \in 1..(m - 1) : stack'[i] = stack[i]
  BY <1>5, <1>10, <1>11
<1>13. ASSUME NEW i \in 1..m
       PROVE  /\ Held(stack[i])'
              /\ Routed(stack[i], Path(i - 1))'
              /\ (stack[i].pc = "waiting")' <=> i # m
  <2>1. Path(i - 1)' = Path(i - 1)
    <3>1. 1..(i - 1) \subseteq 1..(m - 1)
      BY <1>3, Numbers
    <3>2. \A j \in 1..(i - 1) : stack'[j].mod = stack[j].mod
      BY <1>12, <3>1
    <3> QED
      BY <3>2, SamePath
  <2>2. CASE i = m
    BY <1>8, <1>9, <1>10, <2>1, <2>2 DEF Held, Routed
  <2>3. CASE i \in 1..(m - 1)
    <3>1. Held(stack[i]) /\ Routed(stack[i], Path(i - 1)) /\ stack[i].pc = "waiting"
      BY <1>2, <1>11, <2>3 DEF StackOK
    <3>2. stack'[i] = stack[i] /\ i # m
      BY <1>11, <1>12, <2>3
    <3> QED
      BY <2>1, <3>1, <3>2 DEF Held, Routed
  <2> QED
    BY <1>3, <2>2, <2>3, Numbers
<1>14. StackOK'
  BY <1>10, <1>13 DEF StackOK
<1>15. stack'[1].op = stack[1].op
  <2>1. CASE m = 1
    BY <1>7, <1>8, <1>10, <2>1
  <2>2. CASE 1 \in 1..(m - 1)
    BY <1>12, <2>2
  <2> QED
    BY <1>3, <2>1, <2>2, Numbers
<1>16. calls' \in 0..MaxHostCalls /\ Len(stack') <= MaxFrames
  BY <1>1, <1>2, <1>4, <1>10
<1> QED
  BY <1>1, <1>4, <1>10, <1>14, <1>15, <1>16, InstanceStep

LEMMA CallNextKept == ASSUME IInv, CallNext PROVE IInv'
<1> DEFINE e == Head(todo)
           g == [stack[1] EXCEPT !.op = e[2], !.pc = "start"]
           c == Frame(e[1], e[2], <<>>)
           f == IF stack # <<>> /\ stack[1].mod = e[1] THEN g ELSE c
<1>1. /\ Ready /\ todo # <<>> /\ stack' = <<f>> /\ todo' = Tail(todo) /\ calls' = calls
      /\ UNCHANGED <<disk, command, phase, loads, outcome, fault>> /\ phase = "calling"
  BY DEF CallNext, Ready
<1>2. /\ todo \in Seq(Modules \X Functions) /\ stack \in Seq(Frames) /\ StackOK
      /\ CreateLast /\ calls \in 0..MaxHostCalls
  BY DEF IInv, TypeOK
<1>3. /\ e \in Modules \X Functions /\ e = todo[1] /\ Tail(todo) \in Seq(Modules \X Functions)
  BY <1>1, <1>2
<1>4. e[1] \in Modules /\ e[2] \in Functions
  BY <1>3
<1>5. c \in Frames /\ c.pc = "start" /\ c.op = e[2] /\ c.route = <<>> /\ Held(c)
  BY <1>4 DEF Frame, Frames, Held
<1>6. ASSUME stack # <<>>
      PROVE  g \in Frames /\ g.pc = "start" /\ g.op = e[2] /\ g.route = <<>> /\ Held(g)
  <2>1. Len(stack) = 1 /\ stack[1].pc = "ended" /\ stack[1] \in Frames /\ Held(stack[1])
        /\ Routed(stack[1], Path(0))
    <3>1. Len(stack) = 1 /\ stack[1].pc = "ended"
      BY <1>1, <1>6 DEF Ready
    <3>2. 1 \in 1..Len(stack) /\ Path(1 - 1) = Path(0)
      BY <3>1
    <3>3. Held(stack[1]) /\ Routed(stack[1], Path(1 - 1))
      BY <1>2, <3>2 DEF StackOK
    <3>4. stack[1] \in Frames
      BY <1>2, <3>2
    <3> QED
      BY <3>1, <3>2, <3>3, <3>4
  <2>2. stack[1].op # "create"
    BY <1>1, <1>2, <1>6 DEF CreateLast
  <2>3. /\ g \in Frames /\ g.pc = "start" /\ g.op = e[2] /\ g.route = stack[1].route
        /\ g.live = stack[1].live /\ g.host = stack[1].host /\ g.guest = stack[1].guest
    BY <1>4, <2>1 DEF Frames
  <2> QED
    BY <2>1, <2>2, <2>3 DEF Held, Routed
<1>7. f \in Frames /\ f.pc = "start" /\ f.op = e[2] /\ f.route = <<>> /\ Held(f)
  BY <1>5, <1>6
<1> HIDE DEF f
<1>8. PICK h : h = f
  OBVIOUS
<1>9. /\ stack' \in Seq(Frames) /\ Len(stack') = 1 /\ stack'[1] = h /\ stack' # <<>>
      /\ h \in Frames /\ h.pc = "start" /\ h.op = e[2] /\ h.route = <<>> /\ Held(h)
  BY <1>1, <1>7, <1>8, Single
<1>10. StackOK'
  <2>1. Path(0)' = <<>>
    BY DEF Path
  <2>2. Path(1 - 1)' = Path(0)'
    OBVIOUS
  <2>3. Routed(h, Path(1 - 1))'
    BY <1>9, <2>1, <2>2 DEF Routed
  <2>4. \A i \in 1..1 : i = 1
    OBVIOUS
  <2> QED
    BY <1>9, <2>3, <2>4 DEF StackOK, Held, Routed
<1>11. TypeOK'
  <2>1. 1 <= MaxFrames
    BY PluginAssumption
  <2> QED
    BY <1>1, <1>2, <1>3, <1>9, <2>1 DEF IInv, TypeOK, disk
<1>12. CreateLast'
  <2>1. /\ Len(todo) \in Nat \ {0} /\ Len(Tail(todo)) = Len(todo) - 1
        /\ \A i \in DOMAIN Tail(todo) : /\ Tail(todo)[i] = todo[i + 1]
                                        /\ i + 1 \in DOMAIN todo
                                        /\ i + 1 = Len(todo) => i = Len(todo) - 1
    BY <1>1, <1>2
  <2>2. \A i \in DOMAIN Tail(todo) : Tail(todo)[i][2] = "create" => i = Len(Tail(todo))
    BY <1>2, <2>1 DEF CreateLast
  <2>3. f.op = "create" => Tail(todo) = <<>>
    <3>1. 1 \in DOMAIN todo
      BY <1>1, <1>2
    <3>2. f.op = "create" => Len(todo) = 1
      BY <1>2, <1>3, <1>7, <3>1 DEF CreateLast
    <3>3. Len(todo) = 1 => Tail(todo) = <<>>
      BY <1>2, <1>3, <2>1
    <3> QED
      BY <3>2, <3>3
  <2> QED
    BY <1>1, <1>8, <1>9, <2>2, <2>3 DEF CreateLast
<1>13. InPhase' /\ KeyKept'
  BY <1>1 DEF IInv, InPhase, KeyKept, Usable, disk
<1> QED
  BY <1>10, <1>11, <1>12, <1>13 DEF IInv
------------------------------------------------------------------------------
(* The command and the cache.                                              *)

LEMMA EndsKept ==
    ASSUME IInv, NEW how \in {"err", "panicked"}, NEW why, Ends(how, why),
           why \in {"emulator", "locator", "disk", "cache", "module", "arguments", "plugin", "panic"},
           cache' = cache, rival' = rival, died' \in SUBSET Modules, command' = command,
           calls' = calls
    PROVE  IInv'
<1>1. /\ phase' = "done" /\ outcome' = how /\ fault' = why
      /\ loads' = <<>> /\ todo' = <<>> /\ stack' = <<>>
  BY DEF Ends
<1>2. TypeOK'
  BY <1>1, PluginAssumption DEF IInv, TypeOK
<1>3. StackOK' /\ CreateLast'
  BY <1>1 DEF StackOK, CreateLast
<1>4. InPhase' /\ KeyKept'
  BY <1>1 DEF IInv, InPhase, KeyKept
<1> QED
  BY <1>2, <1>3, <1>4 DEF IInv

LEMMA FinishKept == ASSUME IInv, Finish PROVE IInv'
<1>1. /\ phase = "calling" /\ phase' = "done" /\ outcome' = "ok" /\ fault' = "none"
      /\ loads' = <<>> /\ todo' = <<>> /\ stack' = <<>>
      /\ UNCHANGED <<disk, command, calls>>
  BY DEF Finish, Ready, Ends
<1>2. TypeOK'
  BY <1>1, PluginAssumption DEF IInv, TypeOK, disk
<1>3. StackOK' /\ CreateLast'
  BY <1>1 DEF StackOK, CreateLast
<1>4. InPhase' /\ KeyKept'
  BY <1>1 DEF IInv, InPhase, KeyKept, Usable, disk
<1> QED
  BY <1>2, <1>3, <1>4 DEF IInv

LEMMA FunctionsTyped ==
    ASSUME NEW cmd \in Commands \ {"List"}
    PROVE  /\ FunctionsOf[cmd] \in Seq(Functions)
           /\ \A i \in DOMAIN FunctionsOf[cmd] :
                FunctionsOf[cmd][i] = "create" => i = Len(FunctionsOf[cmd])
<1>1. /\ FunctionsOf["Call"] = <<"api", "create">> /\ FunctionsOf["Api"] = <<"api">>
      /\ FunctionsOf["Logo"] = <<"logo">> /\ FunctionsOf["Info"] = <<"api", "name">>
      /\ FunctionsOf["Load"] = <<>>
  BY DEF FunctionsOf
<1> DEFINE Good(s) == s \in Seq(Functions) /\ \A i \in DOMAIN s : s[i] = "create" => i = Len(s)
<1>2. Good(<<"api", "create">>) /\ Good(<<"api">>) /\ Good(<<"logo">>)
      /\ Good(<<"api", "name">>) /\ Good(<<>>)
  BY DEF Functions, Getters
<1> HIDE DEF Good
<1>3. Good(FunctionsOf[cmd])
  BY <1>1, <1>2 DEF Commands
<1> QED
  BY <1>3 DEF Good

LEMMA KeysTyped ==
    ASSUME NEW S \in SUBSET Modules, NEW keys \in SetToSeqs(S)
    PROVE  keys \in Seq(Modules)
<1>1. IsFiniteSet(S)
  BY PluginAssumption, FS_Subset
<1>2. Cardinality(S) \in Nat
  BY <1>1, FS_CardinalityType
<1> QED
  BY <1>2 DEF SetToSeqs

LEMMA LocateKept == ASSUME IInv, Locate PROVE IInv'
<1>1. /\ phase = "starting" /\ phase' = "loading" /\ outcome' = outcome /\ fault' = fault
      /\ UNCHANGED <<disk, command, stack, calls>> /\ stack = <<>>
  BY DEF Locate, IInv, InPhase
<1>2. command.cmd \in Commands /\ command.mod \in Modules
  BY DEF IInv, TypeOK
<1>3. /\ loads' \in Seq(Modules)
      /\ todo' \in Seq(Modules \X Functions)
      /\ \A i \in DOMAIN todo' : todo'[i][2] = "create" => i = Len(todo')
      /\ command.cmd # "List" => loads' = <<command.mod>>
  <2>1. CASE command.cmd = "List"
    <3>1. PICK keys \in SetToSeqs({m \in Modules : cache[m] # "absent"}) :
            loads' = keys /\ todo' = [i \in DOMAIN keys |-> <<keys[i], "name">>]
      BY <2>1 DEF Locate
    <3>2. keys \in Seq(Modules)
      BY KeysTyped
    <3>3. Len(keys) \in Nat /\ DOMAIN keys = 1..Len(keys) /\ \A i \in 1..Len(keys) : keys[i] \in Modules
      BY <3>2, Elements
    <3> DEFINE t == [i \in 1..Len(keys) |-> <<keys[i], "name">>]
    <3>4. \A i \in 1..Len(keys) : t[i] \in Modules \X Functions /\ t[i][2] = "name"
      BY <3>3 DEF Functions, Getters
    <3>5. t \in Seq(Modules \X Functions) /\ DOMAIN t = 1..Len(keys)
      BY <3>3, <3>4
    <3>6. todo' = t
      BY <3>1, <3>3
    <3> HIDE DEF t
    <3> QED
      BY <2>1, <3>1, <3>2, <3>4, <3>5, <3>6
  <2>2. CASE command.cmd # "List"
    <3> DEFINE fs == FunctionsOf[command.cmd]
               t == [i \in DOMAIN fs |-> <<command.mod, fs[i]>>]
    <3>1. loads' = <<command.mod>> /\ todo' = t
      BY <2>2 DEF Locate
    <3>2. fs \in Seq(Functions) /\ \A i \in DOMAIN fs : fs[i] = "create" => i = Len(fs)
      BY <1>2, <2>2, FunctionsTyped
    <3> HIDE DEF fs
    <3>3. Len(fs) \in Nat /\ DOMAIN fs = 1..Len(fs) /\ \A i \in 1..Len(fs) : fs[i] \in Functions
      BY <3>2, Elements
    <3>4. \A i \in DOMAIN fs : t[i] \in Modules \X Functions /\ t[i][2] = fs[i]
      BY <1>2, <3>3
    <3>5. t \in Seq(Modules \X Functions) /\ DOMAIN t = DOMAIN fs /\ Len(t) = Len(fs)
      BY <3>3, <3>4
    <3> HIDE DEF t
    <3>6. <<command.mod>> \in Seq(Modules)
      BY <1>2, Single
    <3> QED
      BY <3>1, <3>2, <3>4, <3>5, <3>6
  <2> QED
    BY <2>1, <2>2
<1>4. TypeOK'
  BY <1>1, <1>3 DEF IInv, TypeOK, disk
<1>5. StackOK' /\ CreateLast'
  BY <1>1, <1>3 DEF StackOK, CreateLast
<1>6. InPhase' /\ KeyKept'
  BY <1>1, <1>3 DEF IInv, InPhase, KeyKept, disk
<1> QED
  BY <1>4, <1>5, <1>6 DEF IInv

(* No instance is in use while modules are loaded.                         *)
LEMMA LoadingStep ==
    ASSUME IInv, UNCHANGED <<rival, command, todo, stack, calls, outcome, fault>>,
           phase \in {"loading", "missed", "writing", "instantiating"},
           phase' \in {"loading", "missed", "writing", "instantiating", "calling"},
           loads' \in Seq(Modules), died' \in SUBSET Modules,
           cache' \in [Modules -> {"absent", "partial", "whole"}],
           (command.cmd # "List" /\ phase' # "calling") => loads' = <<command.mod>>,
           phase' \in {"missed", "writing", "instantiating"} => loads' # <<>>,
           KeyKept'
    PROVE  IInv'
<1>1. stack = <<>>
  BY DEF IInv, InPhase
<1>2. TypeOK'
  BY DEF IInv, TypeOK
<1>3. StackOK' /\ CreateLast'
  BY <1>1 DEF IInv, StackOK, CreateLast
<1>4. InPhase'
  BY <1>1 DEF IInv, InPhase
<1> QED
  BY <1>2, <1>3, <1>4 DEF IInv

LEMMA LoadNothingKept == ASSUME IInv, LoadNothing PROVE IInv'
<1>1. /\ phase = "loading" /\ loads = <<>> /\ phase' = "calling" /\ loads' = loads
      /\ UNCHANGED <<cache, rival, died, command, todo, stack, calls, outcome, fault>>
  BY DEF LoadNothing, disk
<1>2. command.cmd = "List"
  BY <1>1 DEF IInv, InPhase
<1>3. KeyKept'
  BY <1>1, <1>2 DEF IInv, KeyKept
<1>4. TypeOK
  BY DEF IInv
<1> QED
  BY <1>1, <1>3, <1>4, LoadingStep DEF TypeOK

LEMMA LoadCachedKept == ASSUME IInv, LoadCached PROVE IInv'
<1>1. /\ phase = "loading" /\ cache[Head(loads)] = "whole" /\ phase' = "instantiating"
      /\ loads # <<>> /\ loads' = loads
      /\ UNCHANGED <<cache, rival, died, command, todo, stack, calls, outcome, fault>>
  BY DEF LoadCached, disk
<1>2. command.cmd # "List" => loads = <<command.mod>> /\ Head(loads) = command.mod
  BY <1>1 DEF IInv, InPhase
<1>3. KeyKept'
  BY <1>1, <1>2 DEF IInv, KeyKept, Usable
<1>4. TypeOK
  BY DEF IInv
<1> QED
  BY <1>1, <1>2, <1>3, <1>4, LoadingStep DEF TypeOK

LEMMA LoadMissesKept == ASSUME IInv, LoadMisses PROVE IInv'
<1>1. CASE ByBytes
  <2>1. /\ phase = "loading" /\ phase' = "missed" /\ loads # <<>> /\ loads' = loads
        /\ UNCHANGED <<cache, rival, died, command, todo, stack, calls, outcome, fault>>
    BY <1>1 DEF LoadMisses, disk
  <2>2. command.cmd # "List" => loads = <<command.mod>>
    BY <2>1 DEF IInv, InPhase
  <2>3. KeyKept'
    BY <2>1 DEF IInv, KeyKept, Usable
  <2>4. TypeOK
    BY DEF IInv
  <2> QED
    BY <2>1, <2>2, <2>3, <2>4, LoadingStep DEF TypeOK
<1>2. CASE ~ByBytes
  <2>1. Ends("err", "cache") /\ UNCHANGED <<cache, rival, died, command, calls>>
    BY <1>2 DEF LoadMisses, disk
  <2>2. died \in SUBSET Modules
    BY DEF IInv, TypeOK
  <2> QED
    BY <2>1, <2>2, EndsKept
<1> QED
  BY <1>1, <1>2

LEMMA StoreKept == ASSUME IInv, Store PROVE IInv'
<1>1. /\ phase = "missed" /\ phase' = "writing" /\ loads' = loads
      /\ cache' = [cache EXCEPT ![command.mod] = "partial"]
      /\ UNCHANGED <<rival, died, command, todo, stack, calls, outcome, fault>>
  BY DEF Store
<1>2. /\ command.cmd # "List" => loads = <<command.mod>>
      /\ outcome # "ok" /\ loads # <<>>
  BY <1>1 DEF IInv, InPhase
<1>3. TypeOK
  BY DEF IInv
<1>4. cache' \in [Modules -> {"absent", "partial", "whole"}]
      /\ \A m \in Modules : cache'[m] = cache[m] \/ cache'[m] = "partial"
  BY <1>1, <1>3 DEF TypeOK
<1>5. KeyKept'
  BY <1>1, <1>2, <1>4 DEF IInv, KeyKept
<1> QED
  BY <1>1, <1>2, <1>3, <1>4, <1>5, LoadingStep DEF TypeOK

LEMMA WriteKept == ASSUME IInv, Write PROVE IInv'
<1>1. /\ phase = "writing" /\ phase' = "instantiating" /\ loads' = loads
      /\ UNCHANGED <<rival, command, todo, stack, calls, outcome, fault>>
      /\ cache' = [cache EXCEPT ![command.mod] = "whole"]
           \/ (cache' = cache /\ rival = [pc |-> "writing", mod |-> command.mod])
      /\ died' = StillDead
  BY DEF Write, Stored
<1>2. TypeOK
  BY DEF IInv
<1>3. died' \in SUBSET Modules
  BY <1>1, <1>2 DEF StillDead, TypeOK
<1>4. command.mod \in Modules /\ cache' \in [Modules -> {"absent", "partial", "whole"}]
  BY <1>1, <1>2 DEF TypeOK
<1>5. /\ command.cmd # "List" => loads = <<command.mod>>
      /\ outcome # "ok" /\ loads # <<>>
  BY <1>1 DEF IInv, InPhase
<1>6. /\ \A m \in Modules : cache'[m] = cache[m] \/ cache'[m] = "whole"
      /\ Usable'
  BY <1>1, <1>2, <1>4 DEF TypeOK, Usable
<1>7. KeyKept'
  BY <1>1, <1>6 DEF IInv, KeyKept
<1> QED
  BY <1>1, <1>2, <1>3, <1>4, <1>5, <1>7, LoadingStep DEF TypeOK

LEMMA StoreFailsKept == ASSUME IInv, StoreFails PROVE IInv'
<1>1. PICK why \in {"module", "disk"} : Ends("err", why)
  BY DEF StoreFails
<1>2. /\ UNCHANGED <<cache, rival, command, calls>>
      /\ died' = died \/ died' = died \cup {command.mod}
  BY DEF StoreFails
<1>3. died' \in SUBSET Modules
  BY <1>2 DEF IInv, TypeOK
<1> QED
  BY <1>1, <1>2, <1>3, EndsKept

LEMMA InstantiateKept == ASSUME IInv, Instantiate PROVE IInv'
<1>1. /\ phase = "instantiating" /\ loads' = Tail(loads)
      /\ phase' = IF Len(loads) = 1 THEN "calling" ELSE "loading"
      /\ UNCHANGED <<cache, rival, died, command, todo, stack, calls, outcome, fault>>
  BY DEF Instantiate, disk
<1>2. TypeOK
  BY DEF IInv
<1>3. /\ command.cmd # "List" => loads = <<command.mod>> /\ Len(loads) = 1
      /\ loads # <<>>
  BY <1>1 DEF IInv, InPhase
<1>4. KeyKept'
  BY <1>1, <1>3 DEF IInv, KeyKept, Usable
<1> QED
  BY <1>1, <1>2, <1>3, <1>4, LoadingStep DEF TypeOK

LEMMA FailuresKept ==
    ASSUME IInv,
           \/ LocateFails \/ InstanceFails \/ RefuseArguments
           \/ InfoPanics \/ CallFails \/ EmulatorPanics
    PROVE  IInv'
<1>1. /\ \E how \in {"err", "panicked"} :
           \E why \in {"emulator", "locator", "disk", "module", "arguments", "plugin", "panic"} :
             Ends(how, why)
      /\ UNCHANGED <<cache, rival, died, command, calls>>
  BY DEF LocateFails, InstanceFails, RefuseArguments, InfoPanics, CallFails,
         EmulatorPanics, disk
<1>2. died \in SUBSET Modules
  BY DEF IInv, TypeOK
<1> QED
  BY <1>1, <1>2, EndsKept
------------------------------------------------------------------------------
(* The rival.                                                              *)

LEMMA RivalStep ==
    ASSUME IInv, UNCHANGED mine, KeyKept',
           cache' \in [Modules -> {"absent", "partial", "whole"}],
           rival' \in [pc : {"none", "missed", "writing"}, mod : Modules \cup {NoModule}],
           died' \in SUBSET Modules
    PROVE  IInv'
<1>1. TypeOK'
  BY DEF IInv, TypeOK, mine
<1>2. StackOK'
  BY DEF IInv, StackOK, Path, mine
<1>3. CreateLast' /\ InPhase'
  BY DEF IInv, CreateLast, InPhase, mine
<1> QED
  BY <1>1, <1>2, <1>3 DEF IInv

LEMMA RivalMissesKept == ASSUME IInv, NEW m \in Modules, RivalMisses(m) PROVE IInv'
<1>1. /\ rival.pc = "none" /\ rival' = [pc |-> "missed", mod |-> m]
      /\ cache' = cache /\ died' = died /\ UNCHANGED mine
  BY DEF RivalMisses
<1>2. KeyKept'
  BY <1>1 DEF IInv, KeyKept, Usable, mine
<1>3. TypeOK
  BY DEF IInv
<1> QED
  BY <1>1, <1>2, <1>3, RivalStep DEF TypeOK

LEMMA RivalCreatesKept == ASSUME IInv, RivalCreates PROVE IInv'
<1>1. /\ rival.pc = "missed" /\ cache' = [cache EXCEPT ![rival.mod] = "partial"]
      /\ rival' = [rival EXCEPT !.pc = "writing"] /\ died' = died /\ UNCHANGED mine
  BY DEF RivalCreates
<1>2. TypeOK
  BY DEF IInv
<1>3. /\ rival' \in [pc : {"none", "missed", "writing"}, mod : Modules \cup {NoModule}]
      /\ rival' = [pc |-> "writing", mod |-> rival.mod]
      /\ rival'.pc = "writing" /\ rival'.mod = rival.mod /\ rival.mod \in Modules
  BY <1>1, <1>2 DEF TypeOK, IInv, KeyKept
<1>4. /\ cache' \in [Modules -> {"absent", "partial", "whole"}]
      /\ cache'[rival.mod] = "partial"
      /\ \A m \in Modules : m # rival.mod => cache'[m] = cache[m]
  BY <1>1, <1>2, <1>3 DEF TypeOK
<1>5. Usable => Usable'
  <2>1. command.mod \in Modules /\ command' = command
    BY <1>1, <1>2 DEF TypeOK, mine
  <2>2. CASE command.mod = rival.mod
    BY <1>3, <2>1, <2>2 DEF Usable
  <2>3. CASE command.mod # rival.mod
    <3>1. rival # [pc |-> "writing", mod |-> command.mod]
      BY <1>1
    <3> QED
      BY <1>1, <1>4, <2>1, <2>3, <3>1 DEF Usable
  <2> QED
    BY <2>2, <2>3
<1>6. KeyKept'
  BY <1>1, <1>3, <1>4, <1>5 DEF IInv, KeyKept, mine
<1> QED
  BY <1>1, <1>2, <1>3, <1>4, <1>6, RivalStep DEF TypeOK

LEMMA RivalWritesKept == ASSUME IInv, RivalWrites PROVE IInv'
<1> DEFINE contended == phase = "writing" /\ command.mod = rival.mod
<1>1. /\ rival.pc = "writing" /\ rival' = [pc |-> "none", mod |-> NoModule]
      /\ cache' = [cache EXCEPT ![rival.mod] = "whole"] \/ (contended /\ cache' = cache)
      /\ died' = StillDead /\ UNCHANGED mine
  BY DEF RivalWrites, Stored
<1>2. TypeOK
  BY DEF IInv
<1>3. rival.mod \in Modules /\ rival'.pc = "none"
  BY <1>1 DEF IInv, KeyKept
<1>4. /\ cache' \in [Modules -> {"absent", "partial", "whole"}]
      /\ contended \/ cache'[rival.mod] = "whole"
      /\ \A m \in Modules : cache'[m] = cache[m] \/ cache'[m] = "whole"
  BY <1>1, <1>2, <1>3 DEF TypeOK
<1>5. died' \in SUBSET Modules
  BY <1>1, <1>2 DEF StillDead, TypeOK
<1>6. ASSUME Usable, phase # "writing" PROVE Usable'
  <2>1. command.mod \in Modules /\ command' = command
    BY <1>1, <1>2 DEF TypeOK, mine
  <2>2. CASE rival = [pc |-> "writing", mod |-> command.mod]
    <3>1. rival.mod = command.mod
      BY <2>2
    <3> QED
      BY <1>4, <1>6, <2>1, <3>1 DEF Usable
  <2>3. CASE cache[command.mod] = "whole"
    BY <1>4, <2>1, <2>3 DEF Usable
  <2>4. CASE command.mod \in died
    BY <1>1, <1>4, <2>1, <2>4 DEF Usable, StillDead
  <2> QED
    BY <1>6, <2>2, <2>3, <2>4 DEF Usable
<1>7. KeyKept'
  BY <1>1, <1>3, <1>6 DEF IInv, KeyKept, InPhase, mine
<1> QED
  BY <1>1, <1>4, <1>5, <1>7, RivalStep

LEMMA RivalDiesKept == ASSUME IInv, RivalDies PROVE IInv'
<1>1. /\ rival.pc # "none" /\ rival' = [pc |-> "none", mod |-> NoModule]
      /\ died' = IF rival.pc = "writing" /\ cache[rival.mod] = "partial"
                 THEN died \cup {rival.mod} ELSE died
      /\ cache' = cache /\ UNCHANGED mine
  BY DEF RivalDies
<1>2. TypeOK
  BY DEF IInv
<1>3. rival.mod \in Modules /\ (rival.pc = "writing" => cache[rival.mod] # "absent")
  BY <1>1 DEF IInv, KeyKept
<1>4. died \subseteq died' /\ died' \in SUBSET Modules
  BY <1>1, <1>2, <1>3 DEF TypeOK
<1>5. Usable => Usable'
  <2>1. command.mod \in Modules /\ command' = command
    BY <1>1, <1>2 DEF TypeOK, mine
  <2>2. CASE rival = [pc |-> "writing", mod |-> command.mod]
    <3>1. rival.mod = command.mod /\ rival.pc = "writing"
      BY <2>2
    <3>2. cache[command.mod] \in {"partial", "whole"}
      BY <1>2, <1>3, <2>1, <3>1 DEF TypeOK
    <3> QED
      BY <1>1, <2>1, <3>1, <3>2 DEF Usable
  <2>3. CASE cache[command.mod] = "whole" \/ command.mod \in died
    BY <1>1, <1>4, <2>1, <2>3 DEF Usable
  <2> QED
    BY <2>2, <2>3 DEF Usable
<1>6. KeyKept'
  BY <1>1, <1>5 DEF IInv, KeyKept, mine
<1> QED
  BY <1>1, <1>2, <1>4, <1>6, RivalStep DEF TypeOK
------------------------------------------------------------------------------
LEMMA Inductive == IInv /\ [Next]_vars => IInv'
<1> SUFFICES ASSUME IInv, [Next]_vars PROVE IInv'
  OBVIOUS
<1>1. CASE Loading
  BY <1>1, LocateKept, FailuresKept, LoadNothingKept, LoadCachedKept, LoadMissesKept,
     StoreKept, WriteKept, StoreFailsKept, InstantiateKept DEF Loading
<1>2. CASE Calling
  BY <1>2, CallNextKept, FinishKept, FailuresKept DEF Calling
<1>3. CASE Instance
  <2>1. CASE \/ PassArgs \/ PassPath \/ Enter \/ Get \/ ReturnNull \/ Trap \/ TakeAnswer
             \/ Emulate \/ EmulatorPanics \/ ModuleRefused
    BY <2>1, PassArgsKept, PassPathKept, EnterKept, GetKept, ReturnNullKept,
       TrapKept, TakeAnswerKept,
       EmulateKept, FailuresKept, ModuleRefusedKept
  <2>2. CASE \E ok \in BOOLEAN : Return(ok) \/ ReadResult(ok) \/ DropNull(ok) \/ Answer(ok)
    BY <2>2, ReturnKept, ReadResultKept, DropNullKept, AnswerKept
  <2>3. CASE \E locator \in Locators, op \in Functions : CallModule(locator, op)
    BY <2>3, CallModuleKept
  <2> QED
    BY <1>3, <2>1, <2>2, <2>3 DEF Instance
<1>4. CASE Rival
  BY <1>4, RivalMissesKept, RivalCreatesKept, RivalWritesKept, RivalDiesKept DEF Rival
<1>5. CASE UNCHANGED vars
  <2>1. KeyKept' /\ UNCHANGED mine /\ UNCHANGED <<cache, rival, died>>
    BY <1>5 DEF IInv, KeyKept, Usable, vars, mine
  <2>2. TypeOK
    BY DEF IInv
  <2> QED
    BY <2>1, <2>2, RivalStep DEF TypeOK
<1> QED
  BY <1>1, <1>2, <1>3, <1>4, <1>5 DEF Next

LEMMA Invariant == Spec => []IInv
BY Initially, Inductive, PTL DEF Spec

(* The state of a command and the cache keeps its types: instances nest no *)
(* deeper than allowed.                                                    *)
THEOREM TypeCorrect == Spec => []TypeOK
<1>1. IInv => TypeOK
  BY DEF IInv
<1> QED
  BY <1>1, Invariant, PTL

(* However plugins call each other, trap and fail, each string is freed by *)
(* the one side that holds it, and none is left when a call has returned.  *)
THEOREM StringsAlwaysHeldOnce == Spec => []StringsHeldOnce
<1>1. IInv => StringsHeldOnce
  <2> SUFFICES ASSUME IInv, NEW i \in 1..Len(stack), stack[i].pc # "trapped"
               PROVE  /\ stack[i].live = stack[i].host \cup stack[i].guest
                      /\ stack[i].host \cap stack[i].guest = {}
                      /\ stack[i].pc \in {"start", "ended"} => stack[i].live = {}
    BY Zenon DEF StringsHeldOnce
  <2>1. stack[i] \in Frames /\ Held(stack[i])
    BY DEF IInv, TypeOK, StackOK
  <2> QED
    BY <2>1 DEF Frames, Held
<1> QED
  BY <1>1, Invariant, PTL

(* The path of a context names the plugins that were called, however deep. *)
THEOREM RoutesAlwaysStack == Spec => []RouteIsStack
<1>1. IInv => RouteIsStack
  <2> SUFFICES ASSUME IInv, NEW i \in 1..Len(stack), stack[i].op = "create",
                      stack[i].pc \in {"guest", "waiting", "answered"}
               PROVE  stack[i].route = Path(i)
    BY Zenon DEF RouteIsStack, Path
  <2>1. Routed(stack[i], Path(i - 1))
    BY DEF IInv, StackOK
  <2>2. Path(i) = Append(Path(i - 1), stack[i].mod)
    BY NextPath DEF IInv, TypeOK
  <2> QED
    BY <2>1, <2>2 DEF Routed
<1> QED
  BY <1>1, Invariant, PTL

(* A key a command reported or used is good, whatever the rival did before *)
(* or does afterwards, unless it writes the file or died writing it.       *)
THEOREM KeyAlwaysUsable == Spec => []KeyUsable
<1>1. IInv => KeyUsable
  BY DEF IInv, KeyKept, Usable, KeyUsable
<1> QED
  BY <1>1, Invariant, PTL
==============================================================================
