------------------------ MODULE StudioServer_proofs ------------------------
(***************************************************************************)
(* The request server answers in order, one at a time, and ends well only  *)
(* when nothing is left, for any number of requests.  The invariant        *)
(* follows each request on its way: printed, awaited, in the inbox, on     *)
(* stdin, in the order of their numbers and without a gap.                 *)
(***************************************************************************)
EXTENDS StudioServer, SequenceTheorems, TLAPS

\* Requests main has taken out of its inbox.
Passed == Len(printed) + (IF main = "awaiting" THEN 1 ELSE 0)

\* A queue of requests whose numbers follow n.
Numbered(q, n) == \A i \in 1..Len(q) : q[i].id = n + i

\* Until the front end has failed or finished, no request is missing between client and printer.
NoGap ==
    result = "none" =>
        /\ Numbered(inbox, Passed)
        /\ Numbered(stdin, Passed + Len(inbox))
        /\ written = Passed + Len(inbox) + Len(stdin)

\* The request main waits for is the next to print, and it is in exactly one place.
Awaited ==
    IF main = "awaiting"
    THEN /\ reply.id = Len(printed) + 1
         /\ \/ reply.state = "open" /\ server = "idle" /\ Len(chan) = 1 /\ chan[1] = reply.id
            \/ reply.state = "open" /\ server = "handling" /\ chan = <<>> /\ current = reply.id
            \/ reply.state = "answered" /\ server = "idle" /\ chan = <<>>
            \/ reply.state = "dropped" /\ server = "panicked" /\ chan = <<>>
    ELSE reply = NoReply /\ chan = <<>> /\ server # "handling"

\* Main is done with the server before it lets it go.
Ending ==
    /\ main \in {"receiving", "awaiting"} => shutdown = "open"
    /\ server = "stopped" => shutdown # "open"
    /\ (result = "none") <=> main \in {"receiving", "awaiting", "joining"}
    /\ main = "joining" => inbox = <<>> /\ reader = "ended"

\* The reader ends at the end of stdin, or right after a bad request it has passed on.
ReaderEnds ==
    reader = "ended" /\ result = "none" =>
        \/ closed /\ stdin = <<>>
        \/ inbox # <<>> /\ inbox[Len(inbox)].form = "bad"

Order == NoGap /\ Awaited /\ Ending /\ ReaderEnds /\ PrintedInOrder /\ OkMeansAnswered

IInv == TypeOK /\ Order

\* What the head and the tail of a queue are.
LEMMA QueueFacts ==
    ASSUME NEW S, NEW q \in Seq(S), q # <<>>
    PROVE  /\ Head(q) = q[1] /\ Head(q) \in S
           /\ Tail(q) \in Seq(S) /\ Len(Tail(q)) = Len(q) - 1
           /\ \A i \in 1..Len(Tail(q)) : Tail(q)[i] = q[i + 1]
           /\ Len(q) \in Nat \ {0}
OBVIOUS

\* Requests have a number and a form.
LEMMA RequestFacts ==
    /\ \A r \in Requests : r.id \in 1..MaxRequests /\ r.form \in {"good", "bad"}
    /\ \A i \in 1..MaxRequests, f \in {"good", "bad"} :
        /\ [id |-> i, form |-> f] \in Requests
        /\ [id |-> i, form |-> f].id = i
        /\ [id |-> i, form |-> f].form = f
BY DEF Requests

\* Taking the first request of a numbered queue, and adding one at its end.
LEMMA NumberedTail ==
    ASSUME NEW q \in Seq(Requests), q # <<>>, NEW n \in Nat, Numbered(q, n)
    PROVE  Head(q).id = n + 1 /\ Numbered(Tail(q), n + 1)
<1>1. /\ Head(q) = q[1] /\ Len(Tail(q)) = Len(q) - 1 /\ Len(q) \in Nat \ {0}
      /\ \A i \in 1..Len(Tail(q)) : Tail(q)[i] = q[i + 1]
  BY QueueFacts
<1>2. Head(q).id = n + 1 BY <1>1 DEF Numbered
<1>3. ASSUME NEW i \in 1..Len(Tail(q)) PROVE Tail(q)[i].id = (n + 1) + i
  <2>1. i + 1 \in 1..Len(q) /\ Tail(q)[i] = q[i + 1] BY <1>1
  <2>2. q[i + 1].id = n + (i + 1) BY <2>1 DEF Numbered
  <2>3. n + (i + 1) = (n + 1) + i BY <1>1
  <2>4. QED BY <2>1, <2>2, <2>3
<1>4. QED BY <1>2, <1>3 DEF Numbered

LEMMA NumberedAppend ==
    ASSUME NEW q \in Seq(Requests), NEW r \in Requests, NEW n \in Nat,
           Numbered(q, n), r.id = n + Len(q) + 1
    PROVE  Numbered(Append(q, r), n)
<1>1. /\ Len(Append(q, r)) = Len(q) + 1 /\ Len(q) \in Nat
      /\ \A i \in 1..Len(q) : Append(q, r)[i] = q[i] /\ Append(q, r)[Len(q) + 1] = r
  BY AppendProperties
<1>2. ASSUME NEW i \in 1..Len(Append(q, r)) PROVE Append(q, r)[i].id = n + i
  <2>1. CASE i = Len(q) + 1
    <3>1. Append(q, r)[i] = r BY <1>1, <2>1
    <3>2. n + i = n + Len(q) + 1 BY <1>1, <2>1
    <3>3. QED BY <3>1, <3>2
  <2>2. CASE i # Len(q) + 1
    <3>1. i \in 1..Len(q) /\ Append(q, r)[i] = q[i] BY <1>1, <2>2
    <3>2. QED BY <3>1 DEF Numbered
  <2>3. QED BY <2>1, <2>2
<1>3. QED BY <1>2 DEF Numbered

\* Types, one action at a time.
LEMMA StepTypes == ASSUME IInv, [Next]_vars PROVE TypeOK'
<1> USE RequestsAssumption, RequestFacts
<1> USE DEF IInv, Order, TypeOK, NoReply, client
<1>1. ASSUME NEW form \in {"good", "bad"}, WriteRequest(form) PROVE TypeOK'
  <2>1. written + 1 \in 1..MaxRequests BY <1>1 DEF WriteRequest
  <2>2. [id |-> written + 1, form |-> form] \in Requests BY <2>1
  <2>3. QED BY <1>1, <2>1, <2>2 DEF WriteRequest
<1>2. CASE CloseStdin BY <1>2 DEF CloseStdin
<1>3. CASE ReadRequest
  <2>1. Head(stdin) \in Requests /\ Tail(stdin) \in Seq(Requests) BY <1>3, QueueFacts DEF ReadRequest
  <2>2. QED BY <1>3, <2>1 DEF ReadRequest
<1>4. CASE ReadEnd BY <1>4 DEF ReadEnd
<1>5. CASE ReceiveRequest
  <2>1. Head(inbox) \in Requests /\ Tail(inbox) \in Seq(Requests) BY <1>5, QueueFacts DEF ReceiveRequest
  <2>2. Head(inbox).id \in 1..MaxRequests BY <2>1
  <2>3. CASE EarlyReturn /\ UNCHANGED chan BY <1>5, <2>3 DEF ReceiveRequest, EarlyReturn
  <2>4. CASE ~(EarlyReturn /\ UNCHANGED chan)
    <3>1. /\ chan' = Append(chan, Head(inbox).id)
          /\ reply' = [id |-> Head(inbox).id, state |-> "open"]
          /\ inbox' = Tail(inbox) /\ main' = "awaiting" /\ UNCHANGED <<result, shutdown>>
      BY <1>5, <2>4 DEF ReceiveRequest
    <3>2. chan' \in Seq(1..MaxRequests) BY <2>2, <3>1
    <3>3. reply' \in [id : 0..MaxRequests, state : {"none", "open", "answered", "dropped"}] BY <2>2, <3>1
    <3>4. QED BY <1>5, <2>1, <3>1, <3>2, <3>3 DEF ReceiveRequest
  <2>5. QED BY <2>3, <2>4
<1>6. CASE PrintResponse
  <2>1. Len(printed) \in Nat /\ reply.id = Len(printed) + 1 BY <1>6 DEF PrintResponse, Awaited
  <2>2. reply.id \in 1..MaxRequests BY <2>1
  <2>3. printed' \in Seq(1..MaxRequests) BY <1>6, <2>2 DEF PrintResponse
  <2>4. NoReply \in [id : 0..MaxRequests, state : {"none", "open", "answered", "dropped"}] OBVIOUS
  <2>5. QED BY <1>6, <2>3, <2>4 DEF PrintResponse
<1>7. CASE ResponseLost BY <1>7 DEF ResponseLost, EarlyReturn
<1>8. CASE SendShutdown
  <2>1. CASE EarlyReturn
    <3>0. UNCHANGED <<written, closed, stdin, reader, chan, server, current, printed>> BY <1>8 DEF SendShutdown
    <3>1. reply' \in [id : 0..MaxRequests, state : {"none", "open", "answered", "dropped"}] BY <2>1 DEF EarlyReturn
    <3>2. inbox' \in Seq(Requests) /\ main' = "dropping" /\ result' = "err" /\ shutdown' = "closed"
      BY <2>1 DEF EarlyReturn
    <3>3. QED BY <3>0, <3>1, <3>2
  <2>2. CASE server \in {"idle", "handling"} BY <1>8, <2>2 DEF SendShutdown
  <2>3. QED BY <1>8, <2>1, <2>2 DEF SendShutdown
<1>9. CASE JoinReader BY <1>9 DEF JoinReader
<1>10. CASE DropRuntime BY <1>10 DEF DropRuntime
<1>11. CASE Stop BY <1>11 DEF Stop
<1>12. CASE TakeRequest
  <2>1. Head(chan) \in 1..MaxRequests /\ Tail(chan) \in Seq(1..MaxRequests) BY <1>12, QueueFacts DEF TakeRequest
  <2>2. QED BY <1>12, <2>1 DEF TakeRequest
<1>13. CASE Answer BY <1>13 DEF Answer, Replied
<1>14. CASE Panic BY <1>14 DEF Panic, Replied
<1>15. CASE UNCHANGED vars BY <1>15 DEF vars
<1>16. QED BY <1>1, <1>2, <1>3, <1>4, <1>5, <1>6, <1>7, <1>8, <1>9, <1>10, <1>11, <1>12, <1>13, <1>14, <1>15
         DEF Next, Client, Reader, Main, ServerTask

\* An early return keeps the order: nothing but the failure itself is left to say.
LEMMA EarlyReturnOrder ==
    ASSUME IInv, TypeOK', EarlyReturn, main \in {"receiving", "awaiting"},
           UNCHANGED <<written, closed, stdin, reader, printed, server, chan>>,
           chan = <<>>, server \in {"idle", "panicked"}
    PROVE  Order'
BY DEF IInv, Order, EarlyReturn, NoGap, Passed, Awaited, Ending, ReaderEnds, PrintedInOrder, OkMeansAnswered

\* The order of the requests, one action at a time.
LEMMA StepOrder == ASSUME IInv, TypeOK', [Next]_vars PROVE Order'
<1> USE RequestsAssumption
<1> USE DEF IInv, Order, client
<1>0. /\ stdin \in Seq(Requests) /\ inbox \in Seq(Requests) /\ printed \in Seq(1..MaxRequests)
      /\ chan \in Seq(1..MaxRequests) /\ written \in Nat
      /\ Len(stdin) \in Nat /\ Len(inbox) \in Nat /\ Len(printed) \in Nat /\ Len(chan) \in Nat
  BY DEF TypeOK
<1>1. ASSUME NEW form \in {"good", "bad"}, WriteRequest(form) PROVE Order'
  <2>1. NoGap'
    <3>1. [id |-> written + 1, form |-> form] \in Requests /\ [id |-> written + 1, form |-> form].id = written + 1
      <4>1. written + 1 \in 1..MaxRequests BY <1>0, <1>1 DEF WriteRequest
      <4>2. QED BY <4>1, RequestFacts
    <3>2. SUFFICES ASSUME result = "none" PROVE NoGap' BY <1>1 DEF WriteRequest, NoGap
    <3>3. /\ Numbered(inbox, Passed) /\ Numbered(stdin, Passed + Len(inbox))
          /\ written = Passed + Len(inbox) + Len(stdin)
          /\ Passed \in Nat /\ Passed' = Passed
      BY <1>0, <1>1, <3>2 DEF WriteRequest, NoGap, Passed
    <3>4. Numbered(stdin', Passed + Len(inbox))
      BY <1>0, <1>1, <3>1, <3>3, NumberedAppend DEF WriteRequest
    <3>5. Len(stdin') = Len(stdin) + 1 BY <1>0, <1>1, <3>1, AppendProperties DEF WriteRequest
    <3>6. QED BY <1>0, <1>1, <3>3, <3>4, <3>5 DEF WriteRequest, NoGap
  <2>2. ReaderEnds' BY <1>0, <1>1 DEF WriteRequest, ReaderEnds
  <2>3. QED BY <1>1, <2>1, <2>2 DEF WriteRequest, Awaited, Ending, PrintedInOrder, OkMeansAnswered
<1>2. CASE CloseStdin
  BY <1>0, <1>2 DEF CloseStdin, NoGap, Passed, Awaited, Ending, ReaderEnds, PrintedInOrder, OkMeansAnswered
<1>3. CASE ReadRequest
  <2>1. /\ Head(stdin) = stdin[1] /\ Len(Tail(stdin)) = Len(stdin) - 1 /\ Len(stdin) > 0
        /\ \A i \in 1..Len(Tail(stdin)) : Tail(stdin)[i] = stdin[i + 1]
        /\ Head(stdin) \in Requests
    BY <1>0, <1>3, QueueFacts DEF ReadRequest
  <2>2. ASSUME MainReceives
        PROVE  /\ Len(inbox') = Len(inbox) + 1
               /\ \A i \in 1..Len(inbox) : inbox'[i] = inbox[i]
               /\ inbox'[Len(inbox) + 1] = stdin[1] /\ inbox' # <<>>
    <3>1. inbox' = Append(inbox, Head(stdin)) BY <1>3, <2>2 DEF ReadRequest
    <3>2. inbox \in Seq(Requests) /\ Head(stdin) \in Requests BY <1>0, <2>1
    <3>3. /\ Append(inbox, Head(stdin)) # <<>> /\ Len(Append(inbox, Head(stdin))) = Len(inbox) + 1
          /\ \A i \in 1..Len(inbox) : Append(inbox, Head(stdin))[i] = inbox[i]
          /\ Append(inbox, Head(stdin))[Len(inbox) + 1] = Head(stdin)
      BY <3>2, AppendProperties
    <3>4. QED BY <2>1, <3>1, <3>3
  <2>3. NoGap'
    <3>1. SUFFICES ASSUME result = "none" PROVE NoGap' BY <1>3 DEF ReadRequest, NoGap
    <3>2. /\ MainReceives /\ Passed' = Passed /\ Passed \in Nat
          /\ inbox' = Append(inbox, Head(stdin)) /\ stdin' = Tail(stdin) /\ stdin # <<>>
      BY <1>0, <1>3, <3>1 DEF ReadRequest, Ending, MainReceives, Passed
    <3>3. /\ Numbered(inbox, Passed) /\ Numbered(stdin, Passed + Len(inbox))
          /\ written = Passed + Len(inbox) + Len(stdin)
      BY <3>1 DEF NoGap
    <3>4. Head(stdin).id = Passed + Len(inbox) + 1 /\ Numbered(stdin', Passed + Len(inbox) + 1)
      BY <1>0, <3>2, <3>3, NumberedTail
    <3>5. Numbered(inbox', Passed) BY <1>0, <2>1, <3>2, <3>3, <3>4, NumberedAppend
    <3>6. Len(inbox') = Len(inbox) + 1 /\ Len(stdin') = Len(stdin) - 1 BY <2>1, <2>2, <3>2
    <3>7. Passed + Len(inbox) + 1 = Passed + Len(inbox') BY <1>0, <3>2, <3>6
    <3>8. written' = Passed + Len(inbox') + Len(stdin') BY <1>0, <1>3, <3>2, <3>3, <3>6 DEF ReadRequest
    <3>9. QED BY <3>2, <3>4, <3>5, <3>7, <3>8 DEF NoGap
  <2>4. ReaderEnds'
    <3>1. SUFFICES ASSUME result = "none", reader' = "ended" PROVE ReaderEnds' BY <1>3 DEF ReadRequest, ReaderEnds
    <3>2. MainReceives BY <3>1 DEF Ending, MainReceives
    <3>3. stdin[1].form = "bad" BY <1>3, <2>1, <3>1, <3>2, RequestFacts DEF ReadRequest, ReaderGoesOn
    <3>4. QED BY <1>0, <2>2, <3>2, <3>3 DEF ReaderEnds
  <2>5. Ending' BY <1>3 DEF ReadRequest, Ending
  <2>6. QED BY <1>3, <2>3, <2>4, <2>5 DEF ReadRequest, Awaited, PrintedInOrder, OkMeansAnswered
<1>4. CASE ReadEnd
  BY <1>0, <1>4 DEF ReadEnd, NoGap, Passed, Awaited, Ending, ReaderEnds, PrintedInOrder, OkMeansAnswered
<1>5. CASE ReceiveRequest
  <2>1. chan = <<>> /\ server # "handling" /\ server # "stopped" /\ result = "none"
    BY <1>5 DEF ReceiveRequest, Awaited, Ending
  <2>2. /\ Head(inbox) = inbox[1] /\ Len(Tail(inbox)) = Len(inbox) - 1 /\ Len(inbox) > 0
        /\ \A i \in 1..Len(Tail(inbox)) : Tail(inbox)[i] = inbox[i + 1]
    BY <1>0, <1>5, QueueFacts DEF ReceiveRequest
  <2>3. CASE EarlyReturn /\ UNCHANGED chan
    BY <1>5, <2>1, <2>3, EarlyReturnOrder DEF ReceiveRequest, TypeOK
  <2>4. CASE ~(EarlyReturn /\ UNCHANGED chan)
    <3>1. /\ chan' = Append(chan, Head(inbox).id) /\ server = "idle" /\ Head(inbox).form = "good"
          /\ reply' = [id |-> Head(inbox).id, state |-> "open"]
          /\ inbox' = Tail(inbox) /\ main = "receiving" /\ main' = "awaiting"
          /\ UNCHANGED <<result, shutdown, written, closed, stdin, reader, server, current, printed>>
      BY <1>5, <2>1, <2>4 DEF ReceiveRequest
    <3>a. Passed = Len(printed) /\ Passed' = Passed + 1 BY <1>0, <3>1 DEF Passed
    <3>b. /\ Numbered(inbox, Passed) /\ Numbered(stdin, Passed + Len(inbox))
          /\ written = Passed + Len(inbox) + Len(stdin)
      BY <2>1 DEF NoGap
    <3>c. Head(inbox).id = Len(printed) + 1 /\ Numbered(inbox', Passed')
      BY <1>0, <2>2, <3>1, <3>a, <3>b, NumberedTail
    <3>d. Passed' + Len(inbox') = Passed + Len(inbox)
      <4> HIDE DEF IInv, Order
      <4>1. Len(inbox') = Len(Tail(inbox)) BY <3>1
      <4>2. Len(inbox') = Len(inbox) - 1 BY <2>2, <4>1
      <4>3. Passed \in Nat BY <1>0, <3>a
      <4>4. QED BY <1>0, <3>a, <4>2, <4>3
    <3>e. written' = Passed' + Len(inbox') + Len(stdin') BY <3>1, <3>b, <3>d
    <3>2. NoGap' /\ Head(inbox).id = Len(printed) + 1 BY <3>1, <3>b, <3>c, <3>d, <3>e DEF NoGap
    <3>3. Awaited'
      <4>1. Len(chan') = 1 /\ chan'[1] = Head(inbox).id BY <2>1, <3>1
      <4>2. QED BY <3>1, <3>2, <4>1 DEF Awaited
    <3>4. ReaderEnds'
      <4>1. SUFFICES ASSUME reader = "ended", inbox[Len(inbox)].form = "bad" PROVE ReaderEnds'
        BY <2>1, <3>1 DEF ReaderEnds
      <4>2. Len(inbox) # 1 BY <2>2, <3>1, <4>1
      <4>a. Len(inbox') = Len(inbox) - 1 /\ Len(inbox') \in 1..Len(Tail(inbox)) /\ Len(inbox') + 1 = Len(inbox)
        <5> DEFINE n == Len(inbox)
                   m == Len(Tail(inbox))
        <5>1. Len(inbox') = m BY <3>1
        <5>2. n \in Nat /\ n > 0 /\ m = n - 1 BY <1>0, <2>2
        <5>3. n # 1 BY <4>2
        <5> HIDE DEF n, m
        <5>4. m = n - 1 /\ m \in 1..m /\ m + 1 = n BY <5>2, <5>3
        <5>5. QED BY <5>1, <5>4 DEF n, m
      <4>b. Tail(inbox)[Len(inbox')] = inbox[Len(inbox') + 1] BY <2>2, <4>a
      <4>3. Len(inbox') \in 1..Len(Tail(inbox)) /\ inbox'[Len(inbox')] = inbox[Len(inbox)]
        BY <3>1, <4>a, <4>b
      <4>4. inbox' # <<>> BY <4>3
      <4>5. QED BY <4>1, <4>3, <4>4 DEF ReaderEnds
    <3>5. QED BY <2>1, <3>1, <3>2, <3>3, <3>4 DEF Ending, PrintedInOrder, OkMeansAnswered
  <2>5. QED BY <2>3, <2>4
<1>6. CASE PrintResponse
  <2>1. reply.id = Len(printed) + 1 /\ server = "idle" /\ chan = <<>> BY <1>6 DEF PrintResponse, Awaited
  <2>2. /\ Len(printed') = Len(printed) + 1 /\ printed'[Len(printed) + 1] = reply.id
        /\ \A i \in 1..Len(printed) : printed'[i] = printed[i]
    BY <1>0, <1>6 DEF PrintResponse
  <2>3. PrintedInOrder'
    <3>a. Len(printed) \in Nat /\ Len(printed') = Len(printed) + 1 BY <1>0, <2>2
    <3>1. \A i \in 1..Len(printed') : i \in 1..Len(printed) \/ i = Len(printed) + 1
      <4> HIDE DEF IInv, Order
      <4>1. QED BY <3>a
    <3>2. QED BY <2>1, <2>2, <3>1 DEF PrintedInOrder
  <2>4. NoGap' BY <1>0, <1>6, <2>2 DEF PrintResponse, NoGap, Passed
  <2>5. QED BY <1>6, <2>1, <2>3, <2>4 DEF PrintResponse, Awaited, Ending, ReaderEnds, OkMeansAnswered
<1>7. CASE ResponseLost
  BY <1>7, EarlyReturnOrder DEF ResponseLost, Awaited
<1>8. CASE SendShutdown
  <2>1. chan = <<>> /\ server # "handling" /\ server # "stopped" BY <1>8 DEF SendShutdown, Awaited, Ending
  <2>2. CASE EarlyReturn BY <1>8, <2>1, <2>2, EarlyReturnOrder DEF SendShutdown, TypeOK
  <2>3. CASE ~EarlyReturn
    BY <1>0, <1>8, <2>1, <2>3
       DEF SendShutdown, NoGap, Passed, Awaited, Ending, ReaderEnds, PrintedInOrder, OkMeansAnswered
  <2>4. QED BY <2>2, <2>3
<1>9. CASE JoinReader
  <2>1. inbox = <<>> /\ closed /\ stdin = <<>> /\ result = "none"
    BY <1>9 DEF JoinReader, Ending, ReaderEnds
  <2>2. Len(printed) = written BY <1>0, <1>9, <2>1 DEF JoinReader, NoGap, Passed
  <2>3. QED BY <1>9, <2>1, <2>2
            DEF JoinReader, NoGap, Awaited, Ending, ReaderEnds, PrintedInOrder, OkMeansAnswered
<1>10. CASE DropRuntime
  BY <1>10 DEF DropRuntime, NoGap, Passed, Awaited, Ending, ReaderEnds, PrintedInOrder, OkMeansAnswered
<1>11. CASE Stop
  BY <1>11 DEF Stop, NoGap, Passed, Awaited, Ending, ReaderEnds, PrintedInOrder, OkMeansAnswered, TypeOK
<1>12. CASE TakeRequest
  <2>1. main = "awaiting" /\ Len(chan) = 1 /\ chan[1] = reply.id /\ reply.state = "open"
    BY <1>12 DEF TakeRequest, Awaited
  <2>2. chan' = <<>> /\ current' = reply.id
    <3>1. Tail(chan) \in Seq(1..MaxRequests) /\ Len(Tail(chan)) = 0 /\ Head(chan) = chan[1]
      BY <1>0, <1>12, <2>1, QueueFacts DEF TakeRequest
    <3>2. Tail(chan) = <<>> BY <3>1, EmptySeq
    <3>3. QED BY <1>12, <2>1, <3>1, <3>2 DEF TakeRequest
  <2>3. Awaited' BY <1>12, <2>1, <2>2 DEF TakeRequest, Awaited
  <2>4. QED BY <1>12, <2>3 DEF TakeRequest, NoGap, Passed, Ending, ReaderEnds, PrintedInOrder, OkMeansAnswered
<1>13. CASE Answer
  BY <1>13 DEF Answer, Replied, NoGap, Passed, Awaited, Ending, ReaderEnds, PrintedInOrder, OkMeansAnswered
<1>14. CASE Panic
  BY <1>14 DEF Panic, Replied, NoGap, Passed, Awaited, Ending, ReaderEnds, PrintedInOrder, OkMeansAnswered
<1>15. CASE UNCHANGED vars
  BY <1>15 DEF vars, NoGap, Passed, Awaited, Ending, ReaderEnds, PrintedInOrder, OkMeansAnswered
<1>16. QED BY <1>1, <1>2, <1>3, <1>4, <1>5, <1>6, <1>7, <1>8, <1>9, <1>10, <1>11, <1>12, <1>13, <1>14, <1>15
         DEF Next, Client, Reader, Main, ServerTask

LEMMA Initial == Init => IInv
<1> SUFFICES ASSUME Init PROVE IInv OBVIOUS
<1> USE RequestsAssumption DEF Init
<1>1. TypeOK
  <2>1. PICK f \in FrontEnds :
           IF f = "stdin"
           THEN written = 0 /\ closed = FALSE /\ reader = "reading" /\ inbox = <<>>
           ELSE written = 1 /\ closed = TRUE /\ reader = "ended" /\ inbox = <<[id |-> 1, form |-> "good"]>>
    OBVIOUS
  <2>2. [id |-> 1, form |-> "good"] \in Requests
    <3>1. 1 \in 1..MaxRequests OBVIOUS
    <3>2. QED BY <3>1 DEF Requests
  <2>3. NoReply \in [id : 0..MaxRequests, state : {"none", "open", "answered", "dropped"}] BY DEF NoReply
  <2>4. <<>> \in Seq(Requests) /\ <<>> \in Seq(1..MaxRequests) OBVIOUS
  <2>a. <<[id |-> 1, form |-> "good"]>> \in Seq(Requests) BY <2>2
  <2>5. inbox \in Seq(Requests) /\ written \in 0..MaxRequests /\ closed \in BOOLEAN
        /\ reader \in {"reading", "ended"}
    <3>1. CASE f = "stdin"
      <4>1. written = 0 /\ closed = FALSE /\ reader = "reading" /\ inbox = <<>> BY <2>1, <3>1
      <4>2. inbox \in Seq(Requests) BY <2>4, <4>1
      <4>3. written \in 0..MaxRequests BY <4>1
      <4>4. QED BY <4>1, <4>2, <4>3
    <3>2. CASE f # "stdin"
      <4>1. written = 1 /\ closed = TRUE /\ reader = "ended" /\ inbox = <<[id |-> 1, form |-> "good"]>>
        BY <2>1, <3>2
      <4>2. inbox \in Seq(Requests) BY <2>a, <4>1
      <4>3. written \in 0..MaxRequests BY <4>1
      <4>4. QED BY <4>1, <4>2, <4>3
    <3>3. QED BY <3>1, <3>2
  <2>6. QED BY <2>1, <2>3, <2>4, <2>5 DEF TypeOK
<1>2. NoGap
  <2>1. Passed = 0 BY DEF Passed
  <2>2. CASE inbox = <<>> /\ written = 0 BY <2>1, <2>2 DEF NoGap, Numbered
  <2>3. CASE inbox = <<[id |-> 1, form |-> "good"]>> /\ written = 1
    <3>1. Len(inbox) = 1 /\ inbox[1].id = 1 BY <2>3
    <3>2. QED BY <2>1, <2>3, <3>1 DEF NoGap, Numbered
  <2>4. QED BY <2>2, <2>3
<1>3. Awaited /\ Ending /\ PrintedInOrder /\ OkMeansAnswered
  BY DEF Awaited, Ending, PrintedInOrder, OkMeansAnswered
<1>4. ReaderEnds BY DEF ReaderEnds
<1>5. QED BY <1>1, <1>2, <1>3, <1>4 DEF IInv, Order

THEOREM Invariant == Spec => []IInv
<1>1. IInv /\ [Next]_vars => IInv'
  BY StepTypes, StepOrder DEF IInv
<1>2. QED BY Initial, <1>1, PTL DEF Spec

\* The server's state keeps its types for any number of requests.
THEOREM TypeCorrect == Spec => []TypeOK
<1>1. IInv => TypeOK BY DEF IInv
<1>2. QED BY Invariant, <1>1, PTL

\* The k-th response printed answers the k-th request made.
THEOREM AnswersInOrder == Spec => []PrintedInOrder
<1>1. IInv => PrintedInOrder BY DEF IInv, Order
<1>2. QED BY Invariant, <1>1, PTL

\* Shutdown finds the server without a request, in its hands or in its channel.
THEOREM StopsWithoutLoss == Spec => []OneAtATime
<1>1. IInv => OneAtATime
  <2> SUFFICES ASSUME IInv PROVE OneAtATime OBVIOUS
  <2>1. chan \in Seq(1..MaxRequests) BY DEF IInv, TypeOK
  <2>2. CASE main = "awaiting"
    <3>a. server # "stopped" BY <2>2 DEF IInv, Order, Ending
    <3>b. Len(chan) = 1 \/ chan = <<>> BY <2>2 DEF IInv, Order, Awaited
    <3>c. Len(chan) = 1 \/ Len(chan) = 0 BY <3>b
    <3> DEFINE n == Len(chan)
    <3>d. n = 1 \/ n = 0 BY <3>c
    <3> HIDE DEF n
    <3>e. n <= 1 BY <3>d
    <3>1. server # "stopped" /\ Len(chan) <= 1 BY <3>a, <3>e DEF n
    <3>2. server = "handling" => chan = <<>> /\ current = reply.id BY <2>1, <2>2 DEF IInv, Order, Awaited
    <3>3. QED BY <3>1, <3>2 DEF OneAtATime
  <2>3. CASE main # "awaiting"
    <3>1. reply = NoReply /\ chan = <<>> /\ server # "handling" BY <2>3 DEF IInv, Order, Awaited
    <3>2. reply.state = "none" BY <3>1 DEF NoReply
    <3>3. QED BY <3>1, <3>2 DEF OneAtATime
  <2>4. QED BY <2>2, <2>3
<1>2. QED BY Invariant, <1>1, PTL

\* A front end that returns Ok has answered everything.
THEOREM OkIsComplete == Spec => []OkMeansAnswered
<1>1. IInv => OkMeansAnswered BY DEF IInv, Order
<1>2. QED BY Invariant, <1>1, PTL
-----------------------------------------------------------------------------
\* The front end's status as the abstract service sees it.
Status == IF result = "none" THEN "serving" ELSE result

\* What a step of the abstract service is, without its module's names.
LEMMA ServiceStep ==
    ASSUME \/ written' = written + 1 /\ Len(printed') = Len(printed) /\ Status' = Status
           \/ /\ Status = "serving" /\ Len(printed) < written /\ Len(printed') = Len(printed) + 1
              /\ written' = written /\ Status' = Status
           \/ /\ Status = "serving" /\ Len(printed) = written /\ Status' = "ok"
              /\ written' = written /\ Len(printed') = Len(printed)
           \/ Status = "serving" /\ Status' = "err" /\ written' = written /\ Len(printed') = Len(printed)
           \/ written' = written /\ Len(printed') = Len(printed) /\ Status' = Status
    PROVE  [Impl!Next]_<<written, Len(printed), Status>>
BY DEF Impl!Next, Impl!Ask, Impl!Answer, Impl!EndWell, Impl!EndBadly, Impl!vars, Status

\* Every step of the server is a step of the service or invisible to its clients.
LEMMA StepServes == ASSUME IInv, [Next]_vars PROVE [Impl!Next]_<<written, Len(printed), Status>>
<1> USE DEF client
<1>1. CASE Client
  BY <1>1, ServiceStep DEF Client, WriteRequest, CloseStdin, Status
<1>2. CASE Reader BY <1>2, ServiceStep DEF Reader, ReadRequest, ReadEnd, Status
<1>3. CASE ServerTask
  BY <1>3, ServiceStep DEF ServerTask, Stop, TakeRequest, Answer, Panic, Status
<1>4. CASE UNCHANGED vars BY <1>4, ServiceStep DEF vars, Status
<1>5. CASE ReceiveRequest
  <2>1. result = "none" /\ written' = written /\ printed' = printed
    BY <1>5 DEF ReceiveRequest, IInv, Order, Ending
  <2>2. result' = "none" \/ result' = "err" BY <1>5, <2>1 DEF ReceiveRequest, EarlyReturn
  <2>3. QED BY <2>1, <2>2, ServiceStep DEF Status
<1>6. CASE PrintResponse
  <2>1. /\ result = "none" /\ result' = result /\ written' = written
        /\ printed' = Append(printed, reply.id) /\ main = "awaiting"
    BY <1>6 DEF PrintResponse, IInv, Order, Ending
  <2>2. Len(printed') = Len(printed) + 1 /\ Len(printed) \in Nat BY <2>1 DEF IInv, TypeOK
  <2>3. Len(printed) < written
    <3>1. written = Len(printed) + 1 + Len(inbox) + Len(stdin) BY <2>1 DEF IInv, Order, NoGap, Passed
    <3>2. Len(inbox) \in Nat /\ Len(stdin) \in Nat BY DEF IInv, TypeOK
    <3> DEFINE p == Len(printed)
               i == Len(inbox)
               s == Len(stdin)
    <3>3. p \in Nat /\ i \in Nat /\ s \in Nat /\ written = p + 1 + i + s BY <2>2, <3>1, <3>2
    <3> HIDE DEF p, i, s
    <3>4. p < written BY <3>3
    <3>5. QED BY <3>4 DEF p
  <2>4. QED BY <2>1, <2>2, <2>3, ServiceStep DEF Status
<1>7. CASE ResponseLost
  <2>1. result = "none" /\ result' = "err" /\ written' = written /\ printed' = printed
    BY <1>7 DEF ResponseLost, EarlyReturn, IInv, Order, Ending
  <2>2. QED BY <2>1, ServiceStep DEF Status
<1>8. CASE SendShutdown
  <2>1. result = "none" /\ written' = written /\ printed' = printed
    BY <1>8 DEF SendShutdown, IInv, Order, Ending
  <2>2. result' = "none" \/ result' = "err" BY <1>8, <2>1 DEF SendShutdown, EarlyReturn
  <2>3. QED BY <2>1, <2>2, ServiceStep DEF Status
<1>9. CASE JoinReader
  <2>1. result = "none" /\ result' = "ok" /\ written' = written /\ printed' = printed
    BY <1>9 DEF JoinReader, IInv, Order, Ending
  <2>2. OkMeansAnswered' BY <1>9, StepTypes, StepOrder DEF Order, Next, Main
  <2>3. Len(printed) = written BY <2>1, <2>2 DEF OkMeansAnswered
  <2>4. QED BY <2>1, <2>3, ServiceStep DEF Status
<1>10. CASE DropRuntime BY <1>10, ServiceStep DEF DropRuntime, Status
<1>11. QED BY <1>1, <1>2, <1>3, <1>4, <1>5, <1>6, <1>7, <1>8, <1>9, <1>10 DEF Next, Main

LEMMA InitServes == Init => Impl!Init
<1> SUFFICES ASSUME Init PROVE Impl!Init OBVIOUS
<1>1. written \in Nat /\ result = "none" /\ printed = <<>> BY DEF Init
<1>2. Len(printed) = 0 BY <1>1
<1>3. QED BY <1>1, <1>2 DEF Impl!Init

(***************************************************************************)
(* The two front ends with their tasks and channels implement the abstract *)
(* service: requests in order, one at a time, a good end only when all are *)
(* answered.                                                               *)
(***************************************************************************)
THEOREM RefinesRequestService == Spec => ServiceSpec
<1>1. IInv /\ [Next]_vars => [Impl!Next]_Impl!vars
  <2>1. ASSUME IInv, [Next]_vars PROVE [Impl!Next]_Impl!vars
    <3>1. [Impl!Next]_<<written, Len(printed), Status>> BY <2>1, StepServes
    <3>2. QED BY <3>1 DEF Impl!vars, Status
  <2>2. QED BY <2>1
<1>2. QED BY Invariant, InitServes, <1>1, PTL DEF Spec, ServiceSpec, Impl!Spec
=============================================================================
