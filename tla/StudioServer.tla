---------------------------- MODULE StudioServer ----------------------------
(***************************************************************************)
(* The request server of sapio-cli and the two front ends that use it:     *)
(*   - run_server_stdin: a blocking thread (the reader) parses requests    *)
(*     from stdin and passes them through a channel (inbox) to the main    *)
(*     task, which passes each one through a second channel (chan) to the  *)
(*     server task and waits on a oneshot (reply) for the response;        *)
(*   - the contract subcommands, which do the same for the one request     *)
(*     they make themselves.                                               *)
(* Requests are numbered in the order the client makes them.  What a       *)
(* command does is the business of PluginHost and BindPsbt: here its       *)
(* handler answers (with a result or an error: both are responses) or      *)
(* panics, which takes the server task with it.                            *)
(***************************************************************************)
EXTENDS Naturals, Sequences

CONSTANTS
    FrontEnds,      \* a subset of {"stdin", "contract"}
    MaxRequests     \* bound: requests a client makes

ASSUME RequestsAssumption == MaxRequests \in Nat \ {0} /\ FrontEnds \subseteq {"stdin", "contract"}

VARIABLES
    written,        \* how many requests the client has made
    closed,         \* the client has closed stdin
    stdin,          \* requests written and not yet read
    reader,         \* the spawn_blocking thread of run_server_stdin
    inbox,          \* what the reader has sent and main has not received
    main,           \* where the main task is
    result,         \* what the front end returns
    chan,           \* the server's channel
    server,         \* the server task
    current,        \* the request the server task is handling
    reply,          \* the oneshot of the request main is waiting for
    shutdown,       \* the broadcast channel: "open", "sent" or "closed" (sender dropped)
    printed         \* the responses printed, by the number of their request

client == <<written, closed>>
vars == <<client, stdin, reader, inbox, main, result, chan, server, current, reply, shutdown, printed>>

Requests == [id : 1..MaxRequests, form : {"good", "bad"}]
NoReply == [id |-> 0, state |-> "none"]

TypeOK ==
    /\ written \in 0..MaxRequests
    /\ closed \in BOOLEAN
    /\ stdin \in Seq(Requests)
    /\ reader \in {"reading", "ended"}
    /\ inbox \in Seq(Requests)
    /\ main \in {"receiving", "awaiting", "joining", "dropping", "exited"}
    /\ result \in {"none", "ok", "err"}
    /\ chan \in Seq(1..MaxRequests)
    /\ server \in {"idle", "handling", "stopped", "panicked"}
    /\ current \in 0..MaxRequests
    /\ reply \in [id : 0..MaxRequests, state : {"none", "open", "answered", "dropped"}]
    /\ shutdown \in {"open", "sent", "closed"}
    /\ printed \in Seq(1..MaxRequests)

(***************************************************************************)
(* With --stdin everything is yet to come; a contract subcommand has made  *)
(* its one request when the server is started.                             *)
(***************************************************************************)
Init ==
    /\ \E frontEnd \in FrontEnds :
        IF frontEnd = "stdin"
        THEN /\ written = 0 /\ closed = FALSE /\ reader = "reading" /\ inbox = <<>>
        ELSE /\ written = 1 /\ closed = TRUE /\ reader = "ended"
             /\ inbox = <<[id |-> 1, form |-> "good"]>>
    /\ stdin = <<>>
    /\ main = "receiving"
    /\ result = "none"
    /\ chan = <<>>
    /\ server = "idle"
    /\ current = 0
    /\ reply = NoReply
    /\ shutdown = "open"
    /\ printed = <<>>
-----------------------------------------------------------------------------
(* The client.                                                             *)

\* A request, well formed or not, arrives on stdin; nothing makes the client wait for responses.
WriteRequest(form) ==
    /\ ~closed
    /\ written < MaxRequests
    /\ written' = written + 1
    /\ stdin' = Append(stdin, [id |-> written + 1, form |-> form])
    /\ UNCHANGED <<closed, reader, inbox, main, result, chan, server, current, reply, shutdown, printed>>

CloseStdin ==
    /\ ~closed
    /\ closed' = TRUE
    /\ UNCHANGED <<written, stdin, reader, inbox, main, result, chan, server, current, reply, shutdown, printed>>
-----------------------------------------------------------------------------
(* The reader thread.                                                      *)

\* The receiving end of the reader's channel lives in the main task.
MainReceives == main \in {"receiving", "awaiting", "joining"}

\* The iterator ends after its first error, and the loop when nobody receives any more.
ReaderGoesOn(request) == request.form = "good" /\ MainReceives

\* Mutant: what was read last is received first.
MutReadOrder ==
    /\ reader = "reading"
    /\ stdin # <<>>
    /\ stdin' = Tail(stdin)
    /\ inbox' = IF MainReceives THEN <<Head(stdin)>> \o inbox ELSE inbox
    /\ reader' = IF ReaderGoesOn(Head(stdin)) THEN "reading" ELSE "ended"
    /\ UNCHANGED <<client, main, result, chan, server, current, reply, shutdown, printed>>

ReadRequest ==
    /\ reader = "reading"
    /\ stdin # <<>>
    /\ stdin' = Tail(stdin)
    /\ inbox' = IF MainReceives THEN Append(inbox, Head(stdin)) ELSE inbox
    /\ reader' = IF ReaderGoesOn(Head(stdin)) THEN "reading" ELSE "ended"
    /\ UNCHANGED <<client, main, result, chan, server, current, reply, shutdown, printed>>

ReadEnd ==
    /\ reader = "reading"
    /\ stdin = <<>>
    /\ closed
    /\ reader' = "ended"
    /\ UNCHANGED <<client, stdin, inbox, main, result, chan, server, current, reply, shutdown, printed>>
-----------------------------------------------------------------------------
(* The main task.                                                          *)

\* An early return drops the receiver of the reader's channel and both senders to the server.
EarlyReturn ==
    /\ main' = "dropping"
    /\ result' = "err"
    /\ inbox' = <<>>
    /\ reply' = NoReply
    /\ shutdown' = "closed"

\* json? and the send: the receiver is gone when the server task has ended.
ReceiveRequest ==
    /\ main = "receiving"
    /\ inbox # <<>>
    /\ IF Head(inbox).form = "good" /\ server \in {"idle", "handling"}
       THEN /\ chan' = Append(chan, Head(inbox).id)
            /\ reply' = [id |-> Head(inbox).id, state |-> "open"]
            /\ inbox' = Tail(inbox)
            /\ main' = "awaiting"
            /\ UNCHANGED <<result, shutdown>>
       ELSE EarlyReturn /\ UNCHANGED chan
    /\ UNCHANGED <<client, stdin, reader, server, current, printed>>

PrintResponse ==
    /\ main = "awaiting"
    /\ reply.state = "answered"
    /\ printed' = Append(printed, reply.id)
    /\ reply' = NoReply
    /\ main' = "receiving"
    /\ UNCHANGED <<client, stdin, reader, inbox, result, chan, server, current, shutdown>>

\* b_rx.await?: the sender was dropped without an answer.
ResponseLost ==
    /\ main = "awaiting"
    /\ reply.state = "dropped"
    /\ EarlyReturn
    /\ UNCHANGED <<client, stdin, reader, chan, server, current, printed>>

\* Mutant: shutdown is sent when stdin has ended, though requests that were read wait in the inbox.
MutShutdownUnread ==
    /\ main = "receiving"
    /\ reader = "ended"
    /\ shutdown' = "sent"
    /\ main' = "joining"
    /\ UNCHANGED <<client, stdin, reader, result, inbox, reply, chan, server, current, printed>>

\* The reader has ended and everything it sent was received: shutdown_server.send(())?.
SendShutdown ==
    /\ main = "receiving"
    /\ inbox = <<>>
    /\ reader = "ended"
    /\ IF server \in {"idle", "handling"}
       THEN /\ shutdown' = "sent"
            /\ main' = "joining"
            /\ UNCHANGED <<result, inbox, reply>>
       ELSE EarlyReturn
    /\ UNCHANGED <<client, stdin, reader, chan, server, current, printed>>

\* stream.await?
JoinReader ==
    /\ main = "joining"
    /\ reader = "ended"
    /\ main' = "dropping"
    /\ result' = "ok"
    /\ UNCHANGED <<client, stdin, reader, inbox, chan, server, current, reply, shutdown, printed>>

\* Mutant: the exit waits for the server task to have stopped by itself.
MutDropRuntime ==
    /\ main = "dropping"
    /\ reader = "ended"
    /\ server = "stopped"
    /\ main' = "exited"
    /\ UNCHANGED <<client, stdin, reader, inbox, result, chan, server, current, reply, shutdown, printed>>

\* Dropping the runtime waits for blocking threads; tasks end where they await.
DropRuntime ==
    /\ main = "dropping"
    /\ reader = "ended"
    /\ server # "handling"
    /\ main' = "exited"
    /\ UNCHANGED <<client, stdin, reader, inbox, result, chan, server, current, reply, shutdown, printed>>
-----------------------------------------------------------------------------
(* The server task: a select between the two channels, in any order when   *)
(* both are ready.  A request is handled inside its arm of the select.     *)

Stop ==
    /\ server = "idle"
    /\ main # "exited"
    /\ shutdown # "open"
    /\ server' = "stopped"
    /\ chan' = <<>>
    /\ UNCHANGED <<client, stdin, reader, inbox, main, result, current, reply, shutdown, printed>>

TakeRequest ==
    /\ server = "idle"
    /\ main # "exited"
    /\ chan # <<>>
    /\ current' = Head(chan)
    /\ chan' = Tail(chan)
    /\ server' = "handling"
    /\ UNCHANGED <<client, stdin, reader, inbox, main, result, reply, shutdown, printed>>

\* Mutant: the oneshot's sender outlives a panic.
MutReplied(state) ==
    IF reply.id = current /\ state = "answered" THEN [id |-> current, state |-> state] ELSE reply

\* The fate of the oneshot's sender, if main still holds the receiver.
Replied(state) == IF reply.id = current THEN [id |-> current, state |-> state] ELSE reply

Answer ==
    /\ server = "handling"
    /\ reply' = Replied("answered")
    /\ server' = "idle"
    /\ current' = 0
    /\ UNCHANGED <<client, stdin, reader, inbox, main, result, chan, shutdown, printed>>

\* Info unwraps a description, the emulator an address, the plugin host an emulator's answer.
Panic ==
    /\ server = "handling"
    /\ reply' = Replied("dropped")
    /\ server' = "panicked"
    /\ current' = 0
    /\ chan' = <<>>
    /\ UNCHANGED <<client, stdin, reader, inbox, main, result, shutdown, printed>>
-----------------------------------------------------------------------------
Client == CloseStdin \/ \E form \in {"good", "bad"} : WriteRequest(form)
Reader == ReadRequest \/ ReadEnd
Main == ReceiveRequest \/ PrintResponse \/ ResponseLost \/ SendShutdown \/ JoinReader \/ DropRuntime
ServerTask == Stop \/ TakeRequest \/ Answer \/ Panic

Next == Client \/ Reader \/ Main \/ ServerTask

Spec == Init /\ [][Next]_vars

(***************************************************************************)
(* Threads and tasks that can move do; a handler returns or panics.        *)
(* Nothing obliges the client to write or to close stdin.                  *)
(***************************************************************************)
Fairness == WF_vars(Reader) /\ WF_vars(Main) /\ WF_vars(ServerTask)

FairSpec == Spec /\ Fairness
-----------------------------------------------------------------------------
(***************************************************************************)
(* Responses are printed in the order of the requests, one for each, so a  *)
(* client may pair them by position: they carry no number.                 *)
(***************************************************************************)
PrintedInOrder == \A i \in 1..Len(printed) : printed[i] = i

(***************************************************************************)
(* One request at a time: while one is being handled no other has been     *)
(* passed to the server, whatever the client has already written.  So the  *)
(* server never stops on a request it was sent: the shutdown that its      *)
(* select may prefer to a queued request is only sent when none is open.   *)
(***************************************************************************)
OneAtATime ==
    /\ Len(chan) <= 1
    /\ server = "handling" => chan = <<>> /\ current = reply.id
    /\ server = "stopped" => chan = <<>> /\ reply.state # "open"

(***************************************************************************)
(* A front end that returns Ok has answered every request ever made.       *)
(***************************************************************************)
OkMeansAnswered == result = "ok" => closed /\ Len(printed) = written

\* Requests in order, one at a time, and a good end only when all are answered.
Impl == INSTANCE RequestService WITH
    asked <- written, answered <- Len(printed), status <- IF result = "none" THEN "serving" ELSE result
ServiceSpec == Impl!Spec

(***************************************************************************)
(* Every request is answered, or the front end has failed: a pipelining    *)
(* client does not have to close stdin to get its responses.               *)
(***************************************************************************)
EveryRequestSettled ==
    \A i \in 1..MaxRequests : (written >= i) ~> (Len(printed) >= i \/ result = "err")

(***************************************************************************)
(* Once stdin is closed the process exits, also after a bad request and    *)
(* after a panic of the server task, when the reader may be blocked.       *)
(***************************************************************************)
ExitsWhenClosed == closed ~> main = "exited"
=============================================================================
