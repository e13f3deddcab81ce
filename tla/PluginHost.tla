----------------------------- MODULE PluginHost -----------------------------
(***************************************************************************)
(* One command of sapio-cli that uses plugins: it locates a module, takes  *)
(* it from the cache on disk or compiles and stores it, makes an instance  *)
(* of it (a handle) and calls the plugin's functions.  While it creates a  *)
(* contract a plugin may call others through the host: each gets an        *)
(* instance, and a memory, of its own, so the instances in use form a      *)
(* stack.  Strings cross the boundary as allocations in the memory of the  *)
(* instance, each to be freed by the side that holds it.                   *)
(*                                                                         *)
(* Another process (the rival) uses the same cache directory and may die.  *)
(* A server runs commands one after the other with nothing kept between    *)
(* them but the cache, of which Init takes every state.                    *)
(***************************************************************************)
EXTENDS Naturals, Sequences, FiniteSets, SequencesExt

CONSTANTS
    Modules,        \* plugins, by the hash of their bytes
    NoModule,       \* not a plugin: a name that is not mapped
    Names,          \* names the configuration may map to plugins
    ModuleMap,      \* the configured map, a function from some of Names to Modules
    Described,      \* modules whose API has a description
    MaxFrames,      \* bound: nested instances
    MaxHostCalls    \* bound: calls from plugins to the host

ASSUME PluginAssumption ==
    /\ IsFiniteSet(Modules) /\ NoModule \notin Modules
    /\ DOMAIN ModuleMap \subseteq Names
    /\ \A n \in DOMAIN ModuleMap : ModuleMap[n] \in Modules
    /\ Described \subseteq Modules
    /\ MaxFrames \in Nat \ {0} /\ MaxHostCalls \in Nat

VARIABLES
    cache,          \* per module, the file in the cache directory
    rival,          \* what the other process is doing
    died,           \* modules whose file the rival was writing when it died
    command,        \* the command and how its module is located
    phase,          \* where the command is
    loads,          \* modules the command has yet to load
    todo,           \* functions the command has yet to call, each with its module
    stack,          \* the instances in use, the running one last
    calls,          \* calls from plugins to the host so far
    outcome,        \* what became of the command
    fault           \* why it failed

vars == <<cache, rival, died, command, phase, loads, todo, stack, calls, outcome, fault>>
disk == <<cache, rival, died>>
mine == <<command, phase, loads, todo, stack, calls, outcome, fault>>

Commands == {"List", "Call", "Api", "Logo", "Info", "Load"}
Getters == {"api", "name", "logo"}
Functions == Getters \cup {"create"}
Strings == {"args", "path", "result", "answer"}

(***************************************************************************)
(* An instance while one of its functions is called.  live: its            *)
(* allocations; host and guest: those each side has a pointer to and must  *)
(* free; route: the path, cut down to the modules named in it; ok: whether *)
(* the result is Ok; trapped: an error of the instance itself.             *)
(***************************************************************************)
Frames ==
    [mod : Modules, op : Functions,
     pc : {"start", "args", "passed", "guest", "waiting", "answered", "returned", "null", "ended",
           "trapped"},
     live : SUBSET Strings, host : SUBSET Strings, guest : SUBSET Strings,
     route : Seq(Modules), ok : BOOLEAN]

Frame(m, op, route) ==
    [mod |-> m, op |-> op, pc |-> "start", live |-> {}, host |-> {}, guest |-> {}, route |-> route, ok |-> TRUE]

TypeOK ==
    /\ cache \in [Modules -> {"absent", "partial", "whole"}]
    /\ rival \in [pc : {"none", "missed", "writing"}, mod : Modules \cup {NoModule}]
    /\ died \in SUBSET Modules
    /\ command \in [cmd : Commands, locator : {"key", "bytes", "none"}, mod : Modules]
    /\ phase \in {"starting", "loading", "missed", "writing", "instantiating", "calling", "done"}
    /\ loads \in Seq(Modules)
    /\ todo \in Seq(Modules \X Functions)
    /\ stack \in Seq(Frames) /\ Len(stack) <= MaxFrames
    /\ calls \in 0..MaxHostCalls
    /\ outcome \in {"none", "ok", "err", "panicked"}
    /\ fault \in {"none", "emulator", "locator", "disk", "cache", "module", "arguments", "plugin", "panic"}

Init ==
    /\ cache \in [Modules -> {"absent", "partial", "whole"}]
    /\ rival = [pc |-> "none", mod |-> NoModule]
    /\ died = {m \in Modules : cache[m] = "partial"}
    /\ command \in [cmd : Commands, locator : {"key", "bytes", "none"}, mod : Modules]
    /\ phase = "starting"
    /\ loads = <<>>
    /\ todo = <<>>
    /\ stack = <<>>
    /\ calls = 0
    /\ outcome = "none"
    /\ fault = "none"
-----------------------------------------------------------------------------
(* The cache directory.  A file is truncated when it is created and then   *)
(* written: of two processes that write one file the first to end may      *)
(* leave a file with a hole, the last leaves it whole.                     *)

Stored(m, contended) == {[cache EXCEPT ![m] = "whole"]} \cup (IF contended THEN {cache} ELSE {})

\* Modules whose file stays broken because its writer died.
StillDead == {m \in died : cache'[m] # "whole"}

\* The rival loads by bytes too, and stores what it did not find.
RivalMisses(m) ==
    /\ rival.pc = "none"
    /\ cache[m] # "whole"
    /\ rival' = [pc |-> "missed", mod |-> m]
    /\ UNCHANGED <<cache, died, mine>>

RivalCreates ==
    /\ rival.pc = "missed"
    /\ rival' = [rival EXCEPT !.pc = "writing"]
    /\ cache' = [cache EXCEPT ![rival.mod] = "partial"]
    /\ UNCHANGED <<died, mine>>

RivalWrites ==
    /\ rival.pc = "writing"
    /\ cache' \in Stored(rival.mod, phase = "writing" /\ command.mod = rival.mod)
    /\ rival' = [pc |-> "none", mod |-> NoModule]
    /\ died' = StillDead
    /\ UNCHANGED mine

RivalDies ==
    /\ rival.pc # "none"
    /\ rival' = [pc |-> "none", mod |-> NoModule]
    /\ died' = IF rival.pc = "writing" /\ cache[rival.mod] = "partial" THEN died \cup {rival.mod} ELSE died
    /\ UNCHANGED <<cache, mine>>
-----------------------------------------------------------------------------
(* The command: emulator, locator, cache.                                  *)

\* An error, or a panic, ends the command and drops every instance.
Ends(how, why) ==
    /\ phase' = "done"
    /\ outcome' = how
    /\ fault' = why
    /\ loads' = <<>>
    /\ todo' = <<>>
    /\ stack' = <<>>

\* The functions the commands on one module call, in order.
FunctionsOf ==
    [Call |-> <<"api", "create">>, Api |-> <<"api">>, Logo |-> <<"logo">>, Info |-> <<"api", "name">>, Load |-> <<>>]

\* List loads every file of the directory for its name, the others the module they name.
Locate ==
    /\ phase = "starting"
    /\ IF command.cmd = "List"
       THEN \E keys \in SetToSeqs({m \in Modules : cache[m] # "absent"}) :
                loads' = keys /\ todo' = [i \in DOMAIN keys |-> <<keys[i], "name">>]
       ELSE LET functions == FunctionsOf[command.cmd] IN
            /\ command.locator # "none"
            /\ loads' = <<command.mod>>
            /\ todo' = [i \in DOMAIN functions |-> <<command.mod, functions[i]>>]
    /\ phase' = "loading"
    /\ UNCHANGED <<disk, command, stack, calls, outcome, fault>>

\* No emulator, no locator, an unknown one, a malformed key, an unreadable file or directory.
LocateFails ==
    /\ phase = "starting"
    /\ \E why \in {"emulator", "locator", "disk"} : Ends("err", why)
    /\ UNCHANGED <<disk, command, calls>>

\* The keys of List are those of the cache; bytes are the bytes of one module.
ByBytes == command.cmd # "List" /\ command.locator = "bytes"

\* Nothing to load: List found no files.
LoadNothing ==
    /\ phase = "loading"
    /\ loads = <<>>
    /\ phase' = "calling"
    /\ UNCHANGED <<disk, command, loads, todo, stack, calls, outcome, fault>>

LoadCached ==
    /\ phase = "loading"
    /\ loads # <<>>
    /\ cache[Head(loads)] = "whole"
    /\ phase' = "instantiating"
    /\ UNCHANGED <<disk, command, loads, todo, stack, calls, outcome, fault>>

\* Mutant: what was compiled is used but not stored.
MutLoadMisses ==
    /\ phase = "loading"
    /\ loads # <<>>
    /\ cache[Head(loads)] # "whole"
    /\ IF ByBytes
       THEN phase' = "instantiating" /\ UNCHANGED <<loads, todo, stack, outcome, fault>>
       ELSE Ends("err", "cache")
    /\ UNCHANGED <<disk, command, calls>>

\* load_module_key fails on a file that is absent or partial; load_module then compiles the bytes.
LoadMisses ==
    /\ phase = "loading"
    /\ loads # <<>>
    /\ cache[Head(loads)] # "whole"
    /\ IF ByBytes
       THEN phase' = "missed" /\ UNCHANGED <<loads, todo, stack, outcome, fault>>
       ELSE Ends("err", "cache")
    /\ UNCHANGED <<disk, command, calls>>

\* The bytes compile, and store_module creates the file.
Store ==
    /\ phase = "missed"
    /\ cache' = [cache EXCEPT ![command.mod] = "partial"]
    /\ phase' = "writing"
    /\ UNCHANGED <<rival, died, command, loads, todo, stack, calls, outcome, fault>>

Write ==
    /\ phase = "writing"
    /\ cache' \in Stored(command.mod, rival = [pc |-> "writing", mod |-> command.mod])
    /\ died' = StillDead
    /\ phase' = "instantiating"
    /\ UNCHANGED <<rival, command, loads, todo, stack, calls, outcome, fault>>

\* The bytes do not compile, or the file cannot be created or written.
StoreFails ==
    /\ phase \in {"missed", "writing"}
    /\ \E why \in {"module", "disk"} : Ends("err", why)
    /\ died' = IF phase = "writing" /\ cache[command.mod] = "partial" THEN died \cup {command.mod} ELSE died
    /\ UNCHANGED <<cache, rival, command, calls>>

Instantiate ==
    /\ phase = "instantiating"
    /\ loads' = Tail(loads)
    /\ phase' = IF Len(loads) = 1 THEN "calling" ELSE "loading"
    /\ UNCHANGED <<disk, command, todo, stack, calls, outcome, fault>>

\* A module without the memory and functions of a plugin, or whose entry point traps.
InstanceFails ==
    /\ phase = "instantiating"
    /\ Ends("err", "module")
    /\ UNCHANGED <<disk, command, calls>>
-----------------------------------------------------------------------------
(* The command: the functions it calls, one after the other.               *)

Running == stack # <<>> /\ stack[Len(stack)].pc \notin {"ended", "trapped"}

\* The last function the command called has returned Ok, or none was called yet.
Ready == phase = "calling" /\ (stack = <<>> \/ (Len(stack) = 1 /\ stack[1].pc = "ended" /\ stack[1].ok))

\* A handle is used again for the next function; those of List are one for each module.
CallNext ==
    /\ Ready
    /\ todo # <<>>
    /\ LET m == Head(todo)[1]
           op == Head(todo)[2]
       IN stack' = IF stack # <<>> /\ stack[1].mod = m
                   THEN <<[stack[1] EXCEPT !.op = op, !.pc = "start"]>>
                   ELSE <<Frame(m, op, <<>>)>>
    /\ todo' = Tail(todo)
    /\ UNCHANGED <<disk, command, phase, loads, calls, outcome, fault>>

\* Call checks its parameters against the schema it was given.
RefuseArguments ==
    /\ Ready
    /\ todo # <<>>
    /\ Head(todo)[2] = "create"
    /\ Ends("err", "arguments")
    /\ UNCHANGED <<disk, command, calls>>

Finish ==
    /\ Ready
    /\ todo = <<>>
    /\ command.cmd = "Info" => command.mod \in Described
    /\ Ends("ok", "none")
    /\ UNCHANGED <<disk, command, calls>>

\* Info unwraps the description.
InfoPanics ==
    /\ Ready
    /\ todo = <<>>
    /\ command.cmd = "Info" /\ command.mod \notin Described
    /\ Ends("panicked", "panic")
    /\ UNCHANGED <<disk, command, calls>>

CallFails ==
    /\ phase = "calling"
    /\ Len(stack) = 1
    /\ stack[1].pc = "trapped" \/ (stack[1].pc = "ended" /\ ~stack[1].ok)
    /\ Ends("err", "plugin")
    /\ UNCHANGED <<disk, command, calls>>
-----------------------------------------------------------------------------
(* An instance and its host.  WasmPluginHandle and wasm_plugin_action on   *)
(* one side, the functions a plugin exports on the other.                  *)

Top == stack[Len(stack)]
BecomesTop(frame) == stack' = [stack EXCEPT ![Len(stack)] = frame]

\* The instance in use is at pc; only the stack changes.
At(pc) ==
    /\ stack # <<>>
    /\ Top.pc = pc
    /\ UNCHANGED <<disk, command, phase, loads, todo, outcome, fault>>

\* The host has a string allocated and holds its pointer.
HostHolds(string) == [Top EXCEPT !.live = @ \cup {string}, !.host = @ \cup {string}]

\* call(): the arguments and the path are passed, then create is called and takes both.
PassArgs ==
    /\ At("start") /\ Top.op = "create"
    /\ BecomesTop([HostHolds("args") EXCEPT !.pc = "args"])
    /\ UNCHANGED calls

PassPath ==
    /\ At("args")
    /\ BecomesTop([HostHolds("path") EXCEPT !.pc = "passed"])
    /\ UNCHANGED calls

\* create_result: the path of the new context is the caller's, and this module's hash.
Enter ==
    /\ At("passed")
    /\ BecomesTop([Top EXCEPT !.pc = "guest", !.host = {}, !.guest = Top.host, !.route = Append(@, Top.mod)])
    /\ UNCHANGED calls

\* get_create_arguments, get_name, get_logo.
Get ==
    /\ At("start") /\ Top.op \in Getters
    /\ BecomesTop([HostHolds("result") EXCEPT !.pc = "returned", !.ok = TRUE])
    /\ UNCHANGED calls

\* create: what was passed is dropped with create_result, then the result, Ok or Err, is allocated.
Return(ok) ==
    /\ At("guest")
    /\ BecomesTop([Top EXCEPT !.pc = "returned", !.ok = ok,
                     !.live = (@ \ Top.guest) \cup {"result"}, !.guest = {}, !.host = {"result"}])
    /\ UNCHANGED calls

\* Mutant: the host reads the result but does not drop it.
MutReadResult(parses) ==
    /\ At("returned")
    /\ BecomesTop([Top EXCEPT !.pc = "ended", !.ok = @ /\ parses, !.host = @ \ {"result"}])
    /\ UNCHANGED calls

\* read_to_vec and forget; what was read may not parse.
ReadResult(parses) ==
    /\ At("returned")
    /\ BecomesTop([Top EXCEPT !.pc = "ended", !.ok = @ /\ parses, !.live = @ \ {"result"}, !.host = @ \ {"result"}])
    /\ UNCHANGED calls

\* encode_json: arguments or a result that cannot be encoded are the null pointer.
ReturnNull ==
    /\ At("guest") \/ (At("start") /\ Top.op = "api")
    /\ BecomesTop([Top EXCEPT !.pc = "null", !.live = @ \ Top.guest, !.guest = {}])
    /\ UNCHANGED calls

\* The host reads nothing there and drops it; that may trap (undefined in Rust), and nothing does not parse.
DropNull(traps) ==
    /\ At("null")
    /\ BecomesTop([Top EXCEPT !.pc = IF traps THEN "trapped" ELSE "ended", !.ok = FALSE])
    /\ UNCHANGED calls

\* An exported function, allocate_bytes among them, panics: whatever is allocated is lost.
Trap ==
    /\ \E pc \in {"start", "args", "guest"} : At(pc)
    /\ BecomesTop([Top EXCEPT !.pc = "trapped"])
    /\ UNCHANGED calls
-----------------------------------------------------------------------------
(* Calls from a plugin, while it creates a contract, to the host.          *)

\* LookupFrom: this module, a name, a hash.
Lookup(locator) ==
    IF locator = "this" THEN Top.mod
    ELSE IF locator \in DOMAIN ModuleMap THEN ModuleMap[locator]
    ELSE IF locator \in Modules THEN locator ELSE NoModule

Locators == {"this"} \cup Names \cup Modules

CallsHost ==
    /\ At("guest")
    /\ calls < MaxHostCalls
    /\ calls' = calls + 1

\* Mutant: the path passed starts at the root again.
MutCallModule(locator, op) ==
    /\ CallsHost
    /\ Len(stack) < MaxFrames
    /\ LET m == Lookup(locator) IN
        /\ m # NoModule
        /\ cache[m] = "whole"
        /\ stack' = Append([stack EXCEPT ![Len(stack)].pc = "waiting"], Frame(m, op, <<>>))

\* An instance of the module is made from the cache; Root and the like in its path are left out.
CallModule(locator, op) ==
    /\ CallsHost
    /\ Len(stack) < MaxFrames
    /\ LET m == Lookup(locator) IN
        /\ m # NoModule
        /\ cache[m] = "whole"
        /\ stack' = Append([stack EXCEPT ![Len(stack)].pc = "waiting"],
                           Frame(m, op, IF op = "create" THEN Top.route ELSE <<>>))

\* The name is unknown, the module not in the cache or no instance of it can be made: the plugin gets 0.
ModuleRefused ==
    /\ CallsHost
    /\ UNCHANGED stack

\* Mutant: only a call that returned is answered.
MutAnswer(allocated) ==
    /\ Len(stack) > 1
    /\ stack[Len(stack)].pc = "ended"
    /\ LET rest == SubSeq(stack, 1, Len(stack) - 1)
           caller == rest[Len(rest)]
           answered == [caller EXCEPT !.pc = "answered", !.live = @ \cup {"answer"}, !.guest = @ \cup {"answer"}]
       IN stack' = [rest EXCEPT ![Len(rest)] = IF allocated THEN answered ELSE [caller EXCEPT !.pc = "guest"]]
    /\ UNCHANGED <<disk, command, phase, loads, todo, calls, outcome, fault>>

\* What was returned, Ok or Err, is a string in the caller's memory, or 0 when that cannot be allocated.
Answer(allocated) ==
    /\ Len(stack) > 1
    /\ ~Running
    /\ LET rest == SubSeq(stack, 1, Len(stack) - 1)
           caller == rest[Len(rest)]
           answered == [caller EXCEPT !.pc = "answered", !.live = @ \cup {"answer"}, !.guest = @ \cup {"answer"}]
       IN stack' = [rest EXCEPT ![Len(rest)] = IF allocated THEN answered ELSE [caller EXCEPT !.pc = "guest"]]
    /\ UNCHANGED <<disk, command, phase, loads, todo, calls, outcome, fault>>

\* The plugin takes the string, parses and drops it.
TakeAnswer ==
    /\ At("answered")
    /\ BecomesTop([Top EXCEPT !.pc = "guest", !.live = @ \ {"answer"}, !.guest = @ \ {"answer"}])
    /\ UNCHANGED calls

\* signer_for and sign; the host unwraps everything.
Emulate ==
    /\ CallsHost
    /\ BecomesTop([Top EXCEPT !.pc = "answered", !.live = @ \cup {"answer"}, !.guest = @ \cup {"answer"}])

EmulatorPanics ==
    /\ stack # <<>> /\ Top.pc = "guest"
    /\ calls < MaxHostCalls
    /\ Ends("panicked", "panic")
    /\ UNCHANGED <<disk, command, calls>>
-----------------------------------------------------------------------------
Rival == RivalCreates \/ RivalWrites \/ RivalDies \/ \E m \in Modules : RivalMisses(m)

Loading ==
    \/ Locate \/ LocateFails \/ LoadNothing \/ LoadCached \/ LoadMisses
    \/ Store \/ Write \/ StoreFails \/ Instantiate \/ InstanceFails

Calling == CallNext \/ RefuseArguments \/ Finish \/ InfoPanics \/ CallFails

Instance ==
    \/ PassArgs \/ PassPath \/ Enter \/ Get \/ ReturnNull \/ Trap \/ TakeAnswer \/ Emulate \/ EmulatorPanics
    \/ ModuleRefused
    \/ \E ok \in BOOLEAN : Return(ok) \/ ReadResult(ok) \/ DropNull(ok) \/ Answer(ok)
    \/ \E locator \in Locators, op \in Functions : CallModule(locator, op)

Next == Loading \/ Calling \/ Instance \/ Rival

Spec == Init /\ [][Next]_vars

(***************************************************************************)
(* The command is one thread that runs on; a plugin returns or traps.  The *)
(* rival owes nothing.                                                     *)
(***************************************************************************)
FairSpec == Spec /\ WF_vars(Loading \/ Calling \/ Instance)
-----------------------------------------------------------------------------
(***************************************************************************)
(* Every string in a plugin's memory is held by exactly one side, which    *)
(* frees it: nothing is freed twice or read after it is freed, nothing is  *)
(* left when a call returns.  Outside it: an instance that trapped, whose  *)
(* memory may hold anything, and the null pointer for a result that cannot *)
(* be encoded, which is no string and which the host drops all the same.   *)
(***************************************************************************)
StringsHeldOnce ==
    \A i \in 1..Len(stack) :
        LET frame == stack[i] IN
        frame.pc # "trapped" =>
            /\ frame.live = frame.host \cup frame.guest
            /\ frame.host \cap frame.guest = {}
            /\ frame.pc \in {"start", "ended"} => frame.live = {}

(***************************************************************************)
(* The path of a plugin's context names the plugins that were called, in   *)
(* order, from the command's to its own: effects meant for one cannot be   *)
(* taken for another's.                                                    *)
(***************************************************************************)
RouteIsStack ==
    \A i \in 1..Len(stack) :
        (stack[i].op = "create" /\ stack[i].pc \in {"guest", "waiting", "answered"}) =>
            stack[i].route = [j \in 1..i |-> stack[j].mod]

(***************************************************************************)
(* The key that a command on a module reports, or used, is good for later  *)
(* commands: the module is in the cache, unless another process is, or has *)
(* died, writing it.                                                       *)
(***************************************************************************)
KeyUsable ==
    outcome = "ok" /\ command.cmd # "List" =>
        \/ cache[command.mod] = "whole"
        \/ rival = [pc |-> "writing", mod |-> command.mod]
        \/ command.mod \in died

\* Every command ends, with a result, an error or a panic, whatever the rival does.
CommandsEnd == <>(phase = "done")
=============================================================================
