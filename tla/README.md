# A TLA+ development for Sapio

Sapio compiles smart contracts written as Rust types into trees of Bitcoin
transactions that CHECKTEMPLATEVERIFY (or a federation of oracles that emulates
it) enforces. This directory models the parts of the repository that decide
*which* transactions exist, what they may pay, how they are linked to coins and
how they get signed. It checks the models with TLC and proves the most important
facts about the core with TLAPS.

Source paths below are relative to the repository (`src/` in `PROJECT.json`).

## 1. The system

A *contract* is a Rust value whose macros declare functions: `then` functions
return the transactions that must be possible next, `finish` functions return
clauses that end the contract, `continuation` functions return suggested
transactions for arguments supplied later ("effects"). From it:

1. **Compilation** (`sapio/src/contract/compiler`) runs every function in its own
   *context* and produces a `Compiled` object: an address (taproot: key and
   leaves), a map of committed templates, a map of suggested ones, and the paths
   of continuation points.
2. While it runs, functions use the **template builder**
   (`sapio/src/template/builder.rs`). Each `add_output` derives a child context,
   moves funds into it, compiles the child contract there and records an output;
   compilation thus recurses through the builder.
3. **Binding** (`sapio/src/contract/abi/object/bind.rs`, the CLI's `Bind`) walks
   the compiled tree from a coin and makes one linked PSBT per template.
4. **Signing**: each PSBT goes through a `CTVEmulator`
   (`emulator-trait`, `ctv_emulators`), usually a federation of network oracles.
5. The **CLI** (`cli/src`) runs these steps behind a small request server, and
   loads contracts from **WASM plugins** (`plugins/src`).
6. Holders of keys **sign** what is left to sign and **finalize** the PSBTs
   (`sapio-psbt`).
7. The **contract library** (`sapio-contrib`), its derivatives and the example
   plugins are contracts written with all this: vaults, channels, pools, bets,
   works of art.

### Inventory

| Component | State it keeps | Operations | What is hard | What makes it correct |
|---|---|---|---|---|
| Template builder | funds, fees, outputs, sequences, lock time, guards, SIMPs; type state `AddingFees` | `add_output`, `add_amount`, `spend_amount`, `add_sequence`, `set_sequence`, `set_lock_time`, `add_guard`, `set_min_feerate`, `add_fees`, `attach_simp`, `into()` | any order of calls; an error drops the builder | money is conserved, locks only extend, a template is funded, children get fresh paths |
| Context | available funds, derived fragments, ordinals | `derive*`, `spend_amount`, `add_amount`, `with_amount` | a fragment may be derived once; contracts derive for themselves | paths are unique |
| Contract compiler | used names, guard cache, template maps, clause lists, amount range | `compile` with everything it calls; recompilation with effects | order of matches, merging of conditions, caches, maps keyed by hash, loops that rely on derivation | the descriptor licenses exactly what the contract says; effects do not move the address |
| Compiled objects, binding | index of transactions, stack of objects, mock counter, program | the four ways to choose a coin, `bind_psbt`, `TxIndexLogger` | order of creating and looking up, shared children | parents exist before children, inputs do not conflict |
| Emulator connections and oracles | per oracle: accept queue, tasks; per client process: connection and mutex | `sign`, `accept`, `handle`, debug mode, death and restart | threads sharing a stream, crashes, partial failure | answers reach their caller; all signatures or an error; calls return |
| CLI server and commands | stdin, the reader's channel, the server's channel, a oneshot per request, a shutdown broadcast; per command: emulator, module | `Server::run`, `run_server_stdin`, the contract subcommands; List/Call/Bind/Api/Logo/Info/Load | a blocking thread and two tasks, early returns, a handler that panics, a select that polls shutdown and requests in any order | each request answered in order or the front end fails; it returns Ok only when all are answered; it ends when stdin does |
| CLI configuration | the file's entries, one per network | `get_n`, loading, saving, `get_emulator` | entries that are absent, present or active | exactly one active network; what is saved loads again; oracles can meet their threshold |
| Plugin host and clients | cache directory, handles, WASM memory, strings held by either side | locating, caching, instantiating; `call`, `get_api`, `get_name`, `get_logo`; host imports | memory crossing the boundary by hand, nested instances, two processes on one cache | every string is freed once, by the side that holds it; failures stay with the caller; a reported key can be used |
| Ordinals planner | ranges of sats held, payouts, plan | `output_plan`, `greedy_assign_outs`, `build_plan`, `allocate_ordinals`, the two sales of the ordinal example | boundaries of ranges, padding, first-in-first-out | an ordinal arrives at the output it is meant for and is told to one child |
| Effect paths | reversed linked paths, map of effects | `push`, parse, print, lookup | text form, reserved words, numbers | parse and print are inverses |
| Timelocks | 16/32-bit numbers | eight conversions, `Clause` of a lock, the lock mixture of `powswap` | truncation, bit 22, the split at 500000000 | a lock is the kind and length asked for, or refused |
| PSBT signing | extended keys of each holder, psbt | `sign_psbt`, `finalize_psbt` | several holders, leaves, inputs; the hash is input 0's | together the right holders complete it, in any order |
| Vaults, undo-send (`vault`, `undo_send`, `jamesob-vault`) | coins over several transactions, time | `step_from_*`, `to_cold`, `complete`, `undo`, `redeem`, `backup`, `spend_hot` | a thief and the owner race; amounts split over levels | rate limit; a contest period; every coin can pay what it must |
| Pools and payment trees (`treepay` x2, `trampolinepay`, mining payout, `coin_pool` x2, `payment_pool`, `hanukkah`) | members with balances, requests served | `expand`, `bisect_offline`, `do_tx`, `eject`, `burn_a_candle` | splits with rounding and fees, requests replayed from another state | everybody ends with their balance; a request is served once |
| Contracts of two and more parties (`channel`, `staked_signer`, `federated_sidechain`, `hodl_chicken`, `readme_contracts`, `basic_examples`, `op_return_chain`) | state of the contract as a type parameter, balances, locks | their guards, `then` and `finish` functions | who can spend first, with whose signature, after which delay | deals are kept, cheaters can be answered, coins are not stranded |
| Derivatives (`derivatives/`) | payoff over oracle prices or points, locks | bets, calls, puts, risk reversals, exploding options, DLCs, fork swaps | halving, rounding, thresholds of oracles, mixed locks | payoff at the price signed and no other |
| Works of art (`nft*`) | owner, artist, royalty, sale | `transfer`, `sell`, `create_schedule` | coin moves through a sale; price falls over blocks | sold at the offer, royalty paid, the work keeps its sats |
| SIMP metadata, macros, helpers | - | - | - | see *Not modelled* |

## 2. Modules

| Module | Models | Kind |
|---|---|---|
| `Sats` | sums of output amounts (`util/amountrange.rs`, `template`): recursive functions | definitions |
| `FundsLedger` | what a purse of funds promises: nothing spent that was not there | abstract specification |
| `TemplateBuilder` | `builder.rs` with the funds and paths of `context.rs`, `input.rs`, `output.rs` | component, refines `FundsLedger` |
| `TemplateBuilder_proofs` | lemmas about sums; theorems about the builder, for any amounts and locks | proofs |
| `Compiler` | `compile()` and all it calls in `contract/compiler`, and recompilation with effects | component |
| `Compiler_proofs` | theorems about compilation, for any contracts, answers and effects | proofs |
| `SigningService` | what `CTVEmulator::sign` promises each caller | abstract specification |
| `EmulatorNet` | client processes, threads, mutexes, streams, oracles, crashes | component, refines `SigningService` |
| `EmulatorNet_proofs` | theorems about the network, for any number of clients, threads and oracles | proofs |
| `BindPsbt` | `Bind::call`, `bind_psbt`, `TxIndexLogger` and the emulator as one call | composition of binding with signing |
| `BindPsbt_proofs` | theorems about binding, for any objects and templates | proofs |
| `RequestService` | what a front end of the CLI promises who sends it requests | abstract specification |
| `StudioServer` | `cli/src/contracts/server.rs`, `run_server_stdin` and the contract subcommands of `cli/src/main.rs` | component, refines `RequestService` |
| `StudioServer_proofs` | theorems about the server, for any number of requests | proofs |
| `PluginHost` | `plugins/src` (host and client side) and the commands of `cli/src/contracts/request.rs` that use plugins | component |
| `PluginHost_proofs` | theorems about the host, for any plugins and depths | proofs |
| `ContractCoins` | what a coin of a contract is, a way to spend it, and when a way can confirm (guards, signatures, relative and absolute locks) | definitions, after the compiler's leaves and Bitcoin's rules |
| `SharingContracts` | payment trees, pools, candles, mining payouts | operators: contract -> ways |
| `VaultContracts` | vaults and payments that can be undone | operators |
| `PartyContracts` | channel, staked signer, peg-in, chicken, escrows, chains | operators |
| `BetContracts` | oracles, bets, options, DLCs, swaps on forks | operators |
| `NftContracts` | works, sales, auctions | operators |
| `ContractPlay` | parties spend the coins of any of these contracts while blocks and time pass | composition of the five, component |
| `ContractPlayInvariants` | the inductive invariants of plays, in named parts | definitions |
| `ContractPlay_proofs` | theorems about plays, for any contracts of the library with any parties, amounts and delays | proofs |
| `Timelocks` | `timelocks.rs` and the mixture of locks of `powswap.rs`, with how nodes read a lock | pure functions |
| `OrdinalsPlanner` | `ordinals/mod.rs`, `allocate_ordinals`, the sales of `ordinal-example` | pure functions |
| `EffectPaths` | text of paths and fragments, both directions | pure functions |
| `NetworkConfig` | the active network and its emulators | pure functions |
| `PsbtSigning` | `sign_psbt`, `finalize_psbt` | pure functions |
| `Calculations` | one task per set of arguments, answered in one step; signing by several holders step by step | component, composition of the five |
| `Calculations_proofs` | theorems about locks, signing, ordinals, paths and configurations, for any arguments | proofs |
| `MC*` | small instances | model checking |

### How state and actions correspond to the code

**TemplateBuilder.** One action per method of `BuilderState`. `avail` and
`derived` are the two fields of the context that the builder drives, the other
variables are the builder's fields. Methods consume the builder, so a call that
returns `Err` leaves nothing: `mode = "failed"` is terminal with its error kept.
The type state `AddingFees` is `mode = "addingFees"`, where only the methods of
`impl<T> BuilderState<T>` are enabled. A child contract is reduced to whether its
compilation succeeds. `taken` starts as any set of branch numbers because a
contract may have derived paths before it asked for a template.

**Compiler.** `compile()` is synchronous; its iterators pull one function after
the other. Steps of the module are the code between two calls of the contract's
own functions: `EnsureAmount`, `NameFunction` (`Renamer::get_name` and the
derivation of the action path), `CompileIf`, `CreateGuards` (with the guard
cache), `CallFunction` (once per effect), `InsertTemplate` (one element of the
returned iterator), `CombineTemplates`/`AddContinuation`, `FunctionsDone`,
`FinishFn`, `Seal`. What user functions return is chosen when they are called and
remembered in `answers`, so that the recompilation of `Recompile` sees a
deterministic contract. A clause is the sequence of ways to satisfy it. `panic`
stands for the `expect`s and the amount subtraction; `spinning` for the two loops
that may never end.

**EmulatorNet.** Threads of a client call `sign`; each step is the code between
two awaits. `holder` is the tokio mutex around the connection, `opened` its
`Option<TcpStream>`, `wire` the frame in flight. `Accept` is the accept loop, in
debug mode behind the join of the previous task; `Handle` one request;
`TaskFails` the end of a task in an error, which in debug mode takes the listener
with it. `Crash` kills an oracle's process; answers it sent may still arrive.
`RestartClient` ends a client at any point.

**BindPsbt.** The four `FundWith*`/`FundFrom*` actions are the four branches of
`Bind::call`; `PopObject`, `BindTemplate` and `RecordObject` are the loop of
`bind_psbt`; `Finish` is what `Bind::call` does with the result. A transaction
stands for its own txid. Oracles refuse a PSBT whose coins are not all known, as
`servers/hd.rs` does.

**StudioServer.** Three threads of control: the blocking `reader` over `stdin`,
the `main` task and the `server` task. `inbox` is the reader's channel, `chan` the
server's, `reply` the oneshot of the request main awaits, `shutdown` the
broadcast. Every `?` of `run_server_stdin` is `EarlyReturn`: it drops the receiver
of the inbox (so the reader's next `send` fails) and both senders to the server.
`DropRuntime` is the end of `#[tokio::main]`, which waits for the blocking reader
and for a handler that is running. The contract subcommands are the same machine
with one request made and no reader. What a command computes is not here: a
handler answers or panics.

**PluginHost.** One command from `get_emulator` to its result. `phase` follows
`default_sph`, `load_module_from_cache` and `setup_plugin_inner`; then the command
calls the functions of `todo`. `stack` holds the instances in use: a call from a
plugin to the host (`wasm_plugin_action`) puts a new one on top, `Answer` takes it
off and allocates what it returned in the caller's memory. `live` is what is
allocated in an instance, `host` and `guest` what each side has a pointer to; the
two differ whenever the code would leak, or free twice. A path is cut down to the
module hashes in it. The contract a plugin compiles is a sequence of calls to the
host. `rival` is another process on the same cache directory, with the truncation
and the writing of a file as two steps. The server keeps nothing between commands
but the cache, so one command from every state of the cache stands for them all.

**ContractPlay.** `Ways(coin)` is what the compiler would put in the leaves of a
coin's contract: one record per `then` function and template, `finish` clause, or
`continuation` with one of its arguments. A way has a guard (a set of alternative
conditions: keys that must sign, relative and absolute locks), a transaction
(outputs to addresses or to further contracts, fees, the sequence and lock time
its template sets, inputs it adds) and `ctv`, whether a template or only
signatures bind it. `CanSpend` asks what a node asks: a signature of each key, a
lock that the transaction itself declares and the coin has waited for, and an
amount (`Pays`). So a clause `Older(n)` whose template sets no sequence can never be met,
as in Bitcoin. Each operator is one function of one contract, with the amounts it
computes; state parameters of the Rust types (`Channel<Start>`) are a field.
`Spend` confirms one transaction, `Tick` lets a block, some time or both pass.
`deals` of a play maps each set of keys that are willing to sign to the payments
the parties agreed on. Contracts whose constructor or compilation fails
(`Compiles`) are not played.

**Calculations.** Every function is an operator from its arguments to a result
with `ok`; a panic, an error and a wrong answer are told apart where the code
tells them apart. A psbt is a sequence of inputs with the leaves they offer, the
origins of keys and the signatures present; `Sign(h)` is the command of one
holder, who signs with each of its keys in turn as the CLI does.

## 3. Runs

| Run | Question | Bounds and why they suffice |
|---|---|---|
| `template_builder` | does any sequence of builder calls lose money, weaken a lock, or repeat a child path; does it implement `FundsLedger`? | funds up to `MaxFunds`, two outputs, two inputs, one guard: an output that fails for funds, one that fails for its path and one that succeeds, top-ups and fees in between, positive and negative input indices |
| `compiler` | is the descriptor exactly what the contract licenses, are conditions honoured, do effects leave the address alone? | six contracts: a guarded transition beside a continuation with one cached guard; merged conditions; two functions of one name with templates of one hash; two continuations with finishes; three functions of one name; two guards. Every function returns anything from small sets, with errors, duplicates and guarded templates |
| `compiler_ends`, `compiler_template_guards` | what comments promise (section 6) | the same contracts |
| `emulator_net` | do answers reach their caller, does signing implement `SigningService`, do calls return? | two client processes (the second may restart once), three threads, one debug oracle, one oracle that crashes any number of times, one transaction no oracle signs: two threads contend for one stream, and a federation of two fails halfway |
| `emulator_reconnects` | is a caller served again after an oracle came back? (section 6) | the same network |
| `bind` | are parents bound before children, are inputs distinct, is the program complete? | objects nested to depth three, two templates per object, mock inputs, shared children, an object used twice, an unspendable output, an object that cannot be encoded, output maps that are empty, full, and too short |
| `bind_lists_coins` | is every coin's transaction listed? (section 6) | the same objects |
| `studio_server` | are responses in order and complete, does a shutdown overtake a request, does the process end? | both front ends, up to three requests, each good or bad, written ahead or one by one, with stdin closed at any point or never: one request being handled, one in the inbox and one unread at the same time |
| `plugin_host` | are strings freed once, do failures stay with the caller, can the reported key be used, does every command end? | two plugins, one under a name, a name that is not mapped; instances nested three deep; three calls to the host, so a plugin may fail its first nested call and make another; every state of the cache, command and locator |
| `contract_play` | are coins funded for all they must do, are deals kept whoever spends first, does every contest leave time, is the vault's rate kept, is a request served once, is a work sold at its price, do contracts end? | 45 plays, up to six transactions deep (`MaxDepth`), a horizon of up to eight blocks or units of time, doubled while everybody has to wait; trees of five payments over radix two (two levels, one odd), three steps of a vault, vaults whose cold tree does not divide their steps, pools of three members with four signed requests from two pools' members, two prices between which a bet is halved more than once |
| `calculations` | do locks mean what was asked, do ordinals arrive where planned, is written text read back, does a configuration name one network, do signatures add up? | every number of scaled integers: `u16` up to 7, `u32` up to 63, times from 20 on, bit 22 at 16, a granule of 4 seconds: all cuts, overflows and borders occur; coins of one to three ranges, in order and not, up to two ordinals, two payouts, padding 1; paths of three fragments and texts of three tokens; psbts of two inputs for two holders with three keys |

`OverflowChecks = FALSE` in `calculations` is the arithmetic of release and WASM
builds, the ones that are run; with `TRUE` subtraction panics where it wraps.

Deadlock is not checked where the program ends: a finished or dropped builder, a
finished compilation, a returned binding, an exited process, a finished command, a contract
without coins, an answered task. `EmulatorNet` is checked for deadlock.

### Properties

*Builder*: `FundsConserved`, `TemplateFunded`, `ChildPathsFresh`,
`LocksNeverWeaken` (no later call may shorten, retype or remove a lock) and
refinement of the purse, `PurseSpec`.

*Compiler*: `OnlyLicensedWays` (no way to spend a coin, through a leaf or the
taproot key, that the contract did not ask for; the one leaf that `mod.rs:235-236`
says is not there, that of a continuation without guards, is excepted by name,
section 6), `CommittedAreEnforced` (the map of committed templates and the CTV
leaves agree), `CompileIfRespected` (the precedence of conditions in any order
and number), `NeverPanics`, `EffectsReachTheirPoint` (an effect filed under a
reported point with the web API is given to the function at that path, no function
is called for another's effect, and what a continuation answers is suggested),
`EffectsKeepTheContract`.

*Emulators*: `AnswersAreMine` (frames carry no request number), the refinement
`SigningSpec`, and `CallsReturn`.

*Binding*: `InputsResolve`, `NoConflicts`, `OraclesKnowEveryCoin`,
`FundingPaysContract`, `ProgramComplete`.

*Server*: `PrintedInOrder` (responses carry no number), the refinement
`ServiceSpec`, `EveryRequestSettled` (a client that waits for an answer before it
closes stdin gets one), and `ExitsWhenClosed`.

*Plugins*: `StringsHeldOnce`, `RouteIsStack` (the path of a nested context tells who
called whom, so effects reach the plugin they are meant for), `KeyUsable` (what
`load` prints can be used by later commands, unless another process is writing the
file or died doing so), `CommandsEnd`.

*Plays*: `AlwaysFunded` (the amounts contracts hand on, each computed on its own,
fit), `PaidWithinDeal` (who did not sign the coin away gets the deal and no more),
`ContestWindows` (who can answer a slow way had the whole contest period for it),
`VaultRate`, `RequestsOnce`, `SoldAtPrice` (a work is sold after its owner offered
it, at the price asked, with its royalty; when a plain sale may start is not said,
because its plugin ignores that, section 6), and `Settles` (a contract whose parties
are bound pays out). Two of them except by name what the code gets wrong, and nothing
more: `ShortOfSats` is the cold tree of a one-step vault that its step does not fill,
`Stranded` that tree and a contested channel whose parties do not both sign. The
plays `shortVault` and `channel` reach them.

*Calculations*: `LocksReadAsAsked` (conversions, and the swap that mixes locks),
`OrdinalsReachTheirOutput`, `OrdinalsToldOnce` (what the outputs' contexts are told
and what is kept are a partition of the coin's sats), `WrittenIsReadBack` (paths, text
that parses, configurations), `SigningCompletes` (a psbt finalizes only when those who
signed hold what each input needs, and does then if no input but the first needs a
key; section 6 says why not always).

Each property has a mutant in `PROJECT.json`: a plausible bug in one operator
under which TLC finds the property violated. They are the definitions whose names
begin with `Mut`.

### Fairness

`EmulatorNet!Fairness` is weak for what the runtime always does in the end
(accept a queued connection, run a task that can move) and strong for a caller's
step: tokio's mutex is first come, first served, so a caller that queues gets it,
although it is not continuously free. Nothing obliges a client to sign or an
oracle to be restarted. `CallsReturn` has one antecedent: a debug server joins its
connection before accepting the next, so a caller behind it may wait for as long
as another process keeps its connection open. `Compiler!FairSpec` is weak fairness
of the one sequential computation. `StudioServer!Fairness` is weak fairness of each
of its three threads, which the operating system and tokio schedule; a handler is
assumed to return or panic, and the client is obliged to nothing, not even to close
stdin. `PluginHost!FairSpec` is weak fairness of the one thread that runs the
command; plugins return or trap, and the rival process is obliged to nothing. `ContractPlay!Fairness` is weak fairness of a
transaction that can confirm and of time: somebody profits from each, miners take
what pays, and blocks come. It is not fair to one particular transaction, so
`Settles` holds whoever wins each race. It is asked of each play for the sets of
signers in `bound`: all of them where nothing is left to anybody's goodwill, those that
meet a guard where a contract only ends by signatures, and none for a work, which its
owner may keep, and a chain of messages, which goes on for ever.

## 4. Proofs

`TemplateBuilder_proofs` proves for all amounts, locks, bounds and protocols:

- `TypeCorrect`: `Spec => []TypeOK`;
- `Conservation`: `Spec => []FundsConserved`. The balance is
  `avail + fees + sum(outputs) + spent = funded`. On its own it is not inductive:
  that the subtraction in `spend_amount` stays in `Nat` needs the types, and a sum
  is only defined for a sequence of naturals. `IInv` conjoins the type invariant,
  the balance, the facts about paths and those about the finished template;
- `TemplateIsFunded`, `ChildPaths`: from the same invariant;
- `LocksExtend`: the action property `[][LocksExtendStep]_vars`, from the
  invariant and the case split over the actions;
- `RefinesPurse`: `Spec => PurseSpec`, initial state and step by step.

These rest on lemmas about sums: the recursive function of partial sums exists and is
unique (by a least counterexample over `Nat`, because induction theorems with an
operator parameter cannot be used), `TotalAmount` has its type, grows by the
appended amount and covers each summand.

`EmulatorNet_proofs` proves for any clients, threads, oracles and transactions,
of which it assumes only that each thread has a client and each oracle a mode:

- `TypeCorrect`, `DebugServers`: type correctness, and that the accept loop of a
  debug oracle keeps one task (`DebugServesOne`);
- `ConnectionsExclusive`, `AnswersReachCallers`: `OneUserPerConnection` and
  `AnswersAreMine`. Neither is inductive. A thread reads its own answer because the
  frame on a stream belongs to whoever holds the mutex, and a frame stays behind
  only on a stream nobody can use again. `IInv` adds `CallsInOrder` (what a thread
  at each step of `sign` holds) and `RequestsAreMine` (the request in flight is the
  holder's);
- `RefinesSigningService`: `Spec => SigningSpec`. A step of the network is one
  `Sign` of the service when it combines an answer into the psbt, one `Return` when
  a call ends, one `Abort` when it fails, and a stutter otherwise.

`StudioServer_proofs` proves for any number of requests:

- `TypeCorrect`, `StopsWithoutLoss` (`OneAtATime`) and `AnswersInOrder`
  (`PrintedInOrder`). That the responses are in order follows from where a request
  can be: printed, awaited, in the inbox or on stdin. `Order` says that these, one
  after the other, number the requests without a gap (`NoGap`), and what main, the
  reader and the server may be doing while they do;
- `OkIsComplete`: a front end that returns Ok has printed every response. It needs
  that the reader only ends well when stdin is closed and read;
- `RefinesRequestService`: `Spec => ServiceSpec`.

`BindPsbt_proofs` proves for any objects, templates, output maps and transactions
of users. It assumes that templates, outputs and maps are vectors, that a template
has an input, and that no object was compiled at the path under which `Bind::call`
lists the funding transaction (`BindAssumption`); objects may be shared, repeated
or refer to each other in any way.

- `InputsAlwaysResolve` (`InputsResolve`), `OraclesAlwaysKnow`
  (`OraclesKnowEveryCoin`), `FundingAlwaysPays` (`FundingPaysContract`) and
  `TypeCorrect`: the invariant says of everything on the stack, under way and bound
  that its coin is in the index and pays to its object (`Pending`, `Pays`), and of
  the program that its psbts are ones the emulator signed;
- `NeverInConflict` (`NoConflicts`): needs that a mock input the map does not name
  has a number below the counter (`IsMock`), which no psbt of an earlier visit or
  of this one then has (`MocksApart`), and that coins of objects have another txid;
- `ProgramAlwaysComplete` (`ProgramComplete`): from `Complete`, that each output of
  a bound transaction is on the stack, being visited or bound (`HasTurn`), and that
  the program's entry for a path belongs to a visit with that path (`Entered`).

`PluginHost_proofs` proves for any finite set of plugins, any names, and any bounds
on nested instances and calls:

- `TypeCorrect` (`TypeOK`);
- `StringsAlwaysHeldOnce` (`StringsHeldOnce`): from `Held`, which says at each step
  of a call which side holds what: the host before `create` and after it, the plugin
  in between;
- `RoutesAlwaysStack` (`RouteIsStack`): the route of an instance is the path of the
  one below it, and its own module from `create_result` on (`Routed`); all instances
  but the last wait (`StackOK`). A handle is used again for the next function, so it
  matters that `create` is the last that a command calls (`CreateLast`);
- `KeyAlwaysUsable` (`KeyUsable`): from `KeyKept`, that the key is good from the time
  the module was loaded, and what each phase still has to load (`InPhase`).

`Compiler_proofs` proves for any contracts, clauses, templates, amounts and effect
keys. It assumes that what a contract's functions return is a vector, that guards
name no template hash, and that a template's `max` pays for its outputs, which
`TemplateIsFunded` says of the builder, and that no effect is filed under the name
of the default effect (`ContractAssumption`).

- `ConditionsRespected` (`CompileIfRespected`): `AssembleVerdict` says that the fold
  of `merge` over any vector of conditions is the precedence of the set of them
  (`Verdict`), by a least counterexample among the prefixes;
- `OnlyLicensed`, `CommittedEnforced`, `EffectsReach` (`OnlyLicensedWays`,
  `CommittedAreEnforced`, `EffectsReachTheirPoint`): the invariant keeps for each
  leaf the function or finish it comes from (`LeavesOK`), for the function at hand
  what its conditions decided, what its guard answered and which of its templates
  are still to be inserted (`Working`), for each function dealt with what became of
  it (`Outcomes`), and that a hash is committed if and only if a leaf, or a clause on
  its way to one, names it (`Committed`). That answers of the first pass stay true in
  the second is why these hold after a recompilation too (`Grows`, `AnswersOK`);
- `CompilationNeverPanics` (`NeverPanics`): a path of an action that was derived has
  its name in `used_names` (`NamesDerived`), and no committed template pays more than
  the range's maximum;
- `CompilerTypes` (`TypeOK`);
- `EffectsKept` (`EffectsKeepTheContract`): compares two whole compilations. The
  invariant `Replay` says of either pass that what it has come to so far is
  determined by the names given and the answers remembered, and that the first pass
  had the answers to every function's conditions and called each function they keep
  (`Decided`), so the second has nothing new to ask of them. Two results of the same
  answers agree, by the least function at which they would not; the range's maximum
  is attained in the first pass and bounds the second.

`ContractPlay_proofs` proves for any plays and any sets of parties that sign; its
invariants are in `ContractPlayInvariants`. It assumes of the plays
(`PlaysAssumption`, `SalesAssumption`, `PaymentsAssumption`, `DelayAssumption`) what
the Rust types of the fields say: amounts, delays and heights are not negative, a
royalty is a fraction, a pool's members are the keys of a map, a vault's cold storage
is an address or a tree of payments to one. Three more assumptions are about what
plays start with. `FundingAssumption`: a contract that compiles has fields of its kind
(`Formed`: what the arguments' types say, and what its constructor checks), and the
first coin holds what its own transactions pay, because the builder refuses a
template that pays more than the context's funds and `bind_psbt` is given the
compiled amounts; nothing is assumed of any later coin. A vault has a step at least;
that its steps are multiples of the cold tree's parts is not assumed, but follows from
its compilation where it does (`VaultFits`). `ArgumentsAssumption`: what
parties give later (a pool's updates, a vault's hot payments, the candles of the
longest night) has amounts, and an update's refunds add up to what they refund, as
the code that builds them does. `DealsAssumption`: the deal of a tree is the
payments it was made of, which is what "deal" means for one. TLC evaluates them all
on the plays it checks.

- `LedgerHolds` (`Ledger`): a coin's number says which output of which spend it is
  (`Descends`), so no coin is spent twice, and every spend in the history is one of
  the ways of its coin that could confirm when it did (`Lawful`). The theorems below
  are about that history;
- `ContestWindowsHold` (`ContestWindows`): from `Lawful`, and for each contract with
  a contest that its slow way waits (`Waits`) and its answer does not (`Ready`);
- `VaultRateHolds` (`VaultRate`): `VaultInv` says what any coin of a vault may be:
  left of the annuity after so many steps and not before so many timeouts
  (`IsLeft`), sent and maturing (`IsSent`), or in the tree to cold storage
  (`IsTree`). What was received at the hot address is then bounded by the steps
  taken, each of which is a spend of its own;
- `SoldAtPriceHolds` (`SoldAtPrice`): `WorkInv` says what any coin of a play with
  a work may be (`WorkCoin`): its contract's fields are in order, and a sale is the
  play's first coin or was offered by its owner (`OfferedCoin`);
  `RoyaltyRounds` bounds what rounding does to a royalty, and `ScheduleLine` that
  the steps of an auction stay above its line;
- `RequestsOnceHolds` (`RequestsOnce`): `PoolInv` says that each member is in at most
  one pool, with the balance less what was carried out for them, and that every
  request carried out for a member was signed for an earlier state (`sequence`) than
  the pool they are in now. `NewMembersKept` is the step from a pool to its
  successor, `HalfOf` the step to the two halves an ejection makes. The new members
  of a pool, a schedule and a sum are recursive functions: a lemma for each kind
  builds the function as a table, shows that the definition's CHOOSE satisfies the
  equation, and gets what it computes by a least counterexample;
- `AlwaysFundedHolds` (`AlwaysFunded`): `FundsInv` says that every coin's contract is
  `Sound` with its sats: it is `Fit` for them, or one of the bundles that trees make on the
  way, and it can pay each of its ways. A bundle is no contract anybody gave fields
  to, so it is sound for being in a set that is `Closed` under looking into its
  entries, each with the sats of what it holds and its fees. That sats suffice is not
  inductive alone: the proof has two facts for each of the library's contracts, that
  no way hands on more than the coin holds (`...Sound`), and that each output leads
  to a contract that is sound with its amount (`...Leads`), by the arithmetic of that
  contract: the halves of a tree (`TreeSound`), what is left of an annuity
  (`VaultSound`), the size of a candle's transaction (`NightSound`), the balances of
  a pool less requests and fees (`PoolAddsUp`, `MembersAccount`), the queue a tree
  with fees works through (`BundledClosed`). Facts about sums of
  outputs (`OutSatsJoin`, `OutSatsAppend`, `ChunksAddUp`) carry them. The coins of a
  vault of one step whose cold tree is short are followed apart (`Astray`,
  `AstrayLeads`), and only those in the tree lack sats;
- `TreesKeepTheDeal` (`PaidWithinDeal`, for plays that start with a tree of payments:
  treepay, trees that pay fees, trampolines, mining payouts): `DuesInv` says that
  what somebody got and what every coin still owes them add up to their payments,
  unless they signed a coin away (`InBalance`). What a coin owes (`Owes`) goes by its
  shape: a tree owes the payments in it, a trampoline its own, a bundle what is
  weighed in its entries. Every way `Divides` what its coin owes among what it pays
  and the new coins' debts, for each shape (`TreeDivides`, `FeeTreeDivides`,
  `TrampolineDivides`, `BundleDivides`), and `SharedOut` carries that to the ledger.
  Nothing is owed when no coin is left, so then they got all of it.

`Calculations_proofs` proves for every width of the integers, every border between
heights and times, and every task. `TaskAssumption` is what the types of the
arguments say (a `u16` is at most `U16Max`, a `ReversePath` is not empty), and
`TextAssumption` that "#", "/" and words beginning with "@" are not characters of
names:

- `LocksReadAsAskedHolds` (`LocksReadAsAsked`). The inductive invariant
  says that an answer to a task is what the code computes for it
  (`AnswersComputed`); the rest is arithmetic about each conversion:
  `RelativeRead`, `AbsoluteRead` and `DurationRead` say how nodes read what each
  kind of conversion makes, `MeansExactly` and `MeansRounded` that this is what was
  asked for, exactly or up to a granule, and `LatestIsLatest` with
  `VariantAccepts` that a swap takes the longest lock of each kind and refuses a
  mixture in which a kind would be lost;
- `SigningCompletesHolds` (`SigningCompletes`): `PsbtSigned` says that a psbt holds
  exactly the signatures of those who have signed, whoever came first and however
  often. `AllCovered` is then what finalizing asks for; the other way needs
  `OnlyFirstNeedsKeys`. It assumes (`SigningAssumption`) that an unsigned psbt tells the origin of
  each key it needs of a holder, as BIP 371 has it, that extended keys with the same
  fingerprint are the same (a collision of 32 bits apart), and that a holder holds
  no absent key;
- `OrdinalsToldOnceHolds` (`OrdinalsToldOnce`): each range goes whole to one part, so
  what the parts are told is disjoint and leaves nothing out. Which part that is, is
  not claimed: a range that is larger than what is asked goes to the first (section 6);
- `WrittenIsReadBackHolds` (`WrittenIsReadBack`): `SplitJoin` says that texts without
  slashes, joined and split, are the same texts, `FragmentBack` that a fragment is
  parsed from what is written of it, `ReversedTwice` that a path reversed twice is
  itself, `ParsedPath` that only paths are parsed, and `OneActive` that a product of
  primes is one of them for one file only;
- `OrdinalsReachTheirOutputHolds` (`OrdinalsReachTheirOutput`), for coins of any
  number of ranges (for a plan in ascending order). It assumes that a sat has one
  number, so the ranges of a coin share none (`OfACoin`), and that an output for an
  ordinal is padded by a sat at least (`PaddingAssumption`; the code's is 500).
  For a sale, `IndexFound` says that `sell` counts the sats before the ordinal, and
  `SaleDelivers` that the sat it leaves out is within the padding. For a plan,
  `Position` is how far into the coin the lower bounds
  have moved. `PlacedTo`, kept by each ordinal placed (`PlaceGoesOn`), says that each
  ordinal comes behind its place in the coin by no more than `Slack`, the sats spent so
  far beyond that position, which never gets less. The last total is spent twice, so a
  plan that is paid to its end has `0 - Slack - total` left (`PlanSteps`, `PaysAll`):
  both are nothing, and each ordinal is where it was meant to be (`PlanDelivers`). The
  planner reads its ranges and ordinals from sorted vectors; the model says what sorting
  makes of a set by the number of members that come before each (`Listed`), because
  the library's sort is opaque to the prover.

The last three of these are about folds over sequences. A fold is a recursive function over sets
of places; `FoldHasTable` and `FoldRun` turn it into the states it passes through,
one for each place (`AllocateStates`, `ToldStates`, `PushedStates`, `JoinedStates`,
`SplitStates`, `IndexStates`, `AdvanceRuns`, `FindStates`, `GreedyStates`,
`PlaceStates`, `BuildStates`), and what holds of these is shown from each to the next
(`StepsReach`). A sum over a finite set is a table of its subsets (`SumTableExists`).

Only model-checked: liveness (`CallsReturn`, `EveryRequestSettled`,
`ExitsWhenClosed`, `CommandsEnd`, `Settles`), which is outside the prover's reach under
fairness, as is `ENABLED`; and `PaidWithinDeal` for plays that are no trees (bets,
swaps, escrows, channels): what their parties agreed is a choice of deals that depends
on who signs, which each play of the run lists, and no one sum over coins states.

## 5. Not modelled

Of the components that are modelled: names, colours, versions and free metadata
(no decision reads them), schemas, the bytes of scripts, hashes, addresses and
serialisation, the shape of the taproot tree, miniscript's policy compiler (its
refusal is a choice), key derivation of the oracles (a signature is the oracle's
name), the textual macros. In the plugin host: the API check of a typed handle
(`sapio-trait` compares nothing), and plugins not built on the client library. A
result that cannot be encoded comes back as a null pointer, as `encode_json` returns it
(`plugins/src/client/plugin.rs:126-132`, `ReturnNull`); the host then finds nothing
there and drops it, which may trap (`DropNull`). In plays: sats are small numbers, a
price is a small number, and a feerate is a fee per transaction; a psbt's other inputs
are coins from elsewhere.

Not modelled at all:

| Part | Why |
|---|---|
| `contracts/eltoo_channel.rs` | `update_state` has two guards, so its compilation never ends (section 6), and its conversion of a sequence always errs |
| `contracts/tic_tac_toe.rs` | `make_move` locks a mutex that its caller holds: compilation waits for itself |
| `contracts/dynamic.rs` | its second function always returns an error |
| `contracts/derivatives/taproot_bet.rs` | is not part of the crate |
| `ordinal-inscription`'s `reveal` | has two guards |
| `cooperate` of `Channel` and of `GenericBet` | are written but not declared, so no leaf has them |
| geometric and sigmoid curves of `dlc.rs` | floating point |
| the configuration wizard, the node of the mining example, generating keys | dialogue and I/O |

`PROJECT.json` lists every component.

## 6. Where the code differs from its own words

| Run | What happens |
|---|---|
| `compiler_ends` | A function with two guards never finishes compiling: `create_guards` derives `Metadata` from the same context for each guard, the second derivation is refused, and the filter over `0..` runs for ever. |
| `compiler_template_guards` | A second template with a known hash is dropped with its guards. |
| `emulator_reconnects` | A connection that died is kept: the client never connects again. |
| `bind_lists_coins` | A compiled contract used for two coins has one entry in the program; the other coin's transactions are lost. |

Met while modelling, and visible in the modules' comments rather than in a run of
their own:

- `compiler/mod.rs:338-341`: `failed_estimate` is true when a template does reach
  its minimum feerate, so those are rejected and the others accepted.
- `ordinals/mod.rs`: the last total is both paid out and made change, a range is
  advanced from its old bound and not from the ordinal, and `greedy_assign_outs`
  indexes before the first payout when none fits. So ordinary sales by
  `sell_with_planner` panic or run out of funds; only plans whose ordinals start
  their ranges and leave nothing over can be built. A build without overflow checks
  can build a plan that gives the ordinal to miners when ranges are not in ascending
  order, which is why the property is about ordered ranges. `sell` is off by one,
  but the ordinal stays inside the buyer's 501 sats.
- `compiler/mod.rs:235-236`: "If no guards and not CTV, then nothing gets added (not
  interpreted as Trivial True)". The clause of no guards is `Trivial`, and `compile`
  adds it as a leaf for a continuation, so anybody can spend the coin
  (`UnguardedPoint`).
- `compiler/mod.rs:272-278` reports the points of continuations without the web API
  too, and `mod.rs:87-89` drops the effects filed there without an error.
- `context.rs:45-53`: a range that is larger than what an output takes is split at its
  own end, not at the amount, so the first child is told of the whole coin and later
  children of none of it. `OrdinalsToldOnce` says no more than that no sat is told
  twice or lost.
- `powswap.rs:106-114`: lists of only absolute, or only relative time locks, are
  refused, although its own comment (38-46) allows them.
- `sapio-psbt/lib.rs:281`: the hash that is signed is that of input 0, although
  `sign_psbt_mut` (73-76) goes over all inputs, so a psbt whose other inputs need
  signatures is never finalized. `SigningCompletes` asks completion only of psbts
  where the first input alone needs keys, and would hold of a correct signer as well.
- `plugins/src/client/plugin.rs:126-132`: `encode_json` returns a null pointer for what
  it cannot encode, and no caller of it looks.
- `config.rs`: an entry that is present but inactive makes the product 0, which is
  reported as too many active networks; a threshold of 0 is accepted.
- `vault.rs:169-174`: the last part of the cold tree pays `max` as well. With two or
  more steps the compiler refuses steps that are no multiple of `max`, because the last
  vault on the way down has exactly a step of funds (play `unevenVault`). A vault of one
  step that is given more than the step compiles, because the cold tree is compiled with
  all the funds of the vault (`vault.rs:36-81`, `context.rs:118-119`), and then the coin
  sent to cold storage is short (`ShortOfSats`, play `shortVault`).
- `channel.rs:285-291`: `finish_contest`'s template sets no sequence, so its
  `Older(100)` can never be met: a contested channel stays until both parties sign
  (`Stranded`). So `ContestWindows` says nothing of a channel.
- `op_return_chain.rs:54-63`: adding data with fees above 0 never compiles.
- `derivatives/call.rs:12` calls `amount` "the # of units", but the profit (40-44) is
  the difference of prices, not times the amount; `put.rs` does the same. The deals of
  options are stated for one unit; of a call on two units (play `twoCalls`) only that
  it is funded and settles.
- `nft-trait/src/lib.rs:100-102`: `sale_time` is "When the sale should be possible
  after"; a plain sale's `transfer` (`nft-sale/src/plugin.rs:52-107`) ignores it, so it
  can confirm before. `SoldAtPrice` asks a start only of auctions.
- Sales of works: the coin holds the price that the buyer brings once more, and
  what an auction's price has dropped goes to miners. `nft-auction` divides by
  `updates` unchecked, and its schedule ends one step above the least price.
- `treepay`'s radix of 0 or 1 divides by zero or loops; `payment_pool`'s test for a
  negative balance is never reached, because the subtraction panics, and a pool that
  everybody left has a threshold of 0.
- `hanukkah.rs`: the second candle adds an amount without an input to bring it.
- `sapio_macros/lib.rs:67-74`: `#[guard(cached)]` is never recognised.

## 7. Plan

Done: the core (builder, compiler, binding, signing), the request server, the
plugin host, the contracts of the library, the derivatives and the example plugins
as plays, the calculations, and proofs of every safety property, one of them for
some plays only (section 4). Left:

1. `PaidWithinDeal` for bets, swaps and escrows: what each owes as a choice of
   outcomes, and that every way narrows it to one.
2. The taproot tree's shape and its weights, if a property of costs is wanted.
