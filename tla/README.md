# Dalin L: TLA+ models, model checking and proofs

Dalin L is a Rust workspace around an agent language: a compiler, an
interpreter with spawned tasks, a virtual machine, an agent runtime with
governance levels, and the distributed part those tasks are submitted to, the
*control plane*. This directory holds TLA+ modules translated from the code, TLC
configurations that check them on small instances, and theorems proved with
TLAPS for every instance.

    client --SubmitTask/CancelTask/WatchTasks--> ControlPlaneService --> TaskStore (memory | Redis | etcd | Postgres)
                                                    |        |
                                            CapabilityScheduler  DispatchBroker --> workers
                                                    ^ every 30 s (cpd)
    worker --RegisterNode/Heartbeat--> NodeRegistry-+

    text --Lexer--> tokens --Parser--> tree --ty.rs, ty2.rs--> types and channels
                                        |---> interpreter.rs  (threads: spawn, await, send, recv)
                                        |---> dlvm compiler ---> Vm
                                        '---> runtime.rs      (phases, levels, healing)

    agent <--files in inbox directories--> agent   (dalin-handshake)
    dal evolve, dal pkg ---> audit log, dalan.toml, dalan.lock
    editor <--pipes--> dalin-ls   (JSON-RPC)

## 1. Inventory

| part | state | operations | what is hard | what makes it right |
|---|---|---|---|---|
| **Capability scheduler** `control-plane/src/scheduler.rs` | node entries: capabilities, load, quota, circuit breaker | place, release, mark_failure, mark_success, add_node, sync_nodes | counters that wrap, breaker time, rebuilding of entries | load = placements held, load within quota, breaker follows the failures in a row, cooldown respected |
| **In-memory task store** `registry.rs` | task records, key index, event channel | register, assign_node, set_status, cancel, get, subscribe | several calls per request, any order | one task per key, node before status, events complete |
| **ControlPlane service** `server.rs` | handlers in flight | SubmitTask, CancelTask, GetTask, ListTasks, WatchTasks | awaits, dropped handlers, retries | idempotence, slots = tasks, every submit handed out |
| **Node registry** `agent_registry.rs` | last beat and declaration per node | RegisterNode, Heartbeat, fresh_nodes, cleanup | timers racing messages | live nodes kept, silent nodes leave |
| **cpd** `bin/cpd.rs` | – | synchronises registry and scheduler every 30 s | staleness adds up over two timers | bounded silence of a target |
| **Effect monitor** `effect_monitor.rs` | child counter per session, monitors shared by their holders | check_spawn, release_child, set_context, remove | the counter is raised before the check, wraps, outlives the session | at most `max_children` children |
| **Distributed stores** `store_redis.rs`, `store_etcd.rs`, `store_postgres.rs` | records, key index, two lists and events on a remote server | as the in-memory store | sequences of remote requests without transactions, lost requests, restarts | what `store.rs` promises |
| **Event bus, dispatch** `transport.rs`, `dispatch.rs` | subscribers | publish, dispatch, report_result | results are read by nobody | – |
| **Kubernetes operator** `k8s/` | objects | reconcile | – | fixpoint of reconcile |
| **Handshake** `dalin-handshake/` | sessions per agent, an inbox directory per agent | handshake, ping, data, disconnect, expiry | two sides, two session ids, torn files, crashes | no storm of answers, dead peers expire |
| **Task runtime** `runtime/src/interpreter.rs` | task tree, result and channel registries, environments | spawn, spawn_task, await, channel, send, recv; every statement and expression | OS threads, blocking receives | each result delivered once, channels in order, no deadlock among awaits |
| **Agent core** `compiler/src/runtime.rs`, `j1_*`, `j2_*`, `j3_*` | phase, level, depth, frames of a session | call_fn, call_with_healing | long sessions with failures in them | depth given back, level kept |
| **Modules and packages** `module.rs`, `package.rs`, `cli/src/cmd/pkg.rs`, `registry/` | dependency graph; manifest and lock files | order, load; init, add, remove, build | cycles, boundaries of versions, files cut off | order respects edges; the project has what was asked for |
| **Front end and type checkers** `lexer.rs`, `parser.rs`, `ty.rs`, `ty2.rs` | tokens, trees, substitutions | tokenize, parse, infer, check | recursion, binding strength, inference against evaluation | what is written is read; what is inferred holds |
| **DLVM** `dlvm/` | code, stack, frames | compile, run | jumps, calls | same answer as the interpreter; it halts |
| **Language server** `lsp/src/main.rs` | texts and diagnostics per document | the LSP methods, end of input | two pipes, several changes at once, edits before it is ready, a server that dies | text and diagnostics agree when all is read, one answer per request |
| **Tools** `cli/`, `fmt/`, `codegen/`, `pyo3-bindings/` | audit log of `evolve`; otherwise none | accept, reject, revert | several processes, each of which may die between writes | what is listed is filed |

`PROJECT.json` lists every part with its status, and every hazard at its line
with the properties that would catch it going wrong.

## 2. Modules

| module | models |
|---|---|
| `SchedulerOps` | the value-level operations of `scheduler.rs`: the capability chain, the breaker, a node list |
| `Scheduler` | `CapabilityScheduler` as its callers see it behind `Arc<Mutex<..>>`: one action per method, and time |
| `ControlPlane` | the handlers of `server.rs` over `registry.rs` and `SchedulerOps`; `ControlPlaneProps` its properties and the careful client |
| `NodeRegistry` | `agent_registry.rs` with the cleanup timer and the synchronisation timer of `cpd.rs` |
| `TaskTable` | the abstract store: what the trait of `store.rs` says of a table of tasks |
| `TaskStores` | Redis, etcd and Postgres: one step per remote request, several servers, faults |
| `Handshake` | engines and Python clients over the file transport |
| `TaskRuntime` | the threads of a program over the shared tables of the interpreter |
| `Values`, `TreeWalk` | values and operators; every statement and expression of the tree walk (`interpreter.rs`, `env.rs`) |
| `Dlvm` | the compiler to bytecode and the turn of the machine's loop |
| `AgentRuntime` | `runtime.rs`: calls with their checks, statements, failures, healing |
| `Lexer`, `Parser` | text to tokens, tokens to trees |
| `Types`, `Channels` | inference (`ty.rs`); effect, capability, confidence, loop, governance and time (`ty2.rs`) |
| `Modules` | `has_cycle`, `topological_sort` and `resolve_all` of `module.rs`, call by call and turn by turn |
| `EffectMonitor`, `AuditLog`, `PackageProject` | the state machines of `effect_monitor.rs`, of `evolve.rs`, of `pkg.rs` with `package.rs` |
| `LanguageServer` | `dalin-ls` and the editor at the other end of its pipes |
| `Toolchain` | these language parts side by side; `ToolchainProps` their properties, `Writing` the reference that writes a tree down as text |
| `MC*` | the instances TLC checks |
| `*Proofs` | theorems |

### The control plane

* **Node list.** `Vec<NodeRuntime>` is a function from node ids to records; the
  breaker is inlined. Order only breaks ties in `place`. cpd fills the list from
  a `HashMap`, whose order is arbitrary, so a tie is a nondeterministic choice.
  `new` would accept two entries of one id; nothing in the program builds them.
* **Loads** are a `usize` and count modulo `Word`, as `fetch_sub` does.
* **Time.** A breaker keeps the ticks since it opened, up to `Cooldown`; the
  registry keeps the age of a beat, up to the TTL. The code compares with
  nothing larger.
* **place** asks the breaker of every capable node, and asking may turn it
  half-open even when another node is chosen or none (`Asked`).
* **submit_task** is cut at its awaits: place, register, assign_node,
  set_status, dispatch, publish. **cancel_task** is cancel, get, release. A
  call of the store or the scheduler is one step: it holds its mutex for the
  whole call. At each await the transport may drop the handler (`Abort`).
* **The effect check** of submit_task refuses nothing: the handler itself sets
  the context `spawn`, under which `check_effect` accepts every effect.
* **Running, Succeeded and Failed** are never set by the control plane, and
  `release` has no caller but `cancel_task`; a slot is held until then.
* **WatchTasks** is a client that rebuilds each task's status from the events it
  gets; `assign_node` sends none and `Canceled` is filtered out.

### The distributed stores

A call is a record that says at which remote request it stands and what it has
read. `register` is *lookup, fetch, create*, then the writes of the key index,
of the children of the parent and of the list, then *publish* and *tell*. The
other operations are *read* and *write*; Redis and etcd write the whole record
back, Postgres one column. Between two requests anything may happen at the other
callers. A lost request (`LoseRequest`, `LoseRecord`) changes nothing and the
call goes on, because no write looks at its result; `Deafen` ends a server's
subscriber, which nothing starts again but `Restart`, which also drops the
server's calls where they stand. A key stands for a pair of parent and
idempotency key; etcd takes Redis's path, as its code does request by request.

`TaskTable` is the promise: a task is created once, for one key, is never removed
and never changes its key. `Table == INSTANCE TaskTable WITH ...` in
`TaskStores` is the refinement mapping; with `OneTaskPerKey <- FALSE`, for that
part of the promise the stores do not keep (run `register_twice`).

### The handshake

An agent is one thread that pumps `recv` and `handle_message`; an inbox is the
directory of its files, oldest first. Both sides make a session id of their own,
so the engine, which looks the responder's id up among its own, finds nothing.
A heartbeat is a ping whenever the application asks for one, whether or not
earlier ones were answered; `owed` counts, by session, the pings sent whose pong
was not read.
`Crash` may lose the message just read or leave a torn file, which no `recv`
gets past; `Stop` sends the disconnects, of which the engine names no session.
`Tick` is `keep_alive_interval`. The TCP and Unix transports are left out.

### Threads

`TaskRuntime` reduces a program to the statements that touch what threads share.
A function spawned runs with a copy of its spawner's environment, made before the
handle is bound. `await` takes the receiver out of the table and then blocks;
`recv` finds the channel by name, then holds the receiver's mutex while it
blocks; both are two steps. The program ends with its main thread.
A value is the handle of a task or anything else; it is what is sent, received,
returned and bound to a name, so that a task may await a handle it was sent. A
channel declared again under its name replaces the receiver in the table: the
old one is dropped with what is queued in it, unless a task has found it and is
about to receive from it, and a later send to it fails (`HasReceiver`).

### The language

Trees are tuples, as the parser builds them: `<<"bin", op, left, right>>`. The
evaluators return a result and the machine that is left. Where functions of the
code call one another recursively, the module declares one recursive operator
`Do(work, m)`, short-hands for its kinds of work (`Eval(e, m)`), and one
operator per function of the code that says what it does (`EvalExpr`, ...). Loops
use up `Fuel`, which bounds the turns of one run. The virtual machine takes one
action per turn of its loop (`RunVm`); a request of a session is one action,
since the runtime has one thread.

`Toolchain` puts these parts side by side. `part` says which one a behaviour is
about and `input` on what; parts without steps of their own (`text`, `types`,
`contracts`) are answered in the initial state.

`Modules` keeps the recursive calls of `has_cycle_util` and of
`resolve_recursive` on a `stack`, each with the number of names it is past: a
call is entered (`From`, `Descend`), passes a name that was seen (`Pass`) or ends
(`Leave`). `has_cycle` starts from the modules in any order, which is that of a
hash map, and from those it has seen as well. A turn of the sort is one action
(`Place`). A name that is not loaded becomes an empty module of the loader.

### The language server

A pipe from the editor is a sequence of line ends, headers and bodies, because
the server reads lines; what it writes is a sequence of messages. One line is one
step of `main`'s loop (`SkipLine`, `ReadMessage`), with the whole handler in it.
`endsLine` says whether the editor ends a message with a line end. LSP does not,
nor does the server itself: with such an editor it reads nothing and the two
wait for each other, which `RequestsAnswered` states next to what it says of an
editor that does. A text is a value of which the constants say what the compiler
and the providers answer: one is clean, one does not parse, one has a violation
and a line on which `provide_signature_help` panics. The editor is external: it
opens what is open in it once `initialize` is answered, sends every change from
then on, and starts a new server when one dies. Versions are stored and never
read, and left out.

### History variables

`hist` (`Scheduler`), `heard` (`NodeRegistry`), `known`, `made`, `hit`, `lost`
and `heard` (`TaskStores`), `answered` and `owed` (`Handshake`), `log` (`TaskRuntime`),
`refused` (`AgentRuntime`, `EffectMonitor`), `alive` (`EffectMonitor`), `wanted`
and `built` (`PackageProject`) record what happened. No guard of a modelled call
depends on them except the caller's own knowledge (a placement is released by
who holds it, a child by who was let in) and the named bounds.

Operators introduced by a comment "Mutant of ..." are wrong versions of the
definition they precede. No specification uses them; they show that each
property would notice that bug.

## 3. Runs

| run | instance | checks | shows |
|---|---|---|---|
| `scheduler` (`MCScheduler.cfg`) | 2 nodes, quota 1 or none, threshold 2, cooldown 2, `Word` 8 | `LoadIsHeld`, `BreakerTracksStreak`, `RestedBeforeReuse` | back-pressure and breakers under every order of calls |
| `control_plane` (`MCControlPlane.cfg`) | 3 requests, 2 tasks, 2 keys, 2 nodes, failing broker | `Idempotent`, `ScheduledHasNode`, `DispatchAfterSchedule`, `WatcherKeepsUp`, `CanceledIsFinal` | any clients, dropped handlers and synchronisations; a cancel is undone by a placed submit of its key and by nothing else |
| `careful_clients` (`MCCareful.cfg`) | 4 requests, 2 keys, 2 nodes, one with quota 1 | `SlotsMatchTasks`, `SubmitReachesWorkers` | what a client gains by using a key once and cancelling once, after the answer |
| `node_registry` (`MCNodeRegistry.cfg`) | 2 nodes; ticks of 15 s: TTL 2, cleanup 1, sync 2, lateness 1 | `NoSilentTarget`, `LiveNodeIsKept`, `SilentNodeLeaves`, `DeclaredIsScheduled` | liveness tracking of nodes |
| `stores` (`MCTaskStores.cfg`) | Redis and Postgres, 2 servers with one call at a time, 1 key with a parent, 3 tasks, 3 calls, 1 fault | `RegisterKeepsItsWord`, `ReferencesAreStored`, `SubmittedOnce`, `SubmittedIsHeard`, `PostgresKeepsNode`, `IsTaskTable` | what survives interleaving, loss and restart; the refinement of `TaskTable` |
| `handshake` (`MCHandshake.cfg`) | 2 engines and a Python client, 2 sessions, 3 starts, up to 2 pings of a session unanswered, inboxes of 2, good and bad tokens | `TypeOK`, `NoReplyStorm`, `RefreshMeansPeerAnswered`, `DeadPeerExpires` | two-sided sessions under crashes and torn files |
| `task_runtime` (`MCTaskRuntime.cfg`) | every program of 7 mains, 10 bodies of one task and 7 of another, up to 4 spawned tasks | `AwaitedOnce`, `ChannelKeepsOrder`, `AwaitsEnd` | threads racing for results, messages, handles and names |
| `toolchain` (`MCToolchain.cfg`) | see below | `RoundTrip`, `EnginesAgree`, `TypesHold`, `CallsAreReported`, `ModulesInOrder`, `DepthCountsRefusals`, `QuotaAccounted`, `ListedIsFiled`, `ProjectAsAsked`, `SettledMeansCurrent`, `VmHalts`, `RequestsAnswered`, `DegradeNeverHeals` | the language parts against reference definitions, and the small state machines |
| `sync_keeps_state` | as `scheduler` | `SyncKeepsRuntimeState` (violated) | sync_nodes forgets load and breaker, against its comment |
| `half_open_probe` | as `scheduler` | `HalfOpenProbesOnce` (violated) | half-open admits a burst, against its comment |
| `cancel_twice` (`MCCancelTwice.cfg`) | 1 node, 1 task, 3 requests | `CancelFreesOwnSlot` (violated) | a repeated cancel frees a slot the task does not hold |
| `register_twice` (`RegisterTwice.cfg`) | as `stores`, 2 tasks, no fault | `OneTaskPerKey` (violated) | two servers create a task each for one key |

**What `toolchain` checks.**

* `RoundTrip`: a tree, written down in either of two styles by `Writing`, is
  lexed and parsed back to the same tree.
* `EnginesAgree`, for programs without calls. In the common language (`Sort`:
  arithmetic, comparisons and branches, each operator known to all engines and
  between operands of one type that it takes) the interpreter, the agent runtime
  and the virtual machine give the same value or all fail, then by a division by
  zero. Elsewhere they part, and the property says how. The compiler takes `%`,
  `&&` and `||` for `+`, leaves `!` out and makes a text of a character
  (dlvm compiler.rs:153): `7 % 2` is 9 on the machine. So the machine gives what
  the interpreter gives of the program *as compiled* (`AsCompiled`), and none for
  a name. What the agent runtime gives a value, the interpreter gives the same.
  Between two literals of two types (`Unlike`) `1 + "a"` is a text in the
  interpreter and a type error on the machine, `1 < "a"` an error in the
  interpreter and false on the machine. With calls the machine differs by design of
  the code: a `Call` marks its place and goes on.
* `TypesHold`: the type inferred fits the value computed, unless and only unless
  inference guesses (`Misses`), and the inputs meet every guess: a text joined to
  what is no number (`"a" + "b"` and `"a" + 1` are inferred int), `str` and
  `range` (ty.rs:587), branches or arms of another type than the first, arrays of
  several types, a function that does not end in a return, a loop, an `if` without
  a branch to take. What is bound to no guess is right in each of its uses.
* `CallsAreReported`: a function is reported exactly when it does, in the open, what
  it does not declare. The reference collects the calls of the whole body. Those
  the check does not see are named (`Hidden`) and met by the inputs: a call in an
  array, an option, a result, an index, a member, a pipe (`1 |> println`), a
  `match` used as a value (where only a print is heard of), the guard of an arm,
  the message of an assertion, a nested function (ty2.rs:1081, 1545, 1604). A
  function without any such call is never reported.
* `ModulesInOrder`: cycle test, sort and loader against what a cycle is and what
  is under a module. Of the sort it speaks where names are mentioned once and
  are modules. Otherwise its answer, told by a length, may be wrong both ways:
  given a module that uses itself and another that uses a name that is no
  module, it places that name and the other, two as there are modules, and
  reports no cycle.
* `DepthCountsRefusals`, `DegradeNeverHeals`: sessions of the agent runtime.
* `QuotaAccounted`, `ListedIsFiled`, `ProjectAsAsked`: the monitors' quota, the
  audit log, the project's manifest and lock after any commands. The last says
  of each entry which version is read. In a table it is found unless it stands
  first, where the brace stays with its key, and that is how `add` writes it; and
  one that was found lasts past the next command unless it is a comparison or the
  table also says optional (`Reading`, `Rewritten`, package.rs:299).
* `VmHalts`: the machine ends on every program.
* `SettledMeansCurrent`, `RequestsAnswered`: the language server and its editor.

**Bounds.** `MaxHeld` and `MaxFailures` (Scheduler) bound placements held and
failures counted on a node. Held placements up to 2 pass the quota of 1 and a
rebuild under them; failures up to 3 pass the threshold of 2 and reach a
half-open breaker that fails again. `Word` is 8 so that a release
after a rebuild wraps within the bound. In `ControlPlane` each of `Rpcs` is used
once: three requests are two submits of a key and a cancel between them, or a
submit and two cancels, so that a retry undoes a cancel and a submit that was under
way before it does. `Horizon` is where silence stops being counted.

In `TaskStores` three calls are two that race and one that sees the result;
three tasks let a key be lost, made again and raced for; one fault is any single
request lost, subscriber ended or server restarted. In `Handshake` two sessions
are the two sides of one handshake; the third start is a restart; inboxes of 2 let
a ping wait behind another message, and `MaxPings` 2 lets a second ping be sent
before the first is read.
`TaskRuntime` takes every combination of the listed bodies, in which tasks race
for one result, for one message and for one name, wait for each other, hand handles
on over a channel, declare a channel again under a sender or a receiver, and fail;
`MaxTasks` 4 is what those programs spawn. `Toolchain` builds its trees one level
at a time, so that every node occurs under every other; `SessionDepth` 5 is
reached within 4 requests, `Turns` 4 ends the loops; quotas of 2 with 4 spawns
each are passed and refused; two processes and two commands race in the audit log
on a day's change; four commands make, change, break and build a project. Graphs
of three modules have cycles of every length beside, above and below a module
that is on none, names mentioned twice and a name that is no module.

For the language server there are one document, three texts, three things the
user does and two servers: two edits and a question about them, or an edit that
crosses the start, a question that kills the server and an edit before the next
one is ready. No handler looks at two documents.

The deadlock check is off where the system really ends: requests, calls, starts
and commands are used up (`careful_clients`, `stores`, `register_twice`,
`handshake`, `toolchain`), and programs end or wait for ever on a channel
(`task_runtime`). In the other runs some step is always possible.

**Fairness.** `CarefulSpec` is weakly fair to each handler's own steps: tokio
polls a task that can go on, and no step of a handler waits on anything but a
short mutex. Nothing is assumed of clients. `NodeRegistry!Spec` is weakly fair
to time and to the two timer tasks; nodes owe no beat. The two liveness
properties there state their own condition (a node silent from some time on, a
node fresh and unchanged from some time on). `TaskStores!Spec` is weakly fair to
the steps of each call and to each subscriber, for the same reason;
`SubmittedIsHeard` is promised without faults only. `Handshake!Spec` is weakly
fair to each running agent's pump and cleanup and to time. The crate has no loop
of its own: this is what it asks of the application that embeds it (`recv`,
`handle`, and `clean_expired_sessions`, which the Python client lacks), and
`DeadPeerExpires` holds for engines so embedded. Nobody owes a ping or a start. `TaskRuntime!Spec` is weakly fair to each thread,
as the operating system is; a blocked receive is simply not enabled.
`Toolchain!Spec` is weakly fair to the machine's loop, to the loop of the language
server, which goes on while it has a line, and to the reading of its editor; the
user owes nothing.

### What the violations say

* `sync_nodes` (scheduler.rs:262) claims to keep load and breaker of nodes that
  stay. It builds every entry anew, so every 30 s loads and open breakers are
  forgotten, and later releases are taken off the new entries.
* `allow` (scheduler.rs:119) claims one probe for a half-open breaker; it
  answers true until an outcome is reported.
* `cancel_task` (server.rs:198) claims to free the slot of the cancelled task.
  `cancel` succeeds on a cancelled task, so the slot is freed again.
* `register` (store_redis.rs:124, store_etcd.rs:112, store_postgres.rs:82) looks a
  key up and writes it in separate requests; two servers that do so at once make
  two tasks, against the promise of the trait (store.rs:17). The in-memory store
  keeps it (`Idempotent`).
Met while reading and not run: agent_registry.rs:119 speaks of a default
quota of 4, while `Node::new` sets none; control.proto:61 asks for a
stable idempotency key, while client.rs:30 sends an empty one; a failed fallback
(runtime.rs:1472) sets the session's level to execute, where its comment speaks
of restoring it; `hover` (lsp/src/main.rs:602) looks for the position inside
`textDocument`, where it is not, and takes the origin for it, so every hover is
about the first word; the walk over a function's body (ty2.rs:1545) is said to go
through each expression and passes by those `CallsAreReported` calls hidden; and a
message framed by its length alone is never read
(lsp/src/main.rs:451), though line 1 claims all of LSP 3.17.

## 4. Proofs

All theorems hold for every value of the constants under the named assumptions
(`OpsAssumption`, `SchedulerAssumption`, `ControlPlaneAssumption`,
`NoneIsNoTask`, `RegistryAssumption`, `StoresAssumption`, `MonitorAssumption`,
`AuditAssumption`, `RuntimeAssumption`, `HandshakeAssumption`,
`RequestsAreCounted`, `HandWrittenAssumption`), which TLC evaluates on the instances.

* **`SchedulerOpsProofs`**: lemmas on what each operation returns.
* **`SchedulerProofs`**: `TypeCorrect`, `BackPressure`, `BreakerCorrect`,
  `CooldownRespected`. `BreakerTracksStreak` is not inductive: a half-open or
  open breaker says nothing about the failures that opened it. `BreakerInv`
  adds that the counter equals the streak, that an open breaker's clock is the
  time since the last failure, and that a half-open one has rested.
* **`ControlPlaneProofs`**: `TypeCorrect`, `SubmitIdempotent`,
  `ScheduledNamesNode`, `ScheduledBeforeDispatch`, `WatcherUpToDate`,
  `CancelIsFinal`, for any clients, retries and dropped handlers. The
  invariant has one part on the store (the two maps are inverse on keys, and
  what the watcher saw) and one per handler (what it may rely on at each
  await). One lemma, `HandlerStepInv`, says that a step of a handler cannot
  disturb the others because records only grow. A canceled task for which no
  placed submit of its key is under way is `Settled`, and stays so until one comes
  in (`NextSettled`): a handler that writes to a task is a placed submit of the
  task's key (`WriterIsElsewhere`), since the index gives a key one task. With
  careful clients (`CarefulSpec`) `LoadsMatchTasks` holds as well. It
  needs `CarefulInv`: a key has one submit and a task one cancel, which finds the
  submit answered, so whoever is at work on a task is alone with it. A load is
  then the number of submits that hold a slot (`LoadInv` over `Holding`): a
  placement adds one holder, a release takes one away, and no other step changes
  the load or its holders. `SlotsMatchTasks` counts the same holders three ways
  (on their way in, settled, on their way out), each in bijection with one of
  its sets. It needs fewer requests than the counter has values
  (`RequestsAreCounted`). For all clients, `AnsweredIsHandedOut` says that the
  topics hold what submits asked for and nothing else, and that a submit that was
  answered has handed out its task if the broker works: the safety half of
  `SubmitReachesWorkers`.
* **`NodeRegistryProofs`**: `TypeCorrect`, `SilenceBounded`, `LiveKept`. The
  invariant says that silence of a scheduled node is paid for by the time its
  synchronisation timer has run down (`Paid`).
* **`TaskStoresProofs`**: `StoresTyped`, `NothingDangles`, `NodesAreKept`,
  `RegisterIsKept` and the refinement `SharedTableImplements`. None of them is
  inductive alone: a call's write is only an `Update` of the table if the record it read is still
  there, and of the same key. `Inv` adds that ids are fresh above `minted`
  (`Fresh`), and for each call what it may rely on where it stands (`Good`: it
  has an id that is stored or lost; its copy has the key of the record). That
  records are never removed and keep their keys (`TableKept`) lets a step of one
  call leave the others alone. `RegisterIsKept` needs `Promise` on top: a
  call none of whose requests was lost cannot miss a task stored before it
  began (`Reuses`), and what it has written is still there (`Lists`); the steps
  of other calls keep both because the store only grows (`StoreGrows`).
  `ToldAtMostOnce` follows a task's one announcement: until the call that made
  it has published, nobody heard of it and no event names it; then its own
  watchers wait for that call, and those of another server for the one event on
  their wire (`OnceInv`). Two calls never have the same task to announce.
  `SubmissionsArrive` is the other half, without faults: a stored task that a
  server has not heard of is on its wire or still with the call that made it
  (`Coming`), so when nothing is in flight (`Settled`) every server has heard of
  every task, once. That is all of `SubmittedIsHeard` but that calls and wires
  come to an end.
* **`TaskRuntimeProofs`**: `TasksTyped`, `ResultsAwaitedOnce`, `ChannelsInOrder`,
  for every set of programs. That a result is awaited once rests on `Awaiting`:
  who waits for a task has taken its receiver out of the table, is alone in
  waiting for it, and nobody got its value yet; and on `Answering`: a thread
  answers once, when it ends. That channels keep order rests on `Known`: who
  has a sender of a name has one of a channel that was made, and the name stands
  for some channel, so a receive always finds one. That nothing is lost is said
  of a channel as long as its receiver lives: one whose name was declared again
  loses what is queued in it. `NobodyAwaitsInACircle` is that no set of tasks
  waits for each other's results in a program that sends no handles
  (`SendsHandles`; two tasks that send each other's handles may), and that
  a program without channels never stands still before it ends (the safety half
  of `AwaitsEnd`). A task may await older tasks and its own children, so the ids
  give no order. The invariant is that there is one (`Nested`): put each new task
  in line right before its spawner, then it comes after all that the spawner
  could name when it copied its environment, which is all it can name itself,
  and before the spawner, which can name it. The first in line of those that
  live waits for nobody else.
* **`HandshakeProofs`**: `TypeCorrect`, `NeverAStorm`, `RefreshDeserved`. The
  invariant is about what is on its way: what a message says of a session is so
  (`Fits`; ids are never given twice, so it stays so over crashes and restarts),
  the pings and pongs of one session in all inboxes are no more than it is `owed`,
  however many heartbeats were sent, and requests and responses are no more than
  the sessions made. A pong is only on its way
  once its ping was handled, which is what a refresh rests on.
* **`ToolchainProofs`**: `CounterNeverWraps`, `QuotaKept`, `LogTyped`,
  `ListedStaysFiled`, `ProjectKept`, `EditorUpToDate`, `UnendedWaits`,
  `LoadedInOrder`. The counter of a monitor does not bound its children:
  refused spawns stay counted. `Accounted` says that it is what is alive plus
  what was refused, which cannot wrap while fewer spawns than the word's width
  were asked: so every step counts by exactly one, though it computes modulo the
  width. A process of the audit log writes back an index it read before
  others wrote theirs, so `LogInv` speaks of what every process *holds* as well
  (`Holds`): whatever list it will write names only files that are there, and
  files are never removed (`Grown`). Of the package commands the lemma is that
  what is written for the dependencies is read again (`WrittenIsRead`: one line a
  name, of which the reader finds the latest). An entry survives this unharmed
  only when it is a plain version, or already stands for any (`Fits`), and no
  command leaves another. `HandWrittenAssumption` is only about the shape of the
  lines: a manifest written by hand may ask for a version in whatever place, and
  the invariant says of each entry what is found of it and whether that lasts.
  Of the language server `LsInv` speaks of what is on its way, for an editor that
  ends its messages with a line end: the pipe to the server is whole lines, whose
  last edit of a document makes it the text the user sees (`Comes`); the last
  finding on its way back is that of the text the server has (`Told`); and the
  ids of the answers, the replies and the questions on their way follow each
  other (`InTurn`), also when a handler panics, since then nobody reads on. Only
  with empty pipes is this `SettledMeansCurrent`. It takes finitely many
  documents (`LanguageServerAssumption`); sends, servers and texts are unbounded. With
  an editor that does not end its lines the server is `Stuck` before the body of
  the first message (`UnendedWaits`, the safety half of `RequestsAnswered`).
  Of the modules the invariant tells what a walk has *left* from what is on its
  path (`Walked`). Until a cycle is met, what was left uses nothing on the
  path and has no cycle in it (`Sound`); a module all of whose uses were left
  keeps that so (`OneMore`), and a name on the path closes a cycle with the calls
  above it (`LoopIsCycle`). What was left is what the loader lists; `has_cycle`
  does not record it, so its invariant says that there is such a set, which also
  holds while it walks again what it has left. In the sort a module waits for
  what it uses of the modules not placed (`Sorting`); where it stops early,
  those left wait for one another. The graphs are finite (`GraphsAssumption`).

Only model-checked: that what these safety halves leave possible does happen
(`SubmitReachesWorkers`, `SubmittedIsHeard`, `AwaitsEnd`, the answers of
`RequestsAnswered`) and all other liveness, since TLAPS here has no liveness or
ENABLED reasoning; and what rests on
the recursive definitions of the lexer, the parsers, the checkers and the
engines (`RoundTrip`, `EnginesAgree`, `TypesHold`, `CallsAreReported`,
`DepthCountsRefusals`, `DegradeNeverHeals`), which are out of the prover's reach.

## 5. Not modelled

* **Control-plane client**: one remote call per method, no state of its own.
* **Kubernetes operator**: `controller.rs` maps an object to an object;
  `scheduler_controller.rs` is not valid Rust and not part of the build.
* **Agent core**: the pattern, strategy and evolution modules `j1_*`, `j2_*`,
  `j3_*` and the statistics `runtime.rs` keeps for reports.
* **Front end**: `macro_expand.rs`, which no other module calls, task
  specifications, latency and `qn1`; float literals, the order of strings,
  positions and the wording of errors.
* **Modules**: the cache and export tables of `module.rs`, the registry server.
* **Task runtime**: senders and functions sent over channels.
* **DLVM**: the compiler cuts the offsets of its jumps to 16 bits (compiler.rs:203),
  and so does the model (`AsI16`); no input has a branch of 32767 instructions.
* **Handshake**: the TCP and Unix transports; the text of names and payloads.
* **Language server**: versions, `workspace_diagnostics` and `populate_from_ast`
  (no one calls them), and the texts of completions, hovers and signatures.
* **Tools**: formatter, code generator and bindings turn a text into a text; so do the proposals that `evolve` prints. The profiler.
* **Event bus** (nothing in cpd reads it), the broadcast capacity of 1024 events
  behind WatchTasks, results reported by workers (no one consumes them), and
  the atomics of the scheduler without its outer mutex (every caller holds it).

## 6. What is left

In this order: the TCP transport below `Handshake`; the evolution modules `j2_*`
as state machines.
