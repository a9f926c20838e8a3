# TeleDAP in TLA+

TeleDAP lets an AI client drive a debugger: it offers tools over the Model Context
Protocol (MCP) and turns them into requests of the Debug Adapter Protocol (DAP) to a child
process, codelldb or GDB. This directory holds TLA+ models of it, the TLC configurations
that check them, and theorems that TLAPS proves. Source paths below are relative to the
repository's root.

## 1. Inventory

| Component | State | Operations | What makes it correct |
|---|---|---|---|
| **SessionState, ToolAvailability** (`crates/debug-session/src/state.rs`, `gating.rs`) | none | `can_transition_to`, `valid_predecessors`, `allowed_states`, `operations_for_state` | the two transition tables agree; no state is a dead end |
| **DebugSession** (`session.rs`) | `state`, `halt_state`, `capabilities`, `adapter_kind`, caches, path mapper, each under a lock of its own | one method per DAP request it offers: gate, request, transition; `handle_event` for the adapter's events | the state says what the adapter and the debuggee really do; no stop is lost; caches are invalidated in time |
| **DapClient** (`crates/dap-client/src/client.rs`) | `child`, `stdin`, `seq`, `pending_requests`, the event channel | `start`, `send_request`, `send_request_nb`, `recv_event`, `shutdown`, the reader task | each response reaches its request; each call ends; no process is orphaned |
| **Registry and handlers** (`crates/debug-bridge`) | none | `dispatch` and one handler per tool | gate before work; caches filled with what is current |
| **OpenOcdClient and tools** (`crates/openocd-client`, `handlers/openocd.rs`) | the shared `Option<OpenOcdClient>`; `child`, `stdin`, `running`, `stdout_lines`, `command_lock` | `openocd_start/stop/send/status/output`, the reader task | one process at most stays, none is orphaned; a command gets its own response, in time |
| **MCP stdio server** (`src/server.rs`) | router | read loop, DAP event loop, `cleanup_session` | one call at a time, events handled beside it |
| **HTTP/SSE server** (`src/http_server.rs`) | map of clients under an `RwLock` | `register_client`, `message_handler`, broadcaster | every client gets its answers, and the list-changed notifications |
| **CLI driver** (`src/cli.rs`) | none | a fixed script of calls, then the event loop | ends when the debuggee does |
| **MCP router** (`src/mcp_router.rs`) | `initialized` | `handle_message` | nothing but `initialize` before `initialize` |
| **MCP protocol** (`crates/mcp-protocol`) | none | `parse_incoming`, `write_line` | notification or request |
| **DAP codec** (`crates/dap-codec`) | decode buffer | `decode`, `encode` | any split of the bytes gives the same messages |
| **Variable cache** (`cache.rs`) | name → entries, validity | `insert`, `lookup`, `search`, `invalidate` | most specific entry wins; nothing stale |
| **Breakpoint cache** (`breakpoints.rs`) | a list per file, one of functions | `update_*`, `update_by_id`, `clear` | mirrors the adapter's breakpoints |
| **Path mapper** (`mapping.rs`) | aliases, base dirs | `resolve`, `reverse` | longest alias wins; reverse undoes resolve |
| **Context assembly** (`handlers/inspect.rs`, `context.rs`, `variables.rs`) | none | `assemble_context` | keeps to its limits; loses only what fails |
| **Trace** (`crates/dap-trace`) | channel, ring buffer, file | `trace`, `recent`, writer task | never blocks; keeps the latest entries |
| **DAP types** (`crates/dap-types`) | none | none | data |

**How they interact.** A tool call goes router → registry (gate) → handler → `DebugSession`
(gate again) → `DapClient::send_request`, which writes to the adapter's stdin and awaits a
oneshot channel. The reader task, one per adapter process, takes the adapter's stdout apart:
responses go to the oneshot channels through `pending_requests`, events to an unbounded channel.
A loop, a task of its own in both servers and the main task in the CLI, takes the events
and calls `handle_event`, which works on the same session as the calls do. A change of state
goes through a watch channel to the HTTP server's broadcaster.

**What is hard.** No lock is held across an operation: the state is checked, the request
sent, the answer awaited, `halt_state` cleared and the state changed in separate steps, and
the event loop may act between any two of them. The client is reused by the next adapter, but its
event channel and pending map survive the last one. `send_request` has no timeout. HTTP
clients hang up, which drops a call at an await. The full list, with lines, is under
`hazards` in `PROJECT.json`.

## 2. Modules

| Module | Models |
|---|---|
| `SessionState` | the state machine's tables, constant operators only |
| `DebugSession` | the tasks, `DebugSession`, the part of `DapClient` they go through, and the adapter processes, composed; extends `SessionState` |
| `Cli` | the CLI's script over `DebugSession`, which it extends |
| `DapRpc` | abstract: what `send_request` promises |
| `DapClient` | the client itself: counter, pending map, event channel, readers; implements `DapRpc` |
| `OpenOcd` | the OpenOCD tools, `OpenOcdClient`, its reader and the openocd processes |
| `McpRouter` | constant operators: the parser of a message, the router, the list of tools and the gate in front of a call; extends `SessionState` |
| `McpServer` | the stdio server over `McpRouter` |
| `HttpServer` | the HTTP/SSE server over `McpRouter`: the client map and its fair lock, posts, routers, broadcaster |
| `DapCodec`, `Trace`, `PathMapper`, `VariableHandleCache`, `BreakpointCache`, `AssembleContext` | one component each, with what it runs against |
| `Library` | the components of the line above and `McpServer`, side by side: composed only to be checked and proved about together |
| `MCDebugSession`, `MCCli`, `MCDapClient`, `MCOpenOcd`, `MCHttpServer`, `MCLibrary` | instances for TLC |
| `DebugSession_proofs`, `Cli_proofs`, `DapClient_proofs`, `OpenOcd_proofs`, `HttpServer_proofs`, `BreakpointCache_proofs`, `Library_proofs` | theorems |
| `SequenceFacts` | lemmas about sequences |

### DebugSession

A task runs one operation or event at a time. `op[t]` is which, `pc[t]` the step it takes
next, and one action corresponds to the code between two awaits. The operations share their
steps; which come next is told by `AfterGate`, `AfterReply`, `AfterFailure` and `FirstStep`:

| Code | Steps (`pc`) |
|---|---|
| `start` | gate, is_running, spawn, set_stdin, set_child, set_kind, transition |
| `initialize`, `configuration_done` | gate, send, (wait,) transition |
| `launch`, `attach`, `pause`, inspection | gate, send, (wait) |
| `continue`, steps | gate, send, wait, clear_halt, transition |
| `set_breakpoints`, `set_function_breakpoints` | gate, send, wait, update_bps, update_bps_again |
| `get_variables` | gate, send, wait, cache_vars |
| `shutdown` | gate, send, wait, kill, recheck, transition, clear_bps |
| `initialized` | recheck, transition |
| `stopped` | set_halt, transition |
| `continued` | clear_halt, recheck, transition |
| `terminated`, `exited` | send, wait, kill, recheck, transition, clear_bps |

An early return (a refused gate, an error from the adapter, an illegal transition, `current`
already being the target) goes back to `idle`.

Abstractions:

- A *stamp* `<<g, n>>` stands for whatever belongs to stop `n` of the program under adapter
  process `g`: the contents of `halt_state`, the variable handles, the event that announced it.
- The registry's gate and the session's are one step, the later one. The first can only refuse
  more, and what it lets pass is checked again.
- `send_request` is one step up to the write: the entry in `pending_requests` is made first, so
  no response can precede it. A task has one request in flight, so the task stands for the
  request's `seq`. `Disown` tells what becomes of the request of a dropped call.
- The adapter is an external program: it answers its requests in order and behaves as
  the DAP and the comments in `session.rs` say of codelldb and GDB (who announces
  `initialized` when; codelldb's `launch` is not waited for). It may refuse any request, and
  refuses those that its program's state does not allow; it may announce a resume or not, exit at
  once after a disconnect or later, and, if `MayCrash`, die at any point. It never sends a malformed frame.
- `Cancel` drops a call at an await with the effects it has had so far: a process not yet stored dies, a
  kill may have been sent, a transition out of Halted may have left the variable cache as it was. A
  write of a request is whole or has not happened.
- HTTP clients' calls overlap freely. In the code the clients' lock sometimes makes one wait for another
  (`HttpServer`), so the model has more interleavings than the server, never fewer.
- The breakpoint event is in `BreakpointCache`, the path mapper in `PathMapper`, the nested requests of
  `assemble_context` in `AssembleContext`, the watch channel in `HttpServer`.

### Cli

`script` is the place `run` has come to: a call of its list (`CallPlaces`), the wait for `initialized`
("await"), the event loop ("loop"), "end", or "exit", the `process::exit` after a failed `start` or
`initialize`. `AfterCall` and `AfterEvent` are the matches on the results. At a stop the script asks for
threads, frames, scopes and variables and then continues; when `get_threads`, `get_stack_trace` or
`continue` is refused, or no thread is listed, it goes back to its loop instead and the program stays where
it is. `forsaken` is a history variable, the stops at which the adapter has cut the script short like that. In the program the calls do not count towards `MaxCalls`; the script is finite but for its
loop, which `MaxStops` bounds. "free" is any other program of one task: with it the session's
properties are checked for every order of calls and not for the script's only.
The CLI calls the session and not the handlers, which for two operations add an update of a cache
that nothing in the script reads.

### DapClient

A request is its `seq`. The steps are those of `send_request`: the counter, the entry in
`pending_requests`, the write under `stdin`'s lock, the wait on the oneshot channel;
`send_request_nb` leaves after the write and makes no entry; `shutdown` is a request followed by the
kill. One reader per process takes its pipe apart until the end of the stream, a frame the decoder
rejects, or a panic in the trace's `truncate` (`Unsliceable`, with `Traced`). A write that is
dropped leaves a frame cut short (0 in `inq`), and so the next one is lost.
`said` and `heard` are history variables: what was answered to a request, and what its call
returned with. `DapRpc` sees only these.

### McpRouter, McpServer, HttpServer

A line is a record of what the parser and the router look at: whether it is a JSON object, its method,
what kind of id, which tool. `handle_message` gives the answers; a tool that runs takes its
time between `Runs` and `Return`, and the state may move meanwhile.

In `HttpServer` the map's lock is tokio's fair `RwLock`: `queue` holds those who ask for it in their
order, `Readers` are the posts that hold it, from the lookup until the router has answered. The
second lock of a post, its router's, is the queue `routers[c]`; `handshakes` are the clients whose router is
initialized. `Cast` is the
broadcaster: `Wake` (the watch channel has changed), `Look` (compare with `last_state`),
`broadcast_all` (the write lock, all senders, the pruning). `skipped` remembers the changes it
has not looked at. A client lists tools when it likes, and `relist` says that it has been notified since.

### The components that stand alone

| Module | What is abstracted | What surrounds it |
|---|---|---|
| `DapCodec` | a symbol is a header line, its end, or a byte; limits count symbols | `FramedRead`, any cut of the stream |
| `Trace` | an entry is its number | file errors at open and at any write, a last handle dropped at any time |
| `PathMapper` | a path is a sequence of components; separators, drive letters and `normalize` are left out | which files exist |
| `VariableHandleCache` | a name's match with a query is a parameter | insertions and invalidations that overlap, with both locks |
| `BreakpointCache` | a breakpoint is an id, a line and whether it is verified | the adapter, the reader that splits answers from events, the event loop |
| `AssembleContext` | a request is its path in the nest; answers have a fixed width | refusals, another client's continue, a new stop |

### OpenOcd

Likewise a task per tool call. The locks follow from `pc`: `Writing` and `Reading` say who holds
the outer `RwLock`, `Commanding` who holds a client's `command_lock`. `Register` is the
poll that enrols a task with the `Notify`, and `Notify` moves the enrolled ones on, leaving no
permit, as `notify_waiters` does. A line of output is the number of the command it answers
(0 for a log line) and whether it carries the terminator. A deadline may pass at any wait.
A process's stdin is a pipe with room for `PipeSize` commands, and a command is written whole or not at
all. The deadline begins to run after the write (`client.rs:225-237`), so that `Write` waits, under
`command_lock` and the guard of the shared `Option`, for as long as the process leaves the pipe full. The process
owes nothing: it may answer a command late, read it and never answer (`Ignore`), or read no more.
`EndOfFile` may also happen while the process runs: `next_line` fails on a line that is not
UTF-8 and the reader's loop ends the same way. Then `running` is false for a process that
runs, and commands time out; that is the code's behaviour and part of every run.
`openocd_output` is a read under the same guard as `openocd_status`; whether there is a log
directory, and what the files hold, is left open.

## 3. Runs

| Run | Instance | Shows |
|---|---|---|
| `cli` | `Cli`: one task, its script or any other program; both adapter kinds; 1 process, 2 stops, 10 calls | types; no lost stop; halt details describe the current stop; breakpoint cache cleared; granted calls' transitions are legal; the script leaves no adapter behind, but after a refused `initialize`; every operation ends; the program goes on from every stop but the forsaken |
| `mcp` | one caller beside the event loop; all operations; 1 process, 2 stops, 8 calls | state and child agree; Halted means stopped; no stale handles |
| `http` | two callers that may hang up, event loop; lifecycle; crashes; 2 processes, 4 calls | no orphaned adapter; each response to its own request |
| `dap_client` | two tasks, one with all jobs, one that may be dropped; 2 requests, 2 processes, 2 messages that answer nothing, events among them | types; `DapRpc` is implemented; no waiter without its entry; what stays in the map is explained; events in order; an answer that was written arrives |
| `openocd` | two callers, one of which may hang up; 2 processes, 3 calls, 1 log line, buffer of 1, pipe of 1 | types; no orphaned process; a client in use stays; every call returns, unless a process that reads no more holds up a write |
| `http_server` | a client that is there, one that comes and goes; 2 posts, 1 hang-up, 2 changes between Halted and Running | types; answers go to those that asked; a client that lists again when notified is current; no circle of locks |
| `library` | the components that stand alone, one at a time (`focus`) | types, and one to three properties of each, see below |

`library` starts with a choice of `focus` and then moves only that component, so that its states
are the sum and not the product of the components'. It checks: the decoder's output under every cut of two
frames out of seven kinds (`DecodesTheStream`); the ring and the file of a trace of four entries
(`RecentIsNewest`, `FileHoldsPrefix`); that a listed path leads back to its file, for two aliases and a
base directory over paths of up to three components (`ListedPathResolvesBack`); the cache's contents,
`lookup` and `search` after three insertions of any batches (`HoldsNewestHandles`,
`LookupFindsClosest`, `SearchFindsNewest`); the breakpoint list with one task and with two
(`ListShowsAdapter`, `ListShowsIds`); the result of `assemble_context` with two threads, frames,
scopes and variables each (`LosesOnlyWhatFailed`); three lines of ten kinds over stdio
(`AnswersInOrder`).

The runs that end in a violation record where the code does something else than a comment in it says
(`findings` in `PROJECT.json` quotes the comments):

| Run | What TLC finds |
|---|---|
| `lost_stop` | codelldb's `stopped` is handled between the write of `configurationDone` and the transition to Running. `Initialized → Halted` is illegal, the event is dropped, the session stays Running at a stopped debuggee and `continue` is gated off. |
| `wedged` | `shutdown`, then `start`; the old adapter's `terminated` is handled before the new child is stored and takes the session back to Disconnected. The new adapter is the client's child: `start` finds it running, `shutdown` is not allowed. |
| `stale_handles` | one client's `get_variables` has been answered when another's `continue` invalidates the cache; the handles are inserted afterwards. |
| `dead_adapter` | the adapter dies with a request unanswered; the sender stays in `pending_requests`, and the call waits forever. |
| `openocd_late` | a command times out, its response stays in the buffer and is returned as the next command's. |

**What the passing runs' bounds exclude.** The properties of `cli` and `mcp` are checked
where they hold, and each restriction is one the runs above show to matter:
`RunningMeansNotStopped`, `HaltStateDescribesStop` and `BreakpointsClearedOnDisconnect` need
calls and events in one task (with a concurrent loop, `continue` may clear the details of the next
stop, and a breakpoint call's second update may follow the clear); the `mcp` properties need a
single adapter process (events of a previous one stay in the channel, which nothing drains) and one
caller; `EveryOperationEnds` needs an adapter that lives and no second task that shuts down (two
overlapping shutdowns leave one waiting for the adapter that the other has killed). So what these runs
show is that the session by itself, told of one thing at a time, does what it should; the interleavings in which it
does not are those of `lost_stop`, `wedged`, `stale_handles`, and the ones named here in brackets.
`AdapterOwned` and `ExactlyOneAnswer` hold without such restrictions.

With two HTTP clients `HaltedMeansStopped` fails, as does `FreshHandles` (`stale_handles`): both
clients' `continue`s pass the gate at one stop, the second resumes the program from the next stop, and the
session says Halted of a program that runs.

- `cli`: two ways of the script are left as the code has them. After a refused `initialize` the process exits
  and leaves the adapter, Connected, with its stdin closed (`CliLeavesNoAdapter` says which adapter that is, and
  that there is no other such exit); and a stop whose inspection is cut short is not continued
  (`EveryStopIsContinued` excepts what is in `forsaken`, and nothing else).
- `openocd`: `EveryCallEnds` excepts calls while some call is held up in `Write` for good. In this instance
  that call is the only one that waits for good: of three calls one starts the process, one fills
  its pipe, one is held up. That others wait behind it, for `command_lock` or for the write lock of
  `openocd_stop`, takes a fourth call.
- `dap_client`: an entry may stay in `pending_requests` when its call could not write, was dropped, or
  lost its reader (`LeftoversExplained` lists the cases), and an answer arrives unless the reader that
  was to deliver it has ended (`AnswersArrive`).
- `http_server`: a client's list may be out of date when it was made in a state that came and went before
  the broadcaster looked: the watch channel keeps the last value only, and `last_state` is what is
  compared. `RelistingClientIsCurrent` excepts these (`skipped`). `NobodyStuck` says that the locks form
  no circle, which is not to say that nobody waits: a tool that does not return (`dead_adapter`) holds the
  read lock, the next broadcast queues for the write lock behind it, and every later post behind that.
- `library`: `ListShowsAdapter` compares without the breakpoints that the adapter removed by itself, since
  the event's reason is not looked at; with a concurrent event loop an event may fall between an answer
  and the two updates of the cache, and a breakpoint's verification is lost until the next event
  (`ListShowsIds` is what remains true). Both are about one caller that is never dropped, as the CLI and the
  server over stdio are. With two HTTP clients that set breakpoints in one file the adapter may be asked in one order and
  the cache updated in the other, and a client may hang up between the answer and the update; the list then
  shows ids that the adapter no longer has, until the breakpoints are set again. `ListedPathResolvesBack` needs aliases of which none is a
  prefix of another: a longer alias shadows the shorter one in `resolve` and not in `reverse`.

**Bounds.** Ten calls are enough for the whole life of a session (start, initialize, launch,
breakpoints, configurationDone, two stops with inspection and continue, shutdown). Two stops are
the least that tells a stop from the next. Two processes are the least for a restart, and two clients
for a race. 4 calls in `http` let two starts race and either be followed by a shutdown; in `openocd`
3 calls let two starts race with a stop or a command, a buffer of one line makes every second
line trim, and a pipe of one command is full after the first. `openocd_late` has a pipe of three, so that no write waits. In `dap_client` two requests and two processes let an answer to the first request come out of
order, late, or from an adapter that has been replaced, and two events be delivered in the wrong order. In `http_server` two posts are the least for one that
overtakes another, and with a hang-up and a client that joins and leaves all kinds of holders of the lock
meet; two changes let a state come and go. Events and pipes have no bound of their own. `CHECK_DEADLOCK FALSE` in every configuration:
a system whose call bound is used up, or whose calls wait forever for a dead adapter, stops.

**Quiescence.** Most session properties are stated for quiescent states: no task busy, no event or
message unread. In between, the session lags behind the adapter by design; the question is whether it
ever catches up.

**Symmetry** over the two clients is used in runs of invariants only.

**Fairness.** `DebugSession`: weak fairness for each task's steps and for taking an event, for each
reader (the tokio runtime polls every task that is ready), and for an adapter that runs to answer its
requests. No fairness for calls, stops, exits, crashes or hang-ups. `Cli`: the same, and for the next call of the
script. `DapClient`: each task's steps and each reader; adapters owe nothing, and calls may be dropped.
`HttpServer` states no fairness: `NobodyStuck` asks whether some task can go on. `OpenOcd`: weak fairness for the steps of
each call only, the timeout among them; the process and even its reader owe nothing.

## 4. Proofs

TLC checks small instances; the theorems hold for every value of the constants that satisfies the
modules' assumptions (`ASSUME`), which TLC evaluates in the runs. Every theorem about behaviours has the same shape: an inductive invariant, with a lemma
per action (or per group of actions that leave the same variables alone), and the property as its consequence.

| Module | Theorem | Property |
|---|---|---|
| `DebugSession_proofs` | `PredecessorsAreConverse`, `NoStateIsADeadEnd` | the tables of `state.rs` and `gating.rs` (`SessionState`) |
| | `TypeCorrect`, `AdaptersAreOwned`, `EveryCallIsAnsweredOnce` | `TypeOK`, `AdapterOwned`, `ExactlyOneAnswer` |
| | `GateAdmitsLegalTransitions` | `gating.rs` against `state.rs` |
| | `FirstAdapterIsKnown` | `DisconnectedMeansNoAdapter`, `ConnectedMeansAdapter` with an event loop beside the caller, up to the first adapter |
| | `HaltedIsTrueBeside`, `HandlesAreFreshBeside` | `HaltedMeansStopped`, `FreshHandles`, likewise |
| `Cli_proofs` | `CliTypeCorrect`, `GrantedCallsSucceed`, `DisconnectClearsBreakpoints` | `TypeOK`, `GrantedCallSucceeds`, `BreakpointsClearedOnDisconnect` |
| | `DisconnectedHasNoAdapter`, `ConnectedHasAdapter`, `NoAdapterIsLeft` | `DisconnectedMeansNoAdapter`, `ConnectedMeansAdapter`, `CliLeavesNoAdapter` |
| | `NoStopIsLost`, `HandlesAreFresh` | `RunningMeansNotStopped`, `FreshHandles` |
| | `FirstStopIsTheStop` | `HaltStateDescribesStop`, `HaltedMeansStopped`, up to the first adapter |
| `DapClient_proofs` | `TypeCorrect`, `WaitersKeepTheirEntry`, `LeaksAreExplained` | `TypeOK`, `WaitersRegistered`, `LeftoversExplained` |
| | `EventsKeepTheirOrder`, `ClientImplementsRpc` | `EventsInOrder`, `ImplementsRpc` |
| `OpenOcd_proofs` | `TypeCorrect`, `NoProcessIsOrphaned`, `ClientsStayInUse` | `TypeOK`, `ProcessesOwned`, `ClientInUseStays` |
| `HttpServer_proofs` | `TypeCorrect`, `AnswersComeHome`, `RelistingSuffices` | `TypeOK`, `AnswersGoHome`, `RelistingClientIsCurrent` |
| | `SomebodyCanGoOn` | what `NobodyStuck` says, with the steps' guards for its ENABLED |
| `Library_proofs` | `TypeCorrect` | `TypeOK` of all its components |
| | `DecoderFollowsTheStream` | `DecodesTheStream` of `DapCodec` |
| | `RecentGivesTheNewest`, `FileHasNoGap` | `RecentIsNewest`, `FileHoldsPrefix` of `Trace` |
| | `ListedPathComesBack` | `ListedPathResolvesBack` of `PathMapper` |
| | `LinesAreAnsweredInOrder` | `AnswersInOrder` of `McpServer` |
| | `CacheHoldsNewestHandles`, `LookupIsClosest`, `SearchIsNewestFirst` | `HoldsNewestHandles`, `LookupFindsClosest`, `SearchFindsNewest` of `VariableHandleCache` |
| | `ContextLosesNothingElse` | `LosesOnlyWhatFailed` of `AssembleContext` |
| | `ListAgreesWithAdapter`, `ListHasTheBreakpoints` | `ListShowsAdapter`, `ListShowsIds` of `BreakpointCache` |

`SequenceFacts` holds what these need to know of sequences: what `Append`, `Tail`, `\o` and removal of an element do to
ranges, to injectivity and to the places of the other elements, and what `FlattenSeq` gives: its type, its
first elements, and where each of the parts stands in the whole. `BreakpointCache_proofs` holds the lemmas about
`BreakpointCache`, which `Library` has twice.

### DebugSession

`AdapterOwned` is not inductive: it needs that the process in the hands of a `start` has been
spawned, that is, is one of `1..spawned` and not 0, so that the process stored as `child` is
really the one in `arg`. The invariant is
`IInv == TypeOK /\ StartsHoldProcess /\ AdapterOwned`. The heart is `SetChildInv`: the process that is
overwritten leaves `alive` because `kill_on_drop` is part of the same step. `CancelInv` is the other one:
dropping a `start` drops its process. Assumptions used: `TasksAssumption`, `ToolsAssumption`,
`KindsAssumption`, `BoundsAssumption`.

`ExactlyOneAnswer` counts what is under way to or for a task. Its invariant, `PendingInv`, says the same of
*places* in the pipes (`Routed`: a task that waits has one place among all pipes, any other none), since sets of records taken
from sequences are hard on the provers, and adds `EventsForNobody`: an event never has the address of a call, so the
reader never takes one for a response. A dropped call's request stays in the pipe without an address (`Disown`), which
is why the next call of the same task is not answered by it.

`GateAdmitsLegalTransitions` compares `gating.rs` with `state.rs`. That with one task nothing changes
the state between gate and transition is `GrantedCallsSucceed`.

The last three theorems are about the MCP server over stdio, as the run `mcp` is: one caller `c` that is never dropped, and one
event loop `l` (`Beside`). The adapter may refuse, stop, exit and crash. The loop handles an event between any two steps of a
call, so no step of one task can be read as if the other stood still. `BesideInv` has these parts:

- `OrderTrue`: which of the two owns the process at each step. A start holds it before the session is Connected; a
  shutdown of either task has killed it before the session is Disconnected, and the two may overlap (`Leaving`, `ChildTrue`, `StartTrue`);
- `WordsTrue`: what is under way to the loop, in the pipe, the channel or its hands, is true of the program. A "stopped" comes once and is the
  last word about a program that stands; "exited" and "terminated" come from a program that has ended;
- `HaltedTrue`: a halted session with no resuming call granted has its program at a stop, or at an end that the call
  under way is about to act on; and of an ended program the loop is yet to be told, with no stop still on its way;
- `CallsTrue`: a call admitted to a halted session finds it halted until it is granted itself, because no event that the
  first adapter can still send takes the session from Halted to Running; and the cache is empty unless the session is Halted;
- `StampsTrue`: what is cached, and what the answer of `get_variables` brings, is of the stop the program is at. The insertion may come
  after another event has been handled, but not after another stop, which would need a call to resume the program.

All of them are about the first adapter (`spawned <= 1`): the channel is not drained between two, and a word of the old adapter that is
handled in the new session breaks each (`wedged` shows the worst of it).

### Cli

The theorems hold for the script and for any other program of one task (`OneTask`), for any number of
processes, stops and calls. `Alone(t)` is the invariant: which operation may be at which step (`Staged`); a
call runs in a state that its gate admits it in (`Admitted`); a shutdown kills before it
disconnects, and a start has the child before it connects (`ChildGone`, `ChildKept`); and a
disconnected session has its cache of breakpoints empty, or is about to empty it (`CacheGone`). The
three properties of quiescent states follow, and in fact hold whenever the task is idle.

`NoAdapterIsLeft` needs in addition where the script is (`OnScript`) and what its first two calls do
(`Opening`): a `start` that fails has spawned nothing; and an `initialize` that fails has been refused by the process just
started, which runs, since nothing but `initialize` has been asked of it (`OnlyInitialize`), and is the client's child. That is the exit that leaves an adapter, and the theorem says so.

`NoStopIsLost` is about the order in which a task hears things: first its own step under way, then the channel of
events, then the pipe. Its invariant, `StopsTrue`, says of a program that stands at a stop that the last
word about it that the session hears, or has heard, is not that it runs (`StopIsLast`): either
"stopped" comes after every "continued" in the pipe; or the pipe holds no "continued" and the same is true of the
channel; or neither holds one, and the session itself neither is Running nor about to become so (`Settled`). The
hard steps are those that put a "continued" behind the stop it precedes in time:

- a request that was granted, and its transition still to come: then the answer was "ok" and the program has been
  let go (`Granted`), so it may stop again, but with a "stopped" that is still to be heard;
- adapters of the past, whose pipes are read into the same channel. `OldOnesSilent` shows that an adapter which is
  replaced has no "continued" left in its pipe: the disconnect's answer came after it, or the process was gone before a
  request could be sent;
- the first `configuration_done`, of which codelldb's answer is not waited for: the program has not begun
  before (`NotBegun`).

With a second task the property fails (`lost_stop`): there the event loop may handle a stop between a call's
request and its transition.

`HandlesAreFresh` needs what is on its way to the cache: the answer of `get_variables` in the pipe, in the hands of the
call, and between answer and insertion. `HandlesTrue` says of all of these, and of what is cached, that they are of the stop
the newest program is at, and that this program does not run (`Rests`). It says so of the cache only while the session
`StaysHalted`, that is, is Halted with no call granted that resumes the program: from the adapter's "ok" to the transition
the cache still offers the handles of the stop before, and it is the transition that clears it. The lemma `HaltedStays`
carries the argument: with one task a session becomes Halted by a stop's event only, and then with an empty cache, and a
program at a stop leaves it by a request that is granted. This holds for any number of adapters; with a second task it
fails (`stale_handles`).

`FirstStopIsTheStop` goes further than `NoStopIsLost`: what the session takes for the stop *is* the stop. `StopTrue` says
that a "stopped", wherever it is on its way (pipe, channel, or the task that handles it), bears the number of the stop the
program is at and is the last word about it, and that a session that stays Halted has heard everything, with that stop in
`halt_state`. The theorem is about a session's first adapter, and the condition `spawned <= 1` in it is
needed: the channel is not drained between two adapters, so that a "stopped" of the first may halt the session of the
second, whose program has not stopped. With two processes and calls enough for two sessions (`MaxProcs = 2`, `MaxCalls = 12`), TLC finds both properties violated in this way.

### DapClient

`IInv` says that a request's number is a key: it has been given to one call (`CallsOwnNumbers`), nothing is
under way for numbers the counter has not reached (`NumbersAhead`), a request is in the pipes at most once and never after it
has been answered (`SentOnce`), a response carries what was said to its request (`ResponsesTrue`), and what lies
in a oneshot channel was said to its request, whose call waits for it (`SlotsTrue`). From this follow that waiters keep
their entries, that what is left over is explained, and that every step is one of `DapRpc` or a stutter. It holds across
restarts because neither the counter nor the map is ever reset.

`EventsKeepTheirOrder` is proved from a restatement over places (`EventsOrdered`, shown equivalent to
`EventsInOrder` by `OrderSaidOfPlaces`): what has been delivered or waits in the channel comes before what is in the pipe.

### OpenOcd

The invariant of the two safety theorems adds the types of the variables concerned and `TakersStop` (only `openocd_stop` takes the
client out of the slot): without it, the step that empties the slot would not be known to leave the process with a task
that holds the write lock. `StoreInv` is where `kill_on_drop` is needed, `StoreInv` and `TakeInv` where the write
lock is. `TypeOK` bounds the output buffer and needs that a task in the middle of a command has a client in its
hands (`HandsFull`).

### HttpServer

`LockInv` ties the queues of the two locks to what the tasks do: who waits for the map is in its queue, once
(`MapQueue`); a router's queue holds the posts of its client that have the read lock (`RouterQueues`); and a
post that runs a tool is at the head (`CallersFirst`). `AnswerInv` follows an answer from the router to the
stream: it is there from the moment the post leaves the read lock (`AnswersReady`), what a stream holds
belongs to a finished post of that client (`AnswersOwn`), once (`AnsweredOnce`), and a finished post whose
client was never lost has its answer there (`NoneLeftOut`). `LinesAssumption` says that lines carry the ids that JSON-RPC allows.

`RelistingSuffices` is about the list that a client goes by, the answer to the latest of its requests. That this
one was also made last is not to be taken for granted: posts overlap. `MapOrder` and `RouterOrder` show that the
fair lock and the router's queue let a client's posts through in the order they came in. So the
last request for a list gets one, if it gets any answer (`AskersAnswered`), and no later one overwrites it
(`LastAsked`). `ListsFresh` then says of each list a client goes by that it was made after the
latest change; or at one that has been skipped; or that a later change has been published and the broadcaster has yet to
tell the client, after which `relist` holds. A list made before the first change
has no change to go by and is compared with `last_state`, the state the broadcaster told of last. A notice that finds no well-formed request after it leaves
`relist` as it is (`AsksForList`); the proof showed that a malformed line, which the model had taken for a request, asks for nothing.

`SomebodyCanGoOn` needs no more than the queues: a reader stands in a router's queue, and the first of that
queue holds the read lock already; without readers the first of the map's queue has the lock it waits for.

### The components that stand alone

`Library` has an `INSTANCE` of each, with constants that stay free. The proofs first take a component
by itself (`LogSpec`, `PathSpec`, `StdioSpec`, `HandleSpec`, `CodecSpec`, `CtxSpec`), whatever is beside it; that a behaviour of
`Library` is one of each component (`LogMoves` and so on) then gives the theorem. The assumptions are what the types in
the code give: sizes and counts are numbers (`TraceAssumption`, `PathAssumption`, `ContextAssumption`), a cache has
finitely many names and places (`HandleAssumption`), lists of lines are sequences (`BreakpointAssumption`), ids are
those of JSON-RPC (`LineAssumption`), and a frame has a header and the length it declares (`CodecAssumption`: the
adapter writes what it counts; frames that tell no length, or one beyond the limit, are among them).

- `DapCodec`: buffer and input continue the stream exactly where the messages decoded so far end (`Continues`); a decoder that
  waits has less than the next frame, and one that has failed stands before a frame that is to be refused, or one
  that is cut off (`AtFrame`). The heart is `DecodeReads`: of any buffer that agrees with a frame as far as both go,
  `decode` takes that frame and no more, or waits if it is shorter, or fails if the frame is malformed or too long.

- `Trace`: the entries are numbered, so that the invariant is about numbers: the channel continues where the ring ends
  (`Queue`), the ring is the last stretch of what was consumed (`Newest`), and the file holds
  what was consumed but for what was skipped (`InOrder`, `AllThere`). Ring size 0 is covered: it keeps one entry.
- `PathMapper`: with prefix-free aliases the alias that `reverse` puts in front is the only one that
  `resolve` can find there. The rest is arithmetic of prefixes and suffixes.
- `McpServer`: the ids of the answers written, with that of the answer in hand or of the tool that runs, are
  those that the lines read so far are owed (`Account`).
- `VariableHandleCache`: after every step the list of a name holds what `varNewest` says, once (`Lists`). `Without`
  is recursive; what it returns is proved by induction on the length of the list. `search` chooses the newest of what is left
  again and again (`Leaves`): each choice is no newer than the one before, and what is left no newer than either.
- `AssembleContext`: the requests made and to be made are a frontier of the tree of requests (`Frontier`): every request that the
  limits ask for has been answered, hangs below one that failed, or hangs below one still to be made, and no two of
  these hold. Each answer replaces a request by its followers, each failure by itself. When nothing is to be made any
  more the property is what remains.
- `BreakpointCache`: `base`, the lists the cache will show once the answer under way is stored, is what the
  invariant speaks of (`Accounted`). Its ids rise within a list and are disjoint between lists, so an update
  by id finds at most one; and they are those of the adapter's lists and of what it removed by itself (`IdsAgree`). With one task the lines
  agree too: the last event about an id, in the pipe, in the channel or in the task's hands, is true of
  the adapter's entry, and where nothing is under way about an id the list has that entry (`LatestFits`).
  Constant `Asked` is the set of lists of lines that are asked for.

**Induction.** The library's induction theorems take an operator as parameter, which the provers installed
cannot instantiate. Where a recursive function had to be reasoned about (`FlattenSeq`, `Without`) the proof
takes the least number for which the statement fails (`SmallestElement`, from the well-foundedness of `<`). It works for
functions that the modules define themselves; folds, and `SelectSeq`, whose definition is
hidden from the prover, stay out of reach. `Without`, `search` and `FollowUps` are recursive functions for that reason.

### Only model-checked

- Liveness (`EveryOperationEnds`, `EveryStopIsContinued`, `EveryCallEnds`, `AnswersArrive`).
- `NobodyStuck` for its ENABLED; `SomebodyCanGoOn` states the same of the guards, which TLAPS can take.

### DapClient implements DapRpc

`ImplementsRpc` is `DapRpc`'s `Spec` with `Requests` read as the numbers up to `MaxSeq`, and `said` and
`heard` as they are. An adapter's `Answer` is a `Say`; `Receive` of a filled channel is a `Hear`; the ways to end
without an answer (`send_request_nb`, a failed write, a dropped call, a lost sender) are `GiveUp`;
all else stutters. What could break it is that a number is used twice: the counter is never reset, although
child, stdin and readers are replaced at each restart, and the map is keyed by it alone.

## 5. Observations

Read in the code while modelling, and not the subject of a run:

- `crates/dap-trace/src/handle.rs:184` slices at byte 500 whatever the characters; a response whose text
  has a multi-byte character there panics the reader task, and the adapter's later answers are not read.
- `recv_event` never returns `None`: the client keeps a sender itself, so the arms for the end of the stream
  (`cli.rs`, `server.rs`) are dead, and `client.rs:453` says otherwise. A launch that the adapter refuses is
  logged by the CLI, which then waits for an `initialized` event without end: so does the script ("await"), and
  no property promises that it ends.
- `lookup` of the variable cache announces, as its fourth step, a match with names that contain the query
  (`crates/debug-session/src/cache.rs:112-116`). The code returns at `entries.get(name)?` when no entry has exactly the name:
  there is no such step. `lookup` and `LookupFindsClosest` are the code's.
- `get_variables` caches what it gets under no frame and no scope (`crates/debug-bridge/src/handlers/inspect.rs:111`): of
  two variables of one name in different frames or scopes the cache keeps the later one. The cache keeps the newest handle
  of every place, as `HoldsNewestHandles` says; the handler gives it one place for all.
- `send_command` of the OpenOCD client writes before its `timeout` begins (`crates/openocd-client/src/client.rs:225-229`, `237`):
  with a full pipe it waits without a deadline and keeps `openocd_stop` waiting (`EveryCallEnds` excepts it).
- A breakpoint event with the reason "removed" is handled like any other
  (`crates/debug-session/src/session.rs:755`): the breakpoint goes on being listed.
- `crates/debug-session/src/session.rs:764` reads `thread_id`, the protocol's field is `threadId`: the
  removal from `stopped_threads` never happens.
- `tools/list_changed` is advertised over stdio as well (`mcp_router.rs:175`) and never sent there.
- `assemble_context`'s `maxDepth` has two values that differ: 1, and anything more.
- The trace's `seq` is not assigned, its flush is not awaited at exit, and an error of the flush is ignored. A failed
  `initialize` ends the CLI by `process::exit`, which leaves the adapter to its closed pipe (`CliLeavesNoAdapter`).
- `transition_to` changes the state, then awaits the caches' locks, then sends on the watch channel; a call
  dropped in between leaves the broadcaster with the earlier state.

## 6. Plan

The modelling is done, but for what section 7 lists, and so are the proofs of the invariants that need no
restriction to few tasks, and of those that hold for one task or for one caller beside an event loop. With two callers
`HaltedMeansStopped` and `FreshHandles` are false. What is left is liveness, which stays with TLC.

## 7. Not modelled

- The types of `dap-types` and `mcp-protocol` beyond the kinds of message and event (data), JSON and schemas,
  the parsing of parameters, logging, command lines and environment of the child processes (`PATH` for
  liblldb), file contents of the logs.
- `get_state`, the stored capabilities and the thread event: read-only, or without effect.
- `VariableExpander`, `ContextChain`, `drain_events`, `try_recv_event`: no caller.
- The set-up of axum and `main.rs`: input and output.
