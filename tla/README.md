# ebpf-fileguard: a TLA+ verification project

ebpf-fileguard lets listed executables open listed files and denies everybody
else, with a BPF program on the LSM hook `security_file_open`. A user-space
daemon compiles the policy into kernel maps, reads the events the program raises
and answers `guardctl` over a Unix socket. This directory holds TLA+ models of
the parts of it that are concurrent or that have to agree with each other, the
TLC instances that check them, and TLAPS proofs. `PROJECT.json` maps every
definition to the lines it models and lists runs, mutants, hazards and findings.
Paths below are relative to the repository.

## 1. Inventory

| Component | State it keeps | Operations | Talks to |
|---|---|---|---|
| `Policy`, `PolicyManager` | current policy (`shared_ptr` under a lock), version | `validate`, `find_rule`, `install`, `current` | Controller |
| `DecisionEngine` | none | `evaluate`: the decision by path | tests, CLI; must agree with the BPF program |
| `PolicyCompiler` | none | `compile`: paths to inodes with `stat(2)` | file system |
| `PathResolver` | inode to path map | `add`, `resolve` | swapped by `load_policy`, read by `emit_event` |
| BPF program `fg_file_open` | maps `config`, `protected`, `rules`; event ring | one run per open, in the opener's context | maps are written by the enforcer meanwhile |
| `LinuxEBPFEnforcer` | skeleton, ring, `status_`, `state_mu_` | `load`, `apply_policy`, `status`, `run`, `detach` | kernel, Controller |
| `Controller` | resolver, queue, two threads, list of stream clients | `start`, `load_policy`, `request_stop`, fan-out of events | everything |
| `SpscQueue<T>` | ring of slots, two indices, mutex, two condition variables | `push`, `try_push`, `pop`, `try_pop`, `request_stop` | poll thread to consumer; consumer to stream writers |
| sinks | output streams | `write`, `flush` | consumer thread |
| `Daemon`, `SocketStreamClient` | `running_`, server thread, detached handlers, stream clients with writer threads | `run`, `stop`, requests, stream mode | Controller, `guardctl` |
| `ConfigParser` | none | policy and configuration files | Controller, Daemon |
| CLI | `g_signal`, pid and socket files | `serve`, `status`, `policy`, `events`, `stop` | Daemon |
| `NullEnforcer` | status | backend for other hosts | Controller |

What is hard here, and so what the models are for:

* **Policy replacement against opens.** The maps are not replaced atomically.
  `apply_policy` pauses enforcement, clears, refills and enables; an open runs
  between any two of those writes, a map operation may fail, with or without
  the caller being told, and a second connection may load another policy.
  Correct means: what is enabled is a whole policy; an open that no update
  overlaps gets its verdict; the kernel, the `DecisionEngine`, the resolver and
  `status()` tell the same story. Where a failure makes that impossible, the
  damage is confined and named.
* **Two implementations of one decision**, by path in user space and by inode
  in the kernel.
* **The event path.** A record that is reserved and not submitted blocks the
  reader; a full queue blocks the poller, which fills the ring; a stop finds the
  threads anywhere. Correct means: nothing that got a record is lost, doubled or
  overtaken before a stop, what the queue accepted is written, and the stop ends.
* **The queue**: lock-free and locked calls on the same indices, wakeups, wrap.
* **The control plane**: detached threads, descriptors with two owners, two ways
  to stop, peers that never read or leave at any time.
* **The wire**: requests cut into arbitrary pieces, documents with any member
  missing or of the wrong type, exceptions with and without a handler, a policy
  file that is read twice.
* **Several processes**: the socket file is the only lock between controllers;
  it is tested, unlinked, bound and removed by whoever comes, and a process may
  be killed between any two of these steps.

`hazards` in `PROJECT.json` lists these places line by line.

## 2. Modules

| Module | Models | Composition |
|---|---|---|
| `Policy` | policy records, `validate`, `evaluate`, `compile`, resolver, map contents; operators only | |
| `LsmHook` | the BPF maps, the ring and `fg_file_open` | extends `Policy` |
| `PolicyUpdate` | `load_policy`, `apply_policy`, `status`, `detach`, the ring reader | extends `LsmHook`: composes loaders and opens |
| `PolicyUpdateProofs` | theorems about the maps and the opens of `PolicyUpdate` | extends `PolicyUpdate` |
| `PolicyAgreementProofs` | theorems about `status()`, resolver, events and `DecisionEngine` | extends `PolicyUpdateProofs`, `SeqLemmas` |
| `BoundedFifo` | what the queue promises: a bounded FIFO that can be closed | abstract specification |
| `SpscQueue` | the queue at the grain of its shared accesses | implements `BoundedFifo` |
| `EventPipeline` | ring, poll thread, queue, consumer, `start`, `request_stop` | extends `BoundedFifo`: the queue at the grain of its calls |
| `Daemon` | server, handlers, streams and writers, fan-out, `stop`, signals, peers | |
| `ConfigParser` | `ConfigParser::from_json` over document trees; operators only | extends `Policy` |
| `Connection` | one control connection: a `guardctl` or other client, the handler's lines, requests and answers, the framing of a stream | extends `ConfigParser` |
| `RuntimeDir` | the `guardctl` processes of a host, the socket and pid files, kills | |
| `SeqLemmas` | facts about sequences that the proofs share | |
| `SpscQueueProofs`, `EventPipelineProofs`, `DaemonProofs`, `ConnectionProofs`, `RuntimeDirProofs` | theorems about the module of that name | each extends it; all but the last extend `SeqLemmas` |
| `MC...` | constants for TLC | |

A definition whose name contains an underscore followed by a capitalised word
and whose comment starts with "Mutant" is not part of the model: it is a
plausible bug, and replacing the definition below it by the mutant must make TLC
report the property `PROJECT.json` names. No passing property is vacuous in this
sense.

### PolicyUpdate (with Policy and LsmHook)

The three maps are `config`, `protected` and `rulesMap` (total on its keys, with
`NoRule` for an absent one); `BPF_NOEXIST` inserts are modelled with their
`EEXIST` case ignored as in the code. An open is four steps (`HookEnter`,
`HookLookup`, `HookRule`, `HookReturn`), split where another CPU may write what is read next.
The pointer returned by the rule lookup may be read after the element was
deleted and its preallocated memory reused: `RuleRead` gives all values it can
yield, and the two reads of `action` (for the event and for the return value)
choose independently. Ring memory is not cleared, so a reserved record starts
with arbitrary `proc` and `rule_id`.

A load walks `LoadBegin` (validate and compile), `ApplyLock` (`state_mu_`),
`ApplyPause`, `ClearProtected`, `ClearRules`, `InsertProtected` and
`InsertRules` (one element each), `ApplyEnable`, then `SwapResolver` and
`Install` under their own locks. `ApplyFail` is the error return of a map call
whose result the code looks at (`MapError`): the kernel's failure (when
`MapsMayFail`) or a full map (`MapEntries`).

`ClearProtected` and `ClearRules` delete one element per step, in any order, as
`clear_map` does in hash order. `clear_map` does not look at what
`bpf_map_delete_elem` returns (`src/ebpf_manager_linux.cpp:137`): with
`MapsMayFail`, the loop may also end with any elements left, and the load goes
on over them. The `BPF_NOEXIST` inserts then leave a rule of the old policy in
place. `status(found)` has both branches of the lookup in `status()`: the config
entry, or what `status_` last recorded.

`Regime`, `applied`, `kept`, `seen` and `stale` are ghosts: what is enforced now,
the compiled policy last enabled, what the last `clear_map` of each map left in
it, all regimes an open overlapped, and whether a leftover was about its file and
executable (`Leftover`). The properties that leftovers would falsify name them as
their exception; `CleanIsExact` (section 4) says that there are none unless a
delete fails.

### SpscQueue and BoundedFifo

Each lock, test, slot access, index store and notification is a step; the
program counters follow `event_queue.hpp`. A waiting thread returns to `lock` on
a notification or spuriously. The atomics are modelled as sequentially
consistent: every cross-thread index load is an acquire paired with a release
store by the single writer, so an observed index also shows the slot.
`ImplementsFifo` states the refinement with the ring's live slots as `q`.

`use`, chosen in `Init`, says whose queue it is: the controller's (`push` and
`pop`), a stream client's (`try_push` and `pop`), or any mixture of the four
calls. The refinement, `NoSlotRace` and `InOrder` hold for all three; the FIFO
of a queue with `try_push` is never closed, because `try_push` does not look at
`stop_`. `PushReturns` and `StopEnds` hold where the
consumer uses `pop`, `ItemsDelivered` and `Drained` for the controller's queue.

### EventPipeline

Events are numbered by opens. The hook's part is `Reserve`, `RingFull` and
`Submit`; `Consume` and `Advance` are libbpf's `ring_buffer__poll` (stop at a
busy record, free a record after the callback), marked external. The callback
chain down to `queue_.push` is `EmitEvent`. `start` may fail before or after the
attach, and `request_stop` runs its five steps in the code's order.

### Daemon

Sockets are reached through descriptor numbers, and `Accept` takes the lowest
free one, so that a number closed twice can hit another connection. A stream
client's references are counted by who holds one: its handler (`h[c].pc`), the
daemon's list and the controller's list. A socket is the number of objects its
peer has not read; a `send` that finds it full sleeps on the socket (not on the
number), and closing the number does not wake it. `ServerFail` is the server
thread's end on a poll error, with `running_` still set.

The queue inside a stream client appears at the grain of its calls with a pop
that never sleeps on a non-empty queue; the lost wakeup of that queue
is shown by `stream_wakeup`, on the queue itself. Handlers are not followed past
the destruction of the Daemon.
The peer of a stream sends nothing after its request.

### ConfigParser and Connection

A document is the tree of the members `from_json` looks at; each is `Absent`, of
an unexpected type (`Other`) or a value. `Outcome(Steps(doc))` runs the parser's
steps in the code's order; a step ends in "ok", "error" (a `Result` with an
error) or "throws" (`json::value()` on a member of the wrong type, which
`from_json` does not catch). Texts that are no JSON are `NotJson` (`parse_error`)
or `OutOfRange` (a number no double can hold, for which `json::parse` throws
`out_of_range`, caught nowhere that only `parse_error` is). The version is read
with `get<int>()`, which takes every `JsonNumber`: `get_int` casts integers and
booleans (`int32`, scaled down to `IntRange` values), drops the fraction of a
float (a float stands in the model by its integer part), and for a float beyond
`int32_t`, which C++ leaves undefined, yields what the build does (`FloatBelow`,
`FloatAbove`: any values). `Document` is the set of all such trees, with lists of any
length and any integer for the version; TLC checks the ones in `Files`, the
proofs speak of all. `Text` stands for the strings that are neither paths nor
rule ids.

A socket carries tokens: a JSON text or the newline. `HandlerRecv` and the
client's receives take any non-empty part of what is there. `HandleLine` is the
whole of `handle_line` for one line. A request that is JSON but no object, or
whose `cmd` is no string, ends the process (`HandlerTerminate`): `value()` throws
outside the `try` of a detached thread; so does a line that is `OutOfRange`.
`HandlerClose` also leaves unread requests behind once `running_` is false.
`ClientGiveUp` has the two exits of `request_json` without a line, an error of
`recv(2)` (`EINTR` included) and more than 1 MiB. What `from_json` throws inside
`handle_request` is caught and answered, whereas in `guardctl` nothing catches it
("aborted"). `applies` stands for the kernel's part of `load_policy`, which
`PolicyUpdate` has in detail. `Edit` changes the policy file, also between the
two readings of `run_policy_load`. `StopElsewhere` is a stop from outside this
connection.

### RuntimeDir

A process id is one invocation of `guardctl`, and `sock` and `pidFile` hold the
process whose file is there. The steps of `run_serve` and `Daemon::run` are the
system calls on the two files and the tests around them; each call that can fail
has its error return. `Lookup` lets `policy load` go on as `serve --daemon` when
there is no socket. A connection leads to the process that had bound the file
when it was made, even after the file is gone. `Kill` stands for `SIGKILL` and
for an abort, which a startup policy that makes `from_json` throw also causes:
the kernel closes sockets and detaches the program, the files stay. After
`ServerBreak`, a poll error, the server thread closes and removes the socket while
`run()` waits on ("deaf") until something clears `running_` (`RunDeaf`): a handler
with a stop request, or a signal. `MaxFaults` bounds both. `overlap` is
a ghost: a serve passed its test while another controller was alive without a
socket file.

## 3. Runs

### What holds

| Run | Checks | Shows |
|---|---|---|
| `policy_update` | `UndisturbedOpen`, `EngineAgrees`, `ResolverMatches`, `EventExplains`, `BusyRecordsOwned` | one loader, map calls that fail, deletes that fail unnoticed: an open no update overlaps follows the policy, kernel, `DecisionEngine`, resolver and events agree, all but for requests a leftover element is about; no record stays unsubmitted |
| `two_loaders` | `TypeOK`, `CompleteWhenEnabled`, `StatusTruthful`, `LoadTerminates` | what `state_mu_` guarantees, with two loads at once, the same failures and a policy that does not fit: what is enabled is one whole policy and exactly the leftovers, `status()` shows that policy, every load returns |
| `queue` | `TypeOK`, `Drained`, `NoSlotRace`, `InOrder`, `ImplementsFifo`, `PushReturns`, `ItemsDelivered`, `StopEnds` | the queue is a closable bounded FIFO, locked and lock-free calls never touch a slot together, the controller's use of it loses no wakeup and a stop ends every `pop` loop |
| `pipeline` | `TypeOK`, `NothingLost`, `LogIsPrefix`, `Drained`, `NoUseAfterFree`, `StopReturns`, `EventsLogged` | order and completeness of the log, and a stop that ends from every state (full queue, busy record, dead poller, failed start) |
| `daemon_streams` | `TypeOK`, `ListsNeverOwn`, `DescriptorOwned`, `StreamReleased` | a stream beside a connection that stops the daemon, a signal, a poll error: neither the consumer nor `stop()` ever joins a writer; a working handler's descriptor is its own, but for the second close of `~SocketStreamClient`; the stream is released unless its writer sleeps for ever |
| `daemon_live` | `StreamOrdered`, `FeedEnds`, `StopCompletes` | one connection, any request: a peer that never reads holds up neither the fan-out nor the end of the process; a stream keeps the order of events, and each is sent, queued or counted as dropped, dropped only once the client was given a queue full of lines |
| `runtime_dir` | `TypeOK`, `FilesOwned`, `SoleController`, `ClientReturns`, `StopTakesEffect` | three processes that serve, load or stop, one kill or lost server thread: only a killed controller (or, for the pid file, one that failed to detach) leaves files; without overlap there is one controller and the file leads to it; clients return although they wait without a timeout; a stop that was answered happens |
| `connection` | `TypeOK`, `LineProtocol`, `ParserFaithful`, `LoadSafe` | however a stream is cut, each line has one answer in order, and a `guardctl` that does not give up gets its own; what the parser accepts it reads as written, the version converted as `get<int>()` does; only policies that compile become current and no policy document ends the daemon |

### Where the code and its documents disagree

Each run below states what a comment or document says, and TLC finds a behaviour
of the code that contradicts it; `findings` quotes the lines.

| Run | Property | What happens |
|---|---|---|
| `concurrent_loads` | `EngineAgrees` | two loads interleave between `state_mu_` and the policy's own lock: the kernel keeps one policy, user space the other |
| `in_flight_open` | `NoWrongDecision` | an open that read `enabled` before the pause is decided on half-cleared maps |
| `stream_wakeup` | `PopBlocksOnlyWhenEmpty` | `try_push` notifies between `pop`'s test and its wait |
| `stream_framing` | `EventsShown` | events go out as bare objects without a newline, and `guardctl events` shows none |

The models contain further behaviours worth knowing that have no run of their
own:

* A load that fails after the pause leaves enforcement off and the maps half
  written (`src/ebpf_manager_linux.cpp:174`). `docs/04-architecture.md:82`
  describes it; `include/fileguard/controller.hpp:87` ("without touching the
  running policy on any failure") does not. `CompleteWhenEnabled` and
  `StatusTruthful` say what remains true.
* A `bpf_map_delete_elem` that fails goes unnoticed
  (`src/ebpf_manager_linux.cpp:137`): enforcement is then enabled over the new
  policy and leftovers of the old one, though `docs/05-policy-model.md:111` calls
  the update "never *inconsistent*". A leftover file is denied or decided although
  the policy does not list it; a leftover rule wins over the new one for the same
  key. `CompleteWhenEnabled` says that nothing else is there.
* When its lookup fails, `status()` shows what `status_` last recorded
  (`src/ebpf_manager_linux.cpp:213`), "enforcing" also after a load that broke off
  past its pause.
* The descriptor of a stream is closed by `enter_stream_mode` and again by
  `~SocketStreamClient` (`src/daemon.cpp:71`), by then perhaps as another
  connection's. It is the exception in `DescriptorOwned`.
* The wakeup lost in `stream_wakeup` can be for good: once the ring is full,
  `try_push` returns before it notifies. Only a stop ends it (`StopEnds`).
* Two serves that overlap can both pass the test of the socket file; the later
  one takes the file from the earlier one, which goes on without it, and whoever
  stops first removes the other's files. `SoleController` excludes `overlap`.
* On the way down the socket file is removed first, before the detach and the
  pid file (`src/daemon.cpp:167`); `docs/13-design-diagrams.md:309` has the order
  reversed. This opens the second half of that window.
* A killed controller leaves its socket file, and `serve` then refuses to start,
  saying "a controller is already running" (`src/cli.cpp:178`), until somebody
  removes the file. It is the exception in `FilesOwned`.
* A request that is JSON and no object ends the daemon (`src/daemon.cpp:242`), and
  so does one with a number no double can hold: `json::parse` throws
  `out_of_range`, and only `parse_error` is caught (`src/daemon.cpp:229`).
* A policy's version may be `1.9` or `true`, both taken for 1, or an integer that
  wraps to a valid one (`src/config_parser.cpp:68`).
* A poll error of the server thread (`src/daemon.cpp:160`) removes the socket file
  of a controller that goes on enforcing; another may then start beside it.
* `guardctl` may hang up without the answer the daemon gave: an interrupted
  `recv(2)` is taken for the end of the stream (`src/cli.cpp:106`).
* `policy load` reads the file once to check it and again to send it
  (`src/cli.cpp:298`); `LoadSafe` says what the daemon's own check still gives.
* `default_action: ALLOW` is not compiled and the kernel denies
  (`ebpf/fileguard.bpf.c:151`); two protected hard links share a rule key
  (`src/ebpf_manager_linux.cpp:179`). `EngineAgrees` is checked on policies
  without either.
* The `proc` field of an event is never written (`ebpf/fileguard.bpf.c:197`).
* A negative poll result, `EINTR` included, ends the ring thread while
  enforcement goes on (`src/ebpf_manager_linux.cpp:226`); this is the third
  alternative of `EventsLogged`.
* `request_stop` stops the queue before its producer, and `push` then gives
  events up (`src/controller.cpp:170`); `LogIsPrefix` says which.
* The `stop` request clears `running_` before it is answered
  (`src/daemon.cpp:313`), and detached handlers may outlive the Daemon
  (`src/daemon.cpp:164`).
* A signal caught before `running_` is set has no effect, and later signals only
  set `g_signal` (`src/daemon.cpp:187`); `StopCompletes` starts once the server
  is up.

### Bounds, and why they are enough

* Policies: two resources, two executables, the unknown executable and file, and
  policies that differ in what they protect, contain a rule contradicted by a
  later duplicate, do not fit the maps (`PolBig`, refused with `E2BIG`), or fail
  to compile. Two loads give "old policy, replacement" and "two at once";
  `MapEntries = 2` fits the two policies of `policy_update`, but not one of them
  on top of every leftover. One task is enough for the properties: they speak
  of one open each, and opens share only the ring (`policy_update` gives it one
  place, so the second of two opens meets a full ring). The proofs cover any
  number of tasks and loaders. `RingCap = 0` in the runs that are not about
  events takes the branch of a full ring.
* Queue: three slots hold two items, so five items wrap the index and meet both
  boundaries.
* Pipeline: ring and queue of two, seven opens: all places plus one event in
  each thread's hand, and one more.
* Daemon: two connections where descriptors may be confused and a stop command
  meets an open stream, one connection with four events where order and drops
  count. Queues and sockets of one or two objects so that they overflow. No
  symmetry is used, because the two connections ask for different things.
* Connection: texts of up to five tokens over a request, a stop, a load, garbage
  and the newline, every pair of requests, and some 3,900 policy files in which
  each member is absent, mistyped or wrong. Eight values of `int32_t` make the
  wrap to a negative and to a valid version happen; floats lie in the range and
  on both sides of it (`FloatBelow`, `FloatAbove`: a saturating cast). One connection is enough:
  handlers share only the policy and `running_`, which `PolicyUpdate` and
  `StopElsewhere` stand for.
* RuntimeDir: three processes, so that a third meets the files of two that
  overlap, and one fault, a kill or a lost server
  thread. `status`, `policy list` and `events` are the command
  "query" of the module; the run leaves it out because it does what "load" does
  with a socket and what "stop" does without one.
* `MaxLoads`, `MaxOpens`, `MaxItems`, `MaxEvents`, `MaxEdits` and `MaxFaults` cap
  counters in guards. The runs with `CHECK_DEADLOCK FALSE` are those where the
  system comes to its end.

### Fairness

* `PolicyUpdate!FairSpec`: a load that can go on does; `state_mu_` is granted to
  a waiter that finds it free over and over again (strong fairness on the lock).
  Opens owe nothing.
* `SpscQueue!FairSpec`: threads inside a call are scheduled, mutex as above, and
  the consumer calls `pop` again, as `consumer_loop` does. The producer need not
  push and nobody need stop.
* `EventPipeline!FairSpec`: the hook runs to its end (a BPF program cannot block),
  both threads and a stop once called go on. No open and no stop is assumed.
* `Daemon!FairDaemon`: the daemon's threads run; peers owe nothing, and no poll
  has to fail. A writer asleep in `send` to a peer that stays connected and never
  again makes room is therefore never joined, which `StreamReleased` names as its
  one exception: `[]Stuck(c)`, from some moment on and for ever.
* `RuntimeDir!FairSpec`: every process and every handler thread that can go on
  does (weak fairness per process: no step waits for a contended lock). Nobody
  has to start, signal or kill anything.

## 4. Proofs

Every invariant of the passing runs is also a theorem, for every value of the
constants: any number of tasks, loaders, connections, processes and
kills, any capacity of rings, queues, maps and sockets, any number of opens,
events and edits, any policies, documents and answers of `stat(2)`, and the
failures the actions have, unnoticed deletes included. So is the refinement
`ImplementsFifo`. Five further theorems state what no run lists: two action
properties, the absence of lost wakeups, what concurrent loads leave of the
agreement between kernel and user space, and that without failed deletes the maps
hold one policy exactly.
`theorems` in `PROJECT.json` lists them with the properties they state.

They rest on the assumptions named in the modules (`PolicyAssumption`,
`NoPolicyAssumption`, `HookAssumption`, `UpdateAssumption`, `QueueAssumption`,
`PipelineAssumption`, `DaemonAssumption`, `RuntimeDirAssumption`,
`ParserAssumption`, `ConnectionAssumption`): typing
of the constants, distinctness of the null values, a queue of at least two
slots. TLC evaluates them on every run. `SeqLemmas` collects what the proofs
need about sequences (functions on `1..n`, `Append` and `\o`, `SubSeq`,
prefixes, the least and the greatest element of a set of numbers).

Hardly any of the properties is inductive as it stands. What was added, and why:

### PolicyUpdateProofs

`TypeCorrect`, `EnabledIsComplete`, `OpensFollowPolicy`, `CleanIsExact`. The invariant `IInv`
adds

* `LoadsCompile`: a load past validation carries a policy that compiles;
* `LockInv`: a thread inside `apply_policy` holds `state_mu_`, and the enforcer
  stays loaded while it does;
* `LoopInv`: while the maps are rewritten enforcement is off and they hold
  exactly what `clear_map` left (`kept`) and the first `i - 1` entries of the
  compiled policy, so that at the enable they hold all of it;
* `HookInv`: an open in flight has seen the present regime, and as long as it
  has seen nothing else, what it read is still what the maps hold, and its
  `stale` says whether a leftover is about it.

The argument: the maps are written only with enforcement off (`LoopInv`), so an
open for which they change under its feet has witnessed the pause and is not
undisturbed; one that has not reads complete maps (`CompleteWhenEnabled`), and
looking up complete maps gives the policy's verdict (`LookupIsVerdict`) where no
leftover is in the way. The
lemmas follow that order: `CompileType`, `InsertExtends` (one more
`BPF_NOEXIST` insert), then one lemma per conjunct with a step per action.

`WritesWhilePaused` is the action property behind it, `PausedWrites`: the maps
do not change while enforcement is on, `applied` passes from one policy to
another only through a pause, and nothing of it changes while `state_mu_` is
free. It follows from `LockInv` and `LoopInv`, one step per action.

`CleanIsExact` closes the exception: with `~MapsMayFail`, when a map call fails
only for lack of room, `kept` stays empty (`NothingKept`), and under enforcement
the maps are the policy and nothing else, for any capacity and any number of
loads.

### PolicyAgreementProofs

`RingNeverAbandoned` and `StatusIsTrue` hold without further assumptions. The
agreements do not, and their theorems say so; those that compare verdicts leave
out the requests for which `clear_map` left an element:

| Theorem | `OneLoader` | `OneName` | `DenyByDefault` |
|---|---|---|---|
| `ResolverFollows` | needed | needed | |
| `KernelAgrees` | needed | needed | needed |
| `EventsExplain` | needed | needed | needed |
| `OneLoadedPolicy` | | needed | needed |

`OneLoader` (no two loads at once): `concurrent_loads` shows `EngineAgrees`
violated with two. `OneName` (no two paths lead to one file): the kernel knows
the file, the `DecisionEngine` the path. `DenyByDefault`: the compiler drops
`default_action`. The code guarantees none of them; section 3 lists what happens
otherwise. The constants of `policy_update` satisfy all three.

`OneLoadedPolicy` says what is left of the agreement with any number of loads at
once: user space may have another policy than the kernel, but while enforcement
is on, also in the middle of a load, the kernel decides by one of the policies
that were loaded, as the `DecisionEngine` would with that policy, and mixes two
only where a delete failed. It adds
`AppliedInv` to `IInv`.

`ReportInv` adds to `IInv`: an unsubmitted record belongs to one running open and
carries the file and executable it looked up (`BusyInv`); a submitted record of
an open that saw one policy and no leftover carries that policy's verdict
(`RecordInv`);
`status_` describes the policy last enabled (`StatusInv`). `AgreeInv` follows a
load past the enable: what was enabled is what the resolver is built from and
what is installed last. The heart is `VerdictIsDecision`: on a policy that
compiles, the first matching entry by inode and `find_rule` by path are the same
rule (`FindRuleFirst`, `CompiledParts`).

### SpscQueueProofs

`TypeCorrect`, `SlotsNotShared`, `FirstInFirstOut`, `PopDrains`,
`QueueRefinesFifo`. `IInv` adds who holds `mtx_` where (`LockInv`); that a test
for room or for an item stays true until its thread acts on it, because only the
other side makes it true (`RoomInv`); that the slots from the oldest item to
`head` hold, around the wrap, exactly what was accepted and not delivered, and
the others nothing (`RingInv`); and that nothing is accepted from `push` after
the stop (`StopInv`). The refinement maps `q` to those slots: the store of
`head_` is the abstract put, the move out of a slot the abstract get, the stop
the close, and every other step a stutter.

`WakeupsKept` is the safety part of `PushReturns` and `ItemsDelivered`. The code
notifies after it has released `mtx_`; `WakeInv` says why that is safe with the
controller's calls: what a thread found before it slept is still true when it
sleeps, and a thread that made it false has not yet notified. It says nothing of
the lock-free calls, for which `stream_wakeup` shows the opposite. TLC finds
`NoLostWakeup` true on the constants of `queue`.

### EventPipelineProofs

`TypeCorrect`, `EventsAccounted`, `LogHasNoGap`, `StopDrains`,
`RingOutlivesPoller`. `CtlInv` ties the program points of the two threads to
that of `start` and `request_stop` (born together, the queue closed first, the
poller over before the detach). `EventInv` is the equation of `NothingLost`
continued through the stop: what was got, queued, given up and is unread is what
was reserved, and `push` gives up only once the queue is closed, so that nothing
enters the queue behind a gap. `LogInOrder` is the action property: each step
leaves the log as it is or appends the event raised right after those in it,
because what the consumer holds is that event (`InHandIsNext`).

### DaemonProofs

`TypeCorrect`, `ReferenceHeld`, `StreamInOrder`, `FdsOwned`. `HandlerInv` says at
which points of the handler its client exists, is on each list and has a writer;
`FeedInv` and `QueueInv` that a client still to be fed has only earlier events;
`CountInv` that a listed client that is open has had each event since it was
added, sent, in hand, queued or counted as dropped, and that `try_push` dropped
none before it had been given as many lines as its queue holds;
`FdInv` that until a handler closes its descriptor the number is its own, or was
taken by the second close of a destroyed client.

### RuntimeDirProofs

`TypeCorrect`, `NoStrayFiles`, `OneController`. `OwnerInv` gives the steps at
which a process may own each file: the step that leaves the last one removes it,
and a controller that failed in `listen(2)` has no pid file to leave. `SoleInv`
strengthens `SoleController` to all points between the test of `run_serve` and
the end, with the socket file in place except before the bind and after the
unlink; a controller that lost its server thread is one without a file, so that a
serve that starts beside it overlaps.

### ConnectionProofs

`ParserIsFaithful` needs no induction over documents: `Outcome` of a sequence of
steps is "ok" if and only if each step is (`OutcomeOk`), so that `Accepted`
says member by member what an accepted document looks like, `PolicyParts` what
becomes of it, and `ReadsBack` that writing it out and parsing it again changes
nothing; `CastRange` says that `int32` stays in range and keeps the low bits, and
`VersionStands` that the version stands for the number or boolean it came from. `Types` says that every byte under way is a
token and every answer and installed policy well formed; `TypeCorrect` follows,
with the version of the current policy within `int32_t`. `RequestInv` follows the
one request of a `guardctl`: sent once, after the check of the file, in the
stream or in the buffer in one of three cuts, answered once. `LoadInv` adds for
`policy load` that the file is the one that was checked unless it was edited,
which gives `LoadIsSafe`. `AnswerInv` follows the answer back; a client that
meets the end of the stream finds a handler that is past answering, which gives
`AnswerReturned`, the conjunct `OwnAnswer` of `LineProtocol`, with `gaveUp` for
the client that did not wait that long.

`LinesAnswered` is all of `LineProtocol`. `LineInv` says that there is a cut of
what was read (`CutAt`): the lines that end before it have been handled, in
order, and the buffer is the rest. `Lines` is stated without a fold: the k-th
line is the one whose end has k ends up to it (`Nth`). That such an end exists
and is the only one is a counting argument (`NthIs`, from the pigeonhole fact
`FS_Injection`); from it follow `LinesKept` (bytes that arrive later change no
whole line), `NextLine` (the first line of the buffer is the next line of what
was read) and `LinesAppend`. `ReplyInv` does the same for the answers:
`PolicyAfter` is the policy of the last line that installs one, and one more line
changes neither it nor the answers already given (`OneMore`, `AnswersFixed`). So
no induction over the stream is needed, only the one over steps.

### Only model-checked

* The liveness properties (`LoadTerminates`, `PushReturns`, `ItemsDelivered`,
  `StopEnds`, `StopReturns`, `EventsLogged`, `FeedEnds`, `StopCompletes`,
  `StreamReleased`, `ClientReturns`, `StopTakesEffect`): they need fairness and
  `ENABLED`, which this prover does not handle.
* The violations: they are facts about instances.

## 5. Not modelled

* `parse_cli` (a walk over the arguments without state), printing, time stamps,
  and the layout of sinks and JSON.
* The texts of events: `dump()` throws for a `comm` that is not UTF-8
  (`src/event_sink.cpp:67`, `src/daemon.cpp:44`), and nothing in the consumer thread
  catches it. The models' events are numbers; for the files it is a `Kill`.
* A `send(2)` of `request_json` or of an answer that fails half way: the peer then
  sees a line without its end, as it does when the connection is cut.
* The time between the tests of `closed_` in the fan-out and the `try_push` of a
  stream client, which `FeedClient` makes one step (`src/controller.cpp:249`,
  `src/daemon.cpp:75`): a client shut down in between may get this one event more
  into its queue. `StreamOrdered` counts only for clients that are open.
* Requests of several connections to `list`: the rules and the version are two
  reads of the policy (`src/daemon.cpp:268`, `:284`) and may differ.
* The permissions of the runtime directory and of the files in it.
* `NullEnforcer`: it enforces nothing and raises no events.
* The bound on opens hides one case: `ring_buffer__poll` returns only when the
  ring is empty, so opens that never pause keep the poll thread from looking at
  its stop token.
* The file system is a constant: a file replaced after `stat(2)` keeps its
  identity in the model.
* Events lost to a full ring are not counted by the code, and the model has
  nothing to count them with.
* Bench, scripts, tests and vendored headers.

## 6. Plan

Done: the models of the components named in section 1, as far as section 5 does
not exclude them, and theorems for every invariant of the passing runs.

Next: endless opens in `EventPipeline`, with a ring whose consumer position and
not its history is kept, for the stop hazard of section 5.
