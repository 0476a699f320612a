# A TLA+ model of testgear: daemon, harness and verdicts

The repository tests VISA clients over the network. A Rust daemon (`server/`) offers
simulated GPIB instruments through two protocols, HiSLIP and VXI-11, with fault
injection in front of them. Check scripts (`checks/`) drive a client library against
it, or against a real instrument, under a Python harness (`testgear/`); `run_all.py`
sweeps over the scripts, `compare.py` runs them for several libraries, and the tools
of the CI workflow (`tools/`) turn the reports of its legs into a page and a build
status. This directory models both halves: the concurrent core of the daemon, and
the path of a verdict from a check's assertion to the colour of a build. Paths below
are relative to `src/`; `server/src/` is left out where it is clear.

## 1. Inventory

| Component | State | Operations | What makes it correct |
|---|---|---|---|
| lock registry, `frontend/lock.rs` | a table per resource (exclusive holder and depth, shared name, sharers), one `Notify` | request, release, release_all, wait_for_access, with and without a deadline, info | exclusive excludes; nothing but its holder takes a lock away; no wakeup is lost |
| HiSLIP sessions, `hislip/server.rs` | registry id -> entry, async_bound, the two tasks of a session | Initialize, AsyncInitialize, AsyncLock, device clear, the end of either task | an id names one session; locks and ids end with the session |
| HiSLIP channels, same file | message buffer, clear_epoch, mav, last_message_id, four byte streams | Data/DataEND/Trigger, replies, AsyncDeviceClear and DeviceClearComplete, AsyncStatusQuery | a clear separates what came before from what comes after; MAV is true |
| HiSLIP pushes, same file | the async writer mutex, a four-slot queue, consumed_stb | srq_forwarder, async_pusher, sync_fatal_pusher | a service request reaches the client; a fatal error reaches both channels |
| HiSLIP adapter, `hislip/instrument.rs`, `frontend/instrument.rs` | none of its own | execute, trigger, clear, get_status | no request eaten, no output stranded |
| VXI-11 connections and links, `vxi11/server.rs` | link table, owned links, one call per connection | create_link, destroy_link, device_lock, device_unlock, the lock gate | links and locks end with their connection |
| VXI-11 abort, same file | in_flight, aborted, abort_notify of a link | device_abort against a call in progress | an abort ends the call it meant, and only that |
| VXI-11 interrupts, same file | srq_handle of a link, the channel, forwarder and sender | create_intr_chan, destroy_intr_chan, device_enable_srq | a request that stands is announced; forwarders stop |
| instruments, `virtual_instrument.rs` | queues, error queue, status registers, last_mss, the SRQ line | write, read, clear, trigger, serial poll, control's SetStb and Reset | the line follows the devices; edges are broadcast |
| framing and RPC, `hislip/messages.rs`, `vxi11/rpc.rs`, `vxi11/xdr.rs` | none | encode, decode, reassemble | a limit or an error leaves the stream in step |
| fault injection, `proxy.rs`, `faults.rs`, `*_fault.rs`, `control.rs` | fault tables, per-stream trackers | forward, reset, delay, truncate, one-shot faults | a fault hits the message it was armed for, once |
| check harness, `testgear/harness.py`, `script.py`, `cli.py`, `server.py` | results, the thread of each check, the target in `CTX`, faults armed on it, report, exit code | run_checks, the watchdog, restart_server, faults, write_outputs, finish, main | one result per check; the exit code is borne out by the report; an abandoned check does not disturb the next |
| check programs, `testgear/visa.py` | what a check has read, what its `with` and `finally` still owe | @check, collect, Skip, assert, session, release_event | a check ends in one verdict and undoes what it did |
| check scripts, `checks/02` to `08`, `10`, `12`, `13` | one session or two: locks, events, handlers, stream, attributes, threads | some eighty checks | a library within the rules passes; a flaw the check is about fails it |
| sweep, `run_all.py`, `suite.py` | the child, what its pump captured, clocks, counters | run_script, _terminate, main | it ends; 0 means all passed; what it says of a killed script is true |
| CI legs, `compare.py`, `leg_status`, `normalise_reports`, `ci_status` | files per leg and transport | run, record, upload, index, judge | red is the suite's own bug; what is missing is named |
| tables, `aggregate.py`, `outcomes.py`, `artifact_matrix.py` | columns, rows, sections | merge, build, render, compare | no answer lost, doubled or moved; a dead column decides nothing |

Interactions. A HiSLIP session is two TCP connections and two tasks; both call the
lock registry, the sync task through `wait_for_access`, the async one through
`request`. They share the `SessionEntry` and, through the bus mutex, the
instruments. A VXI-11 core connection is a task that handles one RPC at a time; the
abort channel is a second listener whose tasks reach into links of the first; an
interrupt channel adds a forwarder and a sender. Service requests come out of the
instruments as a broadcast (edges) and a line (a level) that the forwarders of
both servers watch. The control channel changes devices under everybody's feet.

A check script is a process with a main thread and a thread per watched check. It
talks to a library under test, and arms faults through the control channel. Its
caller, `run_all.py` or `compare.py`, knows only its output, its report file and its
exit code; that interface is `ScriptProcess`. A leg's files travel through an
artifact to the aggregate job, which sees nothing else of it.

What is hard: two channels of a session with no order between them; tasks that
outlive each other; values read before an await and used after it (the link of a
call, `in_flight`, the access check); wakeups and edges that must not fall between
a test and a subscription; connections that break in the middle of something;
two std mutexes inside async tasks. On the Python side: threads the watchdog has
given up on and that go on; a report being written while they record; a script that
hangs after its summary; jobs lost between two files; replies that are left in the
stream for the next operation; service requests that come later than the check
looks; a check that passes because of what another check left. `PROJECT.json` lists these as hazards, each at
its line, with the properties that cover it.

## 2. Modules

| Module | Models | Uses |
|---|---|---|
| `ViLock` | what a lock service promises: levels and sole ownership | |
| `LockRegistry` | `frontend/lock.rs` | refines `ViLock` |
| `HislipSessions` | registration, pairing and locks of HiSLIP sessions | `ViLock` for the locks |
| `HislipChannels` | the two loops of one HiSLIP session | |
| `VirtualInstrument` | the simulated instruments and the SRQ line | |
| `HislipExecute` | `GpibInstrument::execute` on that bus | `VirtualInstrument` |
| `Vxi11Links` | VXI-11 connections, links and their locks | `ViLock` |
| `Vxi11Abort` | device_abort and the calls of one link | |
| `Vxi11Interrupts` | interrupt channels, service request announcements | |
| `Vxi11Mutexes` | the order of the std mutexes | |
| `ScriptProcess` | what the caller of a check script may rely on | |
| `CheckScript` | one check script: harness, target, faults, report, exit | refines `ScriptProcess` |
| `Sweep` | `run_all.py` over a plan of scripts | `ScriptProcess` for the child |
| `CheckSteps` | the instructions all checks are written in | |
| `CheckProgram` | how a check runs: Skip, assert, `with` and `finally`, exceptions, the watchdog | `CheckSteps` |
| `LockPrograms`, `EventPrograms`, `IoPrograms` | the checks of a family, as programs | `CheckSteps` |
| `LockChecks` | `05_lock.py`, `10_lock_semantics.py` against a library | `CheckProgram`, `LockPrograms` |
| `EventChecks` | `03_srq.py`, `12_session_lifecycle.py`, `13_events.py` | `CheckProgram`, `EventPrograms` |
| `IoChecks` | `02_io.py`, `06_terminate.py`, `07_clear.py` | `CheckProgram`, `IoPrograms` |
| `ParallelLoad` | `04_concurrency.py` | |
| `Soak` | `08_soak.py` | |
| `Legs` | `compare.py` and the CI tools, up to the build status | |
| `Matrix` | merging, rows, sections, comparison of runs | |
| `LockRegistryProofs`, `HislipSessionsProofs`, `HislipChannelsProofs` | the theorems about these components | the component |
| `HislipExecuteProofs` | the theorems about the bus and about executions on it | `HislipExecute` |
| `Vxi11Proofs` | the theorems about links and about aborts | `Vxi11Links`, `Vxi11Abort` |
| `ScriptsProofs` | the theorems about a script and about a sweep | `CheckScript`, `Sweep` |
| `LoadProofs` | the theorems about the concurrency checks and the soak | `ParallelLoad`, `Soak` |
| `VerdictsProofs` | the theorems about legs and tables | `Legs`, `Matrix` |
| `MC*` | constants for TLC; `MCWakeups`, `MCHislip`, `MCTasks`, `MCScripts` and `MCVerdicts` each put several specifications into one run | |

In the last five a variable `part` says which specification a behaviour is of; the
variables of the others stand still. A component that has theorems is extended, so that
its properties are checked under their own names and are the very definitions the theorems
state. The others are instantiated (`Vxi11Interrupts` in `MCWakeups`, the families of
checks in `MCVerdicts`), and a property of one of them is a definition of the MC module
that says so of its part; so is `BroadcastsFollowRises` of `MCHislip`, which is
`SrqFollowsRises` of the bus by itself. The checks modules get their programs through the
constant `Suites`, a function that TLC evaluates once.

The two session modules take locks through `ViLock`, not through the registry's
tables: `LockRegistry` is proved to implement it, so whatever they need of the
registry is a `ViLock` step. `ViLock` grants as soon as it may; a waiter that the
real registry wakes late is a waiter whose step has not happened yet.

### Correspondence

A step is what the code does between two points where another task can observe
it: one critical section of a mutex, one load or store of an atomic, one await that
can let others in. An early return is a disjunct or an action of its own. The
`map` of `PROJECT.json` gives the lines of every definition. In particular:

* **LockRegistry.** `tables` is `tables`, a `LockTable` record without its maps'
  absent entries (a count of 0). A task's `pc` goes through the loop of `request`
  and `wait_for_access`: `Subscribe` creates the `Notified` future, the test grants
  (`Grant`, `Access`), refuses (`Fail`, `GiveUp`) or parks (`Park`); `Wake` and
  `Expire` end the await. `Release` and `ReleaseAll` are a critical section, and
  `Notify` the `notify_waiters` after it, which completes exactly the futures that
  exist. Whether a request has no time to wait, some, or any amount is its
  `deadline`.
* **HislipSessions.** `sync` and `async` say where the two tasks of a session are.
  `Initialize` inserts the entry under the smallest free even id; `EndSync` is
  `RegistrationGuard::drop`, which frees the locks, and `RemoveEntry` the detached
  task that removes the entry later. An async task keeps the entry it bound to.
* **HislipChannels.** Byte streams are sequences; a byte is the number of clears
  its sender had completed when it was sent, which is all that the properties
  tell apart. The client follows the clear procedure of IVI-6.1, 6.12. Each load and each
  store of `mav`, `last_message_id` and `clear_epoch` is a step: `note_client_message` is two
  stores (`NoteClientMessage`, then `HandleMessage`), `mav_bit` two loads (`LoadMav`,
  `LoadMessageId`), and the other loop may run between them. `locked` is another session's
  lock, at which both loops wait (`TakeBus`, `PassGate`), for as long as its holder likes.
* **VirtualInstrument, HislipExecute.** Bus operations are operators from bus to
  bus, since the bus mutex makes each of them one step and `execute` several of
  them one step. A status byte is a set of bits. A reply is body bytes and a newline.
  `Services` says what may go wrong in an execution: the write, the poll or the read fails,
  or silence comes as an empty message. Its outcome tells apart what the caller can tell
  apart, and that the data fill a whole `MAX_READ`. The errors of `forced_stb` and
  `srq_asserted` (`instrument.rs:106`, `143`) are left out.
* **Vxi11Links.** `conn` says where the connection's call is, `arg` which link it
  looked up. `holds` and the call that follows it are separate steps.
* **Vxi11Abort.** Loads, stores, swaps and wakeups of one link's atomics.
* **Vxi11Interrupts.** `Sample` and `Subscribe` are the two lines before the
  forwarder's loop; a pass is `BeginPass`, `Poll` and `Announce` per target,
  `EndPass`. The shutdown permit is looked at only at the top of the loop (`Stop`).
* **Vxi11Mutexes.** Only which mutexes each critical section takes, in order.
* **CheckScript.** `pc` is where the main thread is in `script._run` under
  `harness.main`; each check has a thread that records, arms and restores faults,
  looks its target up in `CTX` again, and ends, or never does. `left` are the threads the
  watchdog has given up. Servers are numbered in the order they were started.
  Writing the report is four steps: counts, results, the `.partial` file, the rename.
  `hung` is set when the main thread is in a call that never returns, which it may be wherever
  no watchdog is on it (`Unwatched`): starting a server, SETUP and its teardown, the library's
  exit. Stopping a server is not one of them: each of its waits gives up after 5 s
  (`server.py:177`).
* **Sweep.** The pump thread, the poll loop and the clock are separate; a child does
  whatever `ScriptProcess` allows, and may be deaf to the first signal.
* **CheckProgram and the check modules.** A check is a sequence of instructions: VISA
  calls that leave an answer in a register, assertions and skips on registers,
  clean-up that a `with` or `finally` owes. A script is the sequence of its checks for a
  transport, as `collect` orders them. The library under test is external: it is
  modelled from the statuses the checks tell apart, once within the rules and once with
  each of a list of flaws. `Catchers` names, per flaw, the checks that are there for it.
  Loops that repeat one exchange are unrolled twice. A check ends by returning, by a failed
  assertion, by Skip or by any other exception, and its clean-up is done on the way; or its
  watchdog abandons it, and then its thread, clean-up and all, goes on beside the checks
  after it, or stays where it is. A conforming library has at most one such mishap in a
  behaviour (an answer lost, an exception from a call or from a clean-up call, a check
  abandoned), a flawed one none. A session no `with` owns outlives the
  check that failed with it until it is collected (`CollectCycle`), at any later time.
* **ParallelLoad, Soak.** Threads as steps; a call returns, fails, or hangs and may come
  back later; the target may be slower than the watchdog of the churn; an abandoned thread
  goes on. The reply
  stream of the soak is a queue of what each reply answers and how much of it is left. On a
  lost link the calls that return a status let the mix go on, the others end it.
* **Legs.** A report is the fact that it exists. An exit code is the process's, a signal's
  included, or none for a timeout; with any of them there may be a report or not. No
  tool tells 0 from 1 or 2 from 5, so the instance has one of each. The container of one
  transport, the whole step, the recording of `leg.json` or the machine can be killed at every
  step, also in the middle of a file (`torn`): a file that ends in the middle raises in
  whatever reads it, and an artifact may come without `leg.json`.
* **Matrix.** A result is a key and an outcome; a page is the sets of rows of its sections,
  and `printed` what `max_rows` leaves of each.

Four variables are chosen once, in `Init`, and say how clients behave:
`orderly` (HislipSessions: the async connection is closed first, and carries no
AsyncLock once the sync one is closed), `drained` (HislipChannels: the client clears
only when the server has read what it sent), `ownLinks` and `clean` (Vxi11Links:
connections name only links they created; connections end between records).
Properties that need such a client say so, and every run explores both values.

## 3. Runs

Every passing run also has, per property, a mutated definition under which TLC
finds the property violated (`mutants` of `PROJECT.json`).

| Run | Instance | Shows |
|---|---|---|
| `wakeups` | registry: 2 holders with a task each, 2 names, 2 levels. Interrupts: 2 devices, a device and an interface link, 2 requests, 1 channel; 137 853 states | well-formed tables, no lost wakeup, refinement of `ViLock`; bounded calls return, a resource that stays free leaves nobody parked; every request that stands is announced to the links enabled for it; forwarders of destroyed channels stop |
| `hislip` | sessions: 3 over 2 slots, 3 ids. Bus: 2 devices, error queue of 1, alone and under `execute`, whose writes, polls and reads may fail, reads of 3 bytes; 424 575 states | ids name their session, locks end with the session and, while it lives, only in a release an async task carries out; the line follows the devices, every rise is broadcast, execute eats no request and strands no output behind a whole reply |
| `vxi11_links` | 2 connections, 2 devices, table of 2, 3 lids; 973 772 states | locks end with links and connections and not sooner, slots come back |
| `tasks` | HiSLIP: 3 messages, 2 clears, 1 status query, another session's lock. VXI-11: 2 connections with 2 calls, an aborter with 2 aborts; 677 811 states | whole commands, no stale replies, a stale status in one race only, MAV never stuck, clears complete once no foreign lock is in the way; an abort ends at most one call, and a call alone on its link does not outlive the abort that saw it |
| `scripts` | a script of 2 checks with and without a server to replace; a sweep of 3 script runs; 1.17 million states | one result per check, exit 0 vouches for the report, a replaced target is clean, a script implements `ScriptProcess`; the sweep's 0 and its "hung at exit" are true; a script ends whatever its checks do, unless a call under no watchdog hangs, and the sweep ends also then |
| `verdicts` | nine scripts against conforming and flawed libraries, a soak of 3 operations, 2 legs with 2 transports and 2 scripts, a table of 3 columns and 2 scripts, sections of one row; 2.5 million states | conforming libraries pass, flaws are caught, nothing is left behind however a check ends, the soak stays in step; red means the suite's bug or a file cut off, a leg's gaps are named if it recorded them, tables lose nothing and say what they cut, dead columns decide nothing |
| `hislip_lock_leak` | 2 sessions | **violated**: a lock outlives its session |
| `vxi11_broken` | 2 connections, 1 device | **violated**: a broken connection keeps its locks |
| `vxi11_abort_poison` | 1 connection, 1 abort | **violated**: an abort ends the next call |
| `vxi11_mutex_cycle` | 2 connections, one with an interrupt channel | **violated**: the abort channel blocks for ever |
| `crash_is_red` | 2 legs, 2 transports, 2 scripts | **violated**: a leg whose scripts all crashed leaves the build green |
| `race_produced` | the event checks | **violated**: stale events stand in for those of the race |

### Why these bounds are enough to be interesting

* Lock registry: two levels make nesting and the mix of shared and exclusive
  levels happen, two names a refusal among sharers. Two tasks of *one* holder, or
  three holders, are not in the instance; the theorems hold for any number.
* Sessions: three sessions over two slots make a refusal, the reuse of an id and a
  removal that comes after the reuse happen; two async connections can compete for
  one session. `MaxLevel = 1` leaves nesting to the registry.
* Channels: three messages are a command in two parts and one that follows; two
  clears let a clear overtake what the previous one left. One query can overtake the
  message it quotes, or fall between the stores of its being noted.
* Instruments: with two devices the line and the broadcast differ. The error queue
  is one slot instead of 16, so that it overflows after two errors. Other clients read two
  bytes at a time: a short reply whole, and of `TEST:BIG?` all but its last byte. `execute`
  reads three: that reply whole, and less than all of it where another is queued before.
* Links: three lids over a table of two make it full and let a lid be newer than a
  call that still holds an older one.
* Abort: two calls per connection let an abort meet the next call; with two
  connections the flag and the permit can be taken by the wrong one.
* Interrupts: the second device raises the line without the link's device asking;
  the second request comes during or after the pass for the first. A single channel
  is modelled from before its creation to after the end of its forwarder; a second
  one would add a forwarder that shares only the bus with the first.

* Scripts: two checks are one that is abandoned and one that comes after it; one
  failure recorded by a check's own thread can fall before, into or after the report.
  Three runs of scripts make "two in a row cannot reach the target" stop a sweep and
  leave one unrun, or be interrupted by a script that was killed.
* Verdicts: one mishap per script. Three workers and three parallel sessions whose calls
  hang make every join and every watchdog run out; calls hang in one phase of the load per
  behaviour (`load hangs`, `sessions hang`, `churn hangs`), and that they hang in all of them
  is left to the theorem, whose flaws include `hangs`. Two lock levels are a lock nested once.
  Service requests arrive at once
  over HiSLIP and one a second over VXI-11, the pace the scripts' comments report. The reply of
  the soak has three reads and may grow past the slack of its loop. Two legs are one
  whose library is provisioned and may do anything, and one that never gets to run; two that
  run at once share nothing before the aggregate, and the theorems have any number. A
  script killed by a signal, one that found something, one that broke and one that lost its
  target (-9, 1, 2, 3) are all the tools tell apart. A script with a transport in its name is there because
  `normalise_reports` looks for that name. Three columns are the least with a failure that is
  unique, shared, or neither; a key answered twice is in one of them. With one row to a
  section every section of two is cut.

Deadlock checking is off: the models come to rest when their bounds on calls, messages
or connections are used up, and when every client is gone. The lock registry does not,
but shares its run with the interrupt channel, which does; that its calls return is
`BoundedCallsReturn` and `FreeResourceWakesWaiters`. The one deadlock of the code has a
run of its own, `vxi11_mutex_cycle`.

### Fairness

* LockRegistry: weak fairness of each task's next step and of each expiry: tokio
  runs ready tasks, timers fire. Nothing is assumed of when locks are released.
* HislipChannels: both loops run, and the client reads what it is sent. The client
  need not send anything, and the other session need never give its lock back:
  `ClearsComplete` says what follows if it does.
* Vxi11Abort: tasks that can run do. A lock wait need not be granted, a transfer
  need not end.
* Vxi11Interrupts: the forwarder and the call in progress go on (weak). `select!`
  picks among ready branches at random, hence strong fairness of `Stop`; the
  sender's queue is FIFO, hence strong fairness of each `Send`.
* CheckScript: the main thread goes on, so `join` with a timeout returns, unless it is in a
  call under no watchdog, which may hang for good. A check
  without a watchdog runs on it and is trusted to return (weak fairness of the step
  that restores a fault, strong of its end, however often it arms one). Nothing is
  assumed of any other thread. Sweep: the runner and the pump go on and the budget runs out;
  a child need do nothing.
* Vxi11Mutexes: a critical section is left (weak) and a mutex that is free again
  and again is had in the end (strong). The latter is generous to the code, and
  the deadlock needs none of it.

### Findings

1. **A lock outlives its HiSLIP session** (`hislip/server.rs:758`). The guard of the
   sync task releases the session's locks, but the async task lives on and is
   granted the next or pending AsyncLock under the old id. Nobody releases it, and
   the next session with that id inherits it.
2. **A broken VXI-11 connection keeps its links and locks** (`vxi11/server.rs:394`).
   `?` leaves `serve_connection` past the cleanup whose comment cites RULE B.6.77.
3. **An abort can hit the next call** (`vxi11/server.rs:317`): the load of `in_flight`
   and the store of `aborted` are two steps, and `OpWindow::open` clears nothing.
4. **`create_link` and the SRQ forwarder can deadlock** (`vxi11/server.rs:848`): table
   then owned, owned then table, on the same two std mutexes.

5. **A leg that crashes completely is green** (`compare.py:285`): without a report
   `compare.py` returns before it writes `--exit-codes`, so `ci_status` never sees the 2s
   its docstring calls red.
6. **The race check counts stale events** (`checks/03_srq.py:116`): over HiSLIP the
   queue is neither disabled nor discarded before the handler phase, and
   `check_race_produced_srqs` passes on what was queued then.

### Divergences the models show without a run of their own

These are visible in the models; a property either excludes the case by name or is
not stated. They are kept here because a reader of the code would want to know.

* A HiSLIP sync task parked in `wait_for_access` is not woken when its own session is
  granted a shared lock (`frontend/lock.rs:279`; the comment at 264 says it waits
  until the session holds a lock itself). `NoLostWakeup` names the exception.
* The access check is not repeated after the bus mutex is had
  (`hislip/server.rs:855`): a lock granted in between does not stop the I/O.
* `init_sync` registers the session before it writes InitializeResponse and makes
  the guard after it (`hislip/server.rs:643`): a client that vanishes in between
  keeps a slot of the registry for good (`LoseConnection`).
* A part of a command read between the bump of `clear_epoch` and DeviceClearComplete
  stays in the buffer (`hislip/server.rs:821`) and starts the next command, unless
  the client is `drained`.
* A reply is not abandoned when a clear came during its execution
  (`hislip/server.rs:894`, comment at 1361): it goes out ahead of the acknowledge,
  where the client has to throw it away.
* Output longer than one `MAX_READ` is not read to its end by `execute`
  (`hislip/instrument.rs:115`), and after an error, or a poll that failed, output may stay
  on the device (69, 98-104). `NoOutputIsStranded` says that nothing else strands any.
* A status query may be told of a reply that the message it quotes acknowledges: the query
  loads `mav`, the sync loop notes the message, the query loads `last_message_id` and finds
  its own; or it comes between the two stores (`hislip/server.rs:398`, `401`, `446`, `449`).
  The comment at 1464 says "a stale set bit cannot outlive the response it belonged to".
  `StaleStatusIsARace` says that there is no other way.
* A device clear waits for a foreign lock without end (`hislip/server.rs:1360`), and what the
  sync channel is executing waits with it. `ClearsComplete` assumes that from some time on
  there is none.
* Two connections that name one link can nest its lock (`vxi11/server.rs:685`), and a
  call that waits for a lock on a link destroyed meanwhile is granted one nobody
  frees (`vxi11/server.rs:505`). `ownLinks` excludes both.
* Control's Reset keeps `last_mss` (`virtual_instrument.rs:276`), so the next rise
  after it is not broadcast. `hislip` checks edges without Reset and the line
  with it.
* A serial poll does not drop the line (`virtual_instrument.rs:598`, comment at 595).
* A service request between the forwarder's look at the line and its subscription
  is not announced (`vxi11/server.rs:820`). `RequestsAreAnnounced` excludes exactly
  the requests of that gap.

* `_parallel_sessions` joins each session thread for two minutes and never asks
  whether it is alive (`checks/04_concurrency.py:276`): a session that hangs passes.
  `HungSessionIsReported` in `ParallelLoad` states the opposite. The 300 s of
  `PARALLEL_WATCHDOG` "has to outlast that" (32) and does not outlast three hung joins.
* `leg_status.classify` says crashed scripts "are missing from this column"
  (`tools/leg_status.py:80`); a script that exits 2 after its report is not
  (`CrashedScriptsAreMissing` in `Legs`).
* A script that was killed for its budget is called unfinished
  (`run_all.py:101`) even if it had just written everything (`TimeoutMeansUnfinished`
  in `Sweep`).
* `release_everything` (`checks/05_lock.py:274`) stops at the first unlock that is not
  a success, a nested one included: with two lost answers `HealthSurvives` fails.
* An abandoned thread that reads `CTX` again reaches the replacement
  (`harness.py:493`); `ReplacedTargetIsClean` leaves out exactly those. With three checks
  such a thread can leave the fault of a check that is neither its own nor the current
  one: it arms over the current check's fault, that check ends, and what it restores is
  the snapshot. Leaving
  `open_target` stops the first server, not its replacement (`cli.py:170`).
* `Stats.report` reads without `_lock`: counts and results of a report may disagree
  while an abandoned thread records. `ExitZeroIsClean` holds all the same.
* A TimeoutError that a check raises by itself is taken for the watchdog's, and costs the
  target. A BadCall inside a check is a FAIL and exit 1, though `harness.py:649` says a
  wrong call is never mistaken for a finding. A Skip in SETUP is exit 2.
* A script that `compare.py` timed out, or a signal killed, is neither an error nor
  flaky; a job killed between `--json` and `--exit-codes` loses its crash codes.
* An artifact without `leg.json` (the step that records it was killed, or raised on a file of
  exit codes that ends in the middle, `leg_status.py:121`) is taken for a leg that is "ok"
  (`normalise_reports.py:159`, `174`): its crashes are not named and the build is green.
  `RedMeansOurBug` and `GapsAreNamed` speak, of crashes, of legs that left both files and
  `leg.json`. Where a single artifact came it is unpacked flat, and without `leg.json` it is
  nobody's.
* A report or `leg.json` that ends in the middle makes `normalise_reports` raise: the
  aggregate is red without a verdict, which is not on `ci_status`' list of what red means.
* A key answered twice keeps its last answer in the tables (`aggregate.py:259`). A section
  longer than `max_rows` says how many rows it leaves out, the list of what is skipped
  everywhere does not (`aggregate.py:444`).
* A check of `10_lock_semantics.py` that fails while its holder is open (377-384, 414-421)
  leaves the holder, with its lock, to the checks after it: `_with_watchdog`
  (`harness.py:382`) keeps the exception and through it the frame, until a collection.
  `ChecksStandAlone` names the exception.
* SETUP, its teardown, the start of a server and the library's exit run under no watchdog
  (`script.py:168`): a script may hang there, and its sweep has to end it.
* A conforming target can fail the load checks: one that takes longer than 30 s for the
  churn (`checks/04_concurrency.py:324`), and one whose unlock timed out, so that the next
  lock nests and is "lock failed" (135-141). `Excused` names both.
* With five threads or more, two lock workers share a session and the nested status
  is reported as "lock failed" (`checks/04_concurrency.py:135`); the instance has one.
* The soak's comment says it runs under `watchdog=0` (`checks/08_soak.py:235`); it has
  a watchdog of its own. An unlock whose answer is lost leaves the lock held, and
  every later lock operation nests.

## 4. Proofs

Each theorem holds for every value of its component's constants that satisfies the
component's named assumption, so for any number of holders, sessions, connections,
messages, checks, scripts, legs or columns, and for any value of the bounds. The two
theorems about `ParallelLoad` have their hypotheses in their statements.

| Module | Theorem | States, of `Spec` unless it says otherwise |
|---|---|---|
| `LockRegistryProofs` | `TypeCorrect` | `[]TypeOK` |
| | `TablesStayWellFormed` | `[]TablesWellFormed` |
| | `NoWakeupIsLost` | `[]NoLostWakeup` |
| | `RegistryImplementsViLock` | `ImplementsViLock` (refinement) |
| | `LocksAreNeverTaken` | `OnlyTheHolderReleases` (action property) |
| | `ExclusiveOwnersAreAlone` | `[]ExclusiveExcludes` |
| `HislipSessionsProofs` | `SessionsTyped` | `[]TypeOK` |
| | `IdsNameTheirSessions` | `[]IdNamesItsSession` |
| | `SessionsHaveOneAsync` | `[]OneAsyncPerSession` |
| | `OrderlyLocksGo` | `[]OrderlySessionsLeaveNoLock` |
| | `LiveSessionsKeepLocks` | `LiveSessionsKeepTheirLocks` (action property) |
| `HislipChannelsProofs` | `ChannelsTyped` | `[]TypeOK` |
| | `RepliesAreFresh` | `[]NoStaleReplies` |
| | `ClearsDropHalves` | `[]CommandsAreWhole` |
| | `MavIsNotStuck` | `[]MavMeansReply` |
| | `OnlyARaceIsStale` | `StaleStatusIsARace` (action property) |
| `HislipExecuteProofs` | `BusBroadcastsRises` | of `BusSpec`: `SrqFollowsRises` (action property), `[]LineFollowsDevices` |
| | `ExecuteLineFollowsDevices` | of `ExecuteSpec`: `[]LineFollowsDevices` |
| | `ExecuteEatsNoRequest` | of `ExecuteSpec`: `[]NoRequestIsEaten` |
| | `ExecuteStrandsNoOutput` | of `ExecuteSpec`: `[]NoOutputIsStranded` |
| `Vxi11Proofs` | `LinksTyped` | `[]TypeOK` |
| | `LinksComeBack` | `[]LinksAreRecovered` |
| | `LocksGoWithLinks` | `[]LocksEndWithTheirLinks` |
| | `LinksDoNotNest` | `[]LocksDoNotNest` |
| | `LocksStay` | `LocksAreKept` (action property) |
| | `AbortsAreConsumedOnce` | of `AbortSpec`: `[]AbortIsConsumedOnce` |
| `ScriptsProofs` | `ScriptTyped` | `[]TypeOK` |
| | `ResultsAreOneEach` | `[]OneResultEach` |
| | `ZeroVouches` | `[]ExitZeroIsClean` |
| | `ScriptIsAProcess` | `ImplementsScriptProcess` (refinement) |
| | `ReplacingCleans` | `[]ReplacedTargetIsClean` |
| | `HungIsReported` | of `SweepSpec`: `[]HungMeansReported` |
| | `ZeroIsEarned` | of `SweepSpec`: `[]ZeroMeansEveryScriptPassed` |
| `LoadProofs` | `TheSoakStaysInStep` | of `SoakSpec`: `[]SoakStaysInStep` |
| | `ConformingLoadIsPassed` | of `ParallelLoad`: `[]ConformingLoadPasses`, for at most four threads |
| | `LoadTroubleIsCaught` | of `ParallelLoad`: `[](LoadTroubleIsReported /\ LeaksAreMeasured)`, for at least three churn cycles |
| `VerdictsProofs` | `LegInvariant` | `[]LegInv` |
| | `RedIsOurs` | `[]RedMeansOurBug` |
| | `GapsGetNamed` | `[]GapsAreNamed` |
| | `TheTablesLoseNothing` | of `MatrixSpec`: `[]TablesLoseNothing` |

### Assumptions

They say that a marker for "nothing" is none of the things, that bounds are numbers,
and what shape a parameter has; TLC evaluates them in every run of the component.

* LockRegistry: `None` is no holder and no name, the empty string is no name (an empty
  lock string is the exclusive request), every task has a holder.
* HislipSessions: `None` is no session and no id; ids are natural numbers.
* Vxi11Links: `None` is no lid and no device. HislipChannels: the three bounds are numbers.
* CheckScript: `N` and `MaxOwn` are numbers, an invocation is a record of its options.
* Legs: exit codes are integers, the transports are a nonempty sequence without repetition (the tools' `PROTOCOLS`);
  a script with a transport in its name runs on that transport only, as the table in
  `suite.py` has it. `normalise_reports`, which goes by the name, would otherwise list a
  crash under the wrong transport.
* VirtualInstrument: a message is a sequence of units, the error queue has a slot, sizes
  and bounds are numbers. HislipExecute: `NoRequest` is no device and no status byte, and
  `MAX_READ` is at least 1; replies may be of any length.
* Vxi11Abort: the bounds on calls and aborts are numbers. Sweep: none.
* Soak: bounds are numbers, and the reply to the large query does not shrink to nothing.
* ParallelLoad, in the theorems: `ConformingLoadIsPassed` has one to four threads, for with
  five two lock workers share a session and nest (section 3, divergences), and a session is
  not numbered 0, which is what `holder` says when the lock is free.
  `LoadTroubleIsCaught` has finitely many sessions and at least three churn
  cycles, the least after which a leak exceeds what the two leak checks tolerate (one thread,
  two descriptors).
* Matrix: a script is listed once, results are sequences, the width and `MaxRows` are numbers.

### Arguments

**LockRegistry.** The inductive invariant is `TableInv == TypeOK /\ TablesWellFormed`. Neither
half is inductive alone: that a release keeps depths in `Nat` needs an owner to have a
positive depth, which is well-formedness, and well-formedness of the next table
needs its fields to be numbers and holders. Lemmas about single tables
(`GrantedType`, `GrantedWellFormed`, `ReleasedOK`, `AllReleasedOK`) carry the step,
which has one case per action. `NoLostWakeup` is inductive relative to it: the test of a
task that has subscribed can become true in two ways. A release can make it true, and then
the releaser is at `notify`, and its `notify_waiters` wakes everybody who has
subscribed; or a grant can, but a grant only adds conflicts for other holders
(`GrantKeepsConflicts`, `GrantKeepsLockedOut`), so it was one to the task's own
holder, which is the exception the property names. No other step touches a table
(`QuietStepKeepsWakeable`). The refinement maps `level` to the sum of a holder's exclusive
depth and its shared count, and `sole` to the exclusive holder. `Grant` maps to one of
ViLock's grants, `Release` to its release, `ReleaseAll` to its release of everything, and
every other step to a stutter.

**HislipSessions.** `SessionInv` adds to the types that the registry and the sessions agree
both ways (`RegistryAgrees`) until the detached task has removed the entry, so an id is not
free before the removal that is still to come, and that an entry was handed out once
(`BoundOnce`). For orderly clients `OrderlyInv` adds that an async task runs beside its own
session's sync task (`AsyncEndsFirst`) and that whoever holds a lock is registered
and past InitializeResponse (`HoldersAreServed`). A pending AsyncLock is then always granted
to a session that will still release it. Without `orderly` this fails: finding 1.
`LiveSessionsKeepTheirLocks` is for all clients: a level of a live session falls in a
`ReleaseLock` step only, because the guard of another session releases another id
(`RegistryAgrees`); that the step is the session's own async task's needs `OrderlyInv`.

**HislipChannels.** `ChanInv` follows a clear through its places: asked for, being done,
acknowledged, being completed, completed (`OneClear`); `clear_epoch` counts those begun and
the client's `gen` those completed. By the acknowledge the sync loop has read everything
(`AcksAreLast`), hence nothing on the sync channel is of another generation
(`MessagesAreCurrent`). `HalvesAreDropped` is the part that needs a `drained` client:
the snapshot `epoch` stays behind `clear_epoch` until DeviceClearComplete, so the
comparison that drops the buffer cannot be missed. `MavMeansReply` and `StaleStatusIsARace`
need that MessageIDs grow along the channel (`IdsGrow`), and beyond it in the sync loop's
hands: `MessageInHand` says what is known of a message that has been read and not yet noted,
or whose id is noted and whose RMT-delivered is not. A query that quotes the last message
sent and finds its id stored has been overtaken by exactly that message.

**VirtualInstrument, HislipExecute.** A message is executed unit by unit by a recursive function.
Induction comes from a lemma on sets of numbers (`NumbersByInduction`, from the well-foundedness
of `<`), applied to the set of the lengths for which the claim holds: there is a course of
devices through any message (`CoursesExist`), the recursive function is one
(`ExecutedIsACourse`), and what each unit keeps the whole message keeps. `BusSound` is the
invariant: devices are typed, no queue outgrows its depth, and the line is the disjunction
over the devices. It is kept by every operation on a bus, `execute` is a chain of such
operations. That it strands nothing is one fact about a read (`MAX_READ` bytes or all there
are), taken through each way `execute` can return; `ExecuteInv` puts the three together. That
every rise is broadcast needs besides that `last_mss` is what MSS was (`InStep`), which
control's Reset breaks.

**Vxi11Links.** `LinkInv`: what tables, connections and locks mention has been created, and
a link locks its own device only; this is for every client and gives `LocksAreKept`.
`OwnInv`: connections own disjoint links, and those that keep to their own are in
a call on a link of the table, hold locks by links of the table only, and hold nothing
between the `holds` of device_lock and its request. This gap is what nesting needs.

**Vxi11Abort.** A stored abort has terminated a call, waits in `aborted`, or was discarded; both
swaps leave nothing behind for a second call.

**CheckScript.** `ScriptInv` is about the main thread: a check that is over has one place in
`results`; draft and report are prefixes of what was recorded, and count a failure only if
one was recorded; and what has been done at each `pc` (`InOrder`). That exit 0 vouches for
a report that threads may still outdate rests on the prefix: the summary is made after
the report, so what it counts contains what the report lists. The refinement maps `disk` to the
report, `summary` and `code` to what the caller sees; all steps but the rename, the
summary, the exit and the kill are stutters. `TargetInv` is about threads and servers: who
runs, on which server, with which snapshot. The proof attempt showed that
`ReplacedTargetIsClean` as first stated ("a fault on the target is the current
check's or that of a thread that looked it up") is false with three checks, which the
instance of two cannot show (section 3, divergences); it now says what holds for any number.

**Sweep.** `BeliefsAreTrue` ties what the runner believes to what the script did (the pump
saw a summary only if it was said; a grace is that of a summary), through the order that
`ScriptProcess` promises; `CountsAreOfTheLog` ties counters and status to the log. For the
early stop, `StopInv` says what the runner's count of scripts in a row without a target means
of the log: the last one, or the last two, that exited by themselves had lost it.

**Soak.** In step between two operations is not inductive: within one, a reply may be
waiting. `Outstanding` says at which places, as long as no clear that was to
resynchronise the session failed itself, and `Published` that
`in_flight` names the operation from its first call to its last, so that a hang is
reported against it.

**ParallelLoad.** `AllFine` says where every worker, session and cycle of a conforming library
can be and that nothing has been held against it but what `Excused` names: that problems
of the load mean a lock left held (`LoadFine`), and that leak checks that judge a churn that
was abandoned find at most the one check then running (`ChurnFine`). Its hard part is that over VXI-11 the
lock keeps a session's write and read together (`SessionsFine`). `Known` is about any
library and ties what the checks read (results half filled by threads that may still
run) to what happened: each trouble is in the results before the check that judges them
starts, or the check is abandoned and fails. Which threads can still end is a finite set
(`LiveWorkers`, `LiveSessions`), so that a count taken after the churn can be compared.

**Legs.** Files are produced in an order and legs are cut short anywhere, in the middle of a
file too, so `LegInv` says of each file that is there what it is made of: a transport is run
once and its files are of that run (`RunsOnce`, `CodesAreOfRuns`, `ReportsAreOfRuns`), a
`leg.json` is made of the files its artifact has (`ManifestsAreOfFiles`), an index is folded
from what arrived when all legs were over, and the verdict from it (`IndexIsFold`).
`RedMeansOurBug` and `GapsAreNamed` follow by unfolding from the verdict back to the runs.

**Matrix.** `MatrixInv` says that each table is what its step makes of the one before it; the
work is in what the steps compute. `FlattenLays`: in sequences laid end to end each has a
place of its own and nothing lies between them (by induction on how many there are). So a merged
column has every answer of every script and no other, and since a script is listed once the last
hit of a key is the last answer that script gave (`LookupIsTheLast`). `InOrderLists`: a finite
set of numbers listed in order is a bijection, because the rank of a member is an
injection into a set of the same size. With `FirstPlaces` it gives one row per key
(`BuildKeepsKeys`). Dead columns decide nothing because leaving them out numbers the
compared ones anew and no section depends on the numbers (`RenumberingKeepsSections`).
That a failure is in exactly one list (`ListedOnce`) counts answers: two different
ones make a row one that differs. What is printed of a list is counted against its length
(`CutsAreSaid`): a row that is not printed is one of those the list says it leaves out.

### Only model-checked

* Liveness (`BoundedCallsReturn`, `FreeResourceWakesWaiters`, `RequestsAreAnnounced`,
  `ForwardersStop`, `ClearsComplete`, `AbortedCallsReturn`, `NothingKeepsTheSuite`): the prover has
  neither fairness nor `ENABLED`.
* `ConformingLibraryPasses`, `FlawsAreCaught` and `NothingLeftBehind` of `LockChecks`,
  `EventChecks` and `IoChecks`: facts about the finite programs at hand, which TLC
  enumerates. There is no parameter to prove them for, and a proof would walk through some
  eighty programs instruction by instruction. What `ParallelLoad` adds to the first two
  is proved in `LoadProofs`, for any number of sessions and cycles.
* `BroadcastsFollowRises` is the run's form of `SrqFollowsRises`: the theorem is about the
  bus by itself, the run about the behaviours of that part.

## 5. Not modelled

In the modelled parts: HiSLIP's overlapped mode and message-size negotiation,
remote/local state of both servers and of the instruments, `consumed_stb`, silence,
timeouts, scripted replies and the forced status byte of the instruments, error
messages on either channel, and the content of messages everywhere; on the Python
side wording, layout, elapsed times and the library under test beyond the statuses
checks tell apart. The one-shot message faults of `server.py`, which are disarmed
without a snapshot, are left out with the proxy that fires them.

Of the rest of the daemon: framing and RPC codecs, the port mapper, clients used by
tests, the fault proxy and its trackers, the observation log, start-up. Of the rest of
the suite: checks that are one call and one comparison (`01`, `09`, `15` to `17`), checks
of wire messages (`11`, `14`, `18`, the two conformance scripts), for which the model
has no observation log, backend discovery, specification text extraction, vendor archives,
reproducers. `PROJECT.json` gives the reason for each.

## 6. Plan

In this order:

1. Proofs: a safety part for `Vxi11Interrupts` (a forwarder that was told to stop announces
   nothing more), which today has liveness properties only.
2. `HislipPush`: the async writer mutex, `async_pusher`, `sync_fatal_pusher`,
   `srq_forwarder`, `poll_for_service_request`, the four-slot queue and
   `consumed_stb`, composed with the SRQ line of `VirtualInstrument`.
3. `HislipChannels`: overlapped mode, and with it the checks of `18_hislip_modes.py`.
4. `FaultProxy` and the two trackers: half-close, one-shot faults that fire once and at
   the message they were armed for.
