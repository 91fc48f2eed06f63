# TSLoad: a verification project

TLA+ modules, TLC configurations and TLAPS proofs for TSLoad, the load generator of
vPerfGenerator. Paths below are relative to `src/`; `ga/` abbreviates `generator-agent/` and
`gs/` abbreviates `generator-server/`. `PROJECT.json` lists, for every definition that models
code, the lines it models.

Run everything from this directory: `tlasany M.tla` parses, `tlc -config X.cfg M` checks,
`tlapm M.tla` proves.

## 1. The system

A *workload* is a stream of *steps*, one for each *quantum* of a *thread pool*; a step is a
number of *requests*. Every quantum the pool's control thread takes one step from each started
workload and deals its requests to the pool's workers. Workers run the requests through the
workload's type (a module such as simpleio) and hand the finished chains to a report thread.
Changes of a workload's status go through a second queue to a notification thread, which calls
the front-end. The front-end is either `run-tsload`, which reads an experiment and feeds steps
from files, or `tsloadd`, an agent that is told what to do by a server over JSON. Both sides of
that protocol (JSON-TS) may invoke a command of the other and wait for the answer; the server
keeps a registry of its agents.

### Inventory

| Component | Code | State | Operations | Hard about it |
|---|---|---|---|---|
| Step queue | `ga/lib/libtsload/src/workload.c` | `wl_last_step`, `wl_current_step`, ring `wl_rqs_per_step` of 16 counts | `wl_provide_step`, `wl_advance_step` | Two threads, one ring; full, empty and the end of the workload told apart by two counters |
| Synchronized queue | `ga/lib/libtscommon/src/syncqueue.c`, `plat/posix/tutil.c` | head, tail, links, `sq_is_destroyed`, event | `squeue_push`, `squeue_pop`, `squeue_destroy` | Three shapes encoded by head and tail; only a push to an empty queue notifies |
| Thread pool | `ga/lib/libtsload/src/threadpool.c`, `worker.c` | workload list and count, `tp_wl_changed`, step array, workers' lists and states, mutexes, event | control loop, worker loop, `tp_attach`, `tp_detach`, `tp_distribute_requests`, `tp_create`, `tp_destroy` | 2 + N kinds of threads; state kept over quanta; splice against deal; one notification per quantum; destruction |
| Workload lifecycle | `workload.c`, `tsload.c` | status, `wl_is_configured`, `wl_tp`, start time | create, configure (own thread), start, provide, advance, notify, finish, unconfigure | Configured by one thread, attached to another's list, detached by a third, destroyed by a fourth |
| Experiment runner | `ga/cmd/run-tsload/src/load.c`, `steps.c` | `wl_cfg_count`, `wl_run_count`, `load_error`, steps files | configure, wait, feed, start, wait, status handler, finish | Counters and flag written by two threads without a lock; an event without memory |
| Agent client | `ga/lib/libtsagent/src/client.c`, `agent.c` | socket, `clnt_connected`, message id, handlers in a hash map, `proc_queue`, receive thread | `clnt_invoke`, answers and commands, connect, disconnect | Answers, waits, disconnects and reconnections race; a handler's cell is used again |
| Load agent | `ga/cmd/tsloadd/src/*.c` | the tsload API's tables | agent methods | Remote calls in any order |
| Hash map | `libtscommon/src/hashmap.c` | buckets, chains through a field of the objects, lock | insert, remove, find, walk | Used by all threads; the head of a chain is read before the lock |
| Memory pool | `libtscommon/src/mempool.c`, `mempool_libc.c` | atomic bitmap and descriptors of fragments, heap pages with a tree in the free blocks' headers, slab pages | allocate, free, merge | Two atomic operations on a cell with others in between; pages that are freed while threads look for one |
| Threads | `libtscommon/src/threads.c`, `plat/posix/threads.c` | counter of ids, state, event, map of the threads | start, wait for the start, prologue, epilogue, join, destroy | State tested outside the event's lock; an event on the waiter's stack |
| Start-up | `libtscommon/src/tsinit.c` | subsystem states | `ts_init`, `ts_finish` | Order, and partial failure |
| Parameters, types, modules, log, time, host info, lists | `libtsload/src/wlparam.c`, `wltype.c`, `libtscommon/src/*` | tables filled at start | parse, look up, log | Sequential |
| swat-import | `ga/cmd/swat-import` | none kept | converts traces | Sequential I/O |
| libjson | `ga/lib/libjson` | | | Third party |
| Server protocol | `gs/.../tsserver/TSClient.scala`, `TSServer.scala` | message id, pending invocations, socket, chunks | invoke, receive, process, disconnect | Two sides invoke; answers matched by an id drawn without a lock; the stream is cut anywhere |
| Agent registry | `gs/.../TSLoadServer.scala`, `AgentService.scala` | connected agents, agents in the database | hello, list, unlist, look up | Old and new connection of one agent; hello in several steps |
| Actors and web pages | `gs/` | | | Demonstration and front-end code |

Correctness, component by component:

* **Step queue**: every accepted step is delivered once, in order and with its own count; nothing
  unwritten is read; an accepted step is not swallowed by the end of the workload.
* **Synchronized queue**: FIFO, each element to one consumer, no element stranded, none freed
  twice, an orderly end.
* **Thread pool**: each request provided is run or at least reported exactly once, whatever the
  interleaving; the control thread works only on attached workloads and never hangs.
* **Experiment runner**: no step of a file is lost, the experiment starts when all workloads are
  configured and ends when all have finished.
* **Client and server protocol**: an answer reaches the invocation that asked, every invocation
  ends, messages arrive whole, replies in order.
* **Registry**: an agent that is connected is listed under its own record and its latest
  connection.
* **Hash map**: a chain loses and repeats nobody; what is in the map is found.
* **Memory pool**: a fragment or block has one owner, none leaks; blocks tile their page; the
  search finds the best fit; a page in use stays.
* **Threads**: the map holds the live threads; a `thread_t` outlives its thread's body; who waits
  for a start is released.

### Interactions

`load.c` (main thread) -> `tsload_*` -> `wl_*`: direct calls. `wl_create` starts a configuration
thread that calls `tp_attach` under `tp_mutex`. The control thread calls `wl_advance_step` (under
`wl_rq_mutex` of the workload), `tp_distribute_requests` (under every worker's `w_rq_mutex`) and
`wl_notify`, which pushes to the queue `wl_notifications`. Workers push chains to `wl_requests`.
The notification thread pops and calls `do_workload_status`, in `load.c`, which feeds the workload
through `wl_provide_step` and wakes the main thread up by `workload_event`, or in `tsloadd`, which
reports to the server with `clnt_invoke`.

`clnt_invoke` creates a handler (a cell of a cache, entered in a hash map under the message id),
writes to the socket and waits on the handler's event. The receive thread of the connection pushes
what arrives to `proc_queue`; the processing thread finds the handler of an answer, or runs a
command and replies. At the server, a receiver thread for each connection reassembles messages and
passes them to a processor actor, which starts an actor for each command and wakes the caller of
each answer.

All of the agent's threads are `thread_t`s in one hash map; in a build with the memory pool, pages
of the heap and of the slab caches are regions of the fragment allocator.

## 2. The modules

| Module | What it is |
|---|---|
| `StepRing` | The arithmetic of the step queue: slots, full, next id, no step left. Shared by the three modules that use the queue |
| `StepFifo` | Abstract: a bounded FIFO of numbered steps that ends when it is found empty |
| `StepQueue` | The ring, `wl_provide_step`, `wl_advance_step`; implements `StepFifo` |
| `SyncFifo` | Abstract: a FIFO for several consumers that can be closed |
| `SyncQueue` | `squeue_*` on head, tail and links, with the event's wait set; implements `SyncFifo` |
| `QueueProofs` | Proofs about `StepQueue` and `SyncQueue`; so that both can be extended, the names of `StepQueue` that would clash begin with `Step` |
| `RequestDelivery` | Abstract: what a pool promises: steps begin in order, their requests become due, each due request is reported once |
| `ThreadPool` | Control thread, workers, configuration threads, feeders, `tsload_unconfigure_workload`, `tp_destroy`; implements `RequestDelivery` |
| `ThreadPoolProofs` | Proofs of its safety properties |
| `RunTsload` | `do_load`: main thread, configuration threads, the advance of each workload, notification thread and steps files |
| `RunTsloadProofs` | Proofs of its safety properties |
| `HashMap` | The hash map's functions as operators on head and next pointers |
| `AgentClient` | `clnt_invoke`, connect, receive and processing threads, disconnection; the server is the environment. Extends `HashMap` |
| `AgentClientProofs` | Proofs of its safety properties, and of the hash map's functions |
| `LoadServer` | Receiver, processor, hello and invocations of the Scala server, and its registry; the agents are the environment |
| `LoadServerProofs` | Proofs of its properties |
| `FragPool` | The fragment allocator: each atomic operation on the bitmap is an action |
| `HeapTree` | The free tree of a heap page: insert, find, delete, walk, as operators |
| `HeapPages` | The heap: list of pages, locks, allocation, freeing, defragmentation. Extends `HeapTree` |
| `FragPoolProofs`, `HeapPagesProofs` | Proofs about `FragPool` and `HeapPages` |
| `Threads` | `t_init`, prologue and epilogue, `t_wait_start`, `t_destroy`, the map of threads. Extends `HashMap` |
| `ThreadsProofs` | Proofs that `t_destroy` waits for the body, and of the map of threads |
| `MC*` | Instances for TLC |

`RunTsload` composes what the other modules establish: the report queue is the FIFO that
`SyncQueue` implements, the step queue is `StepRing`'s arithmetic, and the pool is reduced to its
`Advance`, the only thing of it `load.c` can see. `AgentClient` likewise uses a sequence for
`proc_queue`. `HashMap` is interleaved by the two modules that extend it: they decide which thread
holds `hm_mutex`, and `AgentClient` splits `hash_map_find` at the read that comes before the lock.
`HeapPages` takes its pages from a finite supply, as `FragPool` hands them out.

### How state and actions correspond to the code

Variables have the names of the fields they model (`last_step` for `wl_last_step`, and so on);
records group the fields of a structure together with the local variables and the place (`pc`) of
the thread that owns it. An action is what a thread does from one point to the next where another
thread can see or change what it works on:

* `wl_provide_step` and `wl_advance_step` hold the workload's mutex throughout: one action each.
* A critical section of `sq_mutex` is one action; `pthread_cond_wait` releases the mutex and starts
  to wait in one step, and returning from it is another, so notifications and other pops come in
  between.
* The control thread takes `w_rq_mutex` worker by worker, handles workload by workload, and sets
  `w_state` worker by worker: each is an action. `FINISHED` is reported in `CtlFinish` and the
  detach follows in `tp_detach_nolock`; the configuration thread is likewise split between
  reading `wl_tp` for the call of `tp_attach` (`ConfigReadsPool`), attaching, setting
  `wl_is_configured` and notifying; a configuration that fails is a thread that takes no further
  step. `tsload_unconfigure_workload` tests the status, asserts `wl_tp`, takes `tp_mutex` and
  destroys in steps of its own. It refuses `WLS_CONFIGURING` only: a workload whose module has
  reported no progress (not in `Reporting`, or not yet) is still `WLS_NEW` and may be detached and
  freed under its configuration thread. A detachment from a list the workload is not on changes
  `tp_wl_count` all the same.
* A worker's loop is split at every access to what others write: `tp_is_dead`, its mutex, its list,
  `wl_tp` of the request's workload, `w_state`, the report queue, the decision to sleep, the wait.
* `load.c` tests its counters without a lock and waits afterwards: `MainTestsConfig` and
  `MainWaits` are different actions. `do_workload_status` is split at every write.
* `AgentClient`: a caller creates its handler, tests `clnt_connected`, sends, waits and returns in
  five actions, and its wait may end without a notification (`Spurious`; `early` is the first call
  to which that happened); a reply is likewise a test and a send. The disconnection
  is split into the flag, the walk of the map, the closing of the socket and the
  notification; the processing thread into the head of the chain, the search, the type and the
  event. A message is a pair of kind and number, a connection a number; `clnt_socket` is the number
  of the connection it stands for, so that a late `close` or `send` hits a later one.
* `LoadServer`: one action for each actor's or thread's access to what others use: `getMsgId` is
  a read, a write and a read; `hello` is find, save, name and list; the end of a connection is
  unlist and deactivate. The stream is a sequence of pieces, of which some end in a NUL.
* `FragPool`: a cell is the set of its fragments whose bits are set; the exchange with
  `MP_BITMAP_BUSY` and the `and` that gives the value back are two actions.
* `HeapTree` and `HeapPages`: a tree is a record of the root and the headers at every offset; a
  child equal to the node itself stands for the distance 0, no child. What is done under a page's
  mutex is one action; scanning the list, trying the page mutex, adding a page, waiting for the
  last one, freeing a page and unlocking afterwards are others.
* `Threads`: a `thread_t` (object) and the pthread that runs on it (run) are apart, because one can
  go before the other. `++tid` is a read and a write; the prologue and epilogue are split at every
  access to the state, the map and the event, which may be read twice. Here too a wait may end
  without a notification (`Spurious`).
* Undefined behaviour (something freed or detached is used, `assert` fails) ends a behaviour:
  `fault` in `ThreadPool` and `Threads`, `state` in `FragPool` and `HeapPages`, `alive` in
  `AgentClient` (a signal kills the process); in `SyncQueue` the consumer is `"lost"`.

What is abstracted. Time: a start time comes when it comes and a quantum ends when the control
thread gets there; a page is older than its lifetime or not. What a request does. The text of a
steps file: a line is `"ok"` or `"bad"`, and what `fgets` leaves in the buffer when there is nothing
to read is either. `distribute_requests` deals the remainder at random in the source, but its test
`rand_value && (1 << bit)` is logical, so each worker in turn gets one until none is left; the model
deals them to the first workers. If `rand()` returns 0 nobody ever gets one, and the test for a new
draw, `(1 << bit) >= RAND_MAX`, is never true with a `RAND_MAX` of 2^31 - 1: the loop does not end,
and the model ends in the fault `"endless_draw"` (`CtlDrawsZero`). `wl_status`
and progress values the front-end ignores are left out. JSON is parsed and formatted without
failure; the dispatch of a command by its name is one outcome. Memory allocation succeeds, except in
the modules about it. The locks themselves (mutexes, reader/writer locks) are correct.

## 3. What is checked

Properties are invariants unless marked (T) for temporal ones. Where a property's comment says so,
`TypeOK` is its first conjunct (`NoStepLost`, `OneHandlerPerCall`, `ListedUnderOwnId`,
`EachFragmentOnce`, `BlocksTilePage`, `InTable`); the other three modules check it by itself.

| Run | Instance | Shows |
|---|---|---|
| `step_queue` | Ring of 4, ids -2..9 at, below and above the expected one, counts 0..2 | `WindowInv`; `StepsImplementFifo` (T) the ring implements the bounded FIFO; `AcceptedIsTaken` (T) an accepted step is not swallowed by the end |
| `sync_queue` | 4 elements, 2 consumers, destruction at any time | `Shape`, `NoFreedInQueue`, `NoStrandedElement`, `ImplementsFifo` (T), `EventuallyPopped` (T) |
| `thread_pool` | 2 workers, 2 workloads of which one may be rejected, 2 steps of 3 requests, `tp_destroy` | `DealtUnderLocks`; `EachRequestOnce` and `InOrder`: every request is dealt once, kept in order and reported once, up to the first undefined access |
| `thread_pool_two` | 1 worker, 2 workloads that come and go, steps of 2 requests, one workload that may report progress and is unconfigured at any time | `StepArrayFresh`, `ControlKeepsPace` (T), `ProvidedIsBegun` (T); `ImplementsDelivery` (T) the pool implements `RequestDelivery` |
| `run_tsload` | 2 workloads, three steps files, every failure of the configuration | `NoStepLost`, `StartsConfigured`, `FinishesAll`, `RunCountReachesZero` (T) |
| `agent_client` | A reporting thread and the connect thread (both invoke), 2 cells in 1 bucket, 2 connections, 2 calls, or 1 call among 2 commands, torn messages, waits that end early | `OneHandlerPerCall`, `AnswersMatchCalls`, `RepliesInOrder`, `WaitersReleased` (T), `Reconnects` (T) |
| `load_server` | 1 host that connects twice, 2 concurrent calls on the first connection | `MessagesWhole`, `RegistryFollowsConnections`, `ListedUnderOwnId`, `OwnAnswer`, `WaitIsAccountedFor` |
| `frag_pool` | 3 threads, 3 cells of 2 fragments, regions of 1, a whole cell, and more than one | `EachFragmentOnce` no fragment has two owners or leaks; `DescriptorsMatch` |
| `heap` | 2 threads, 2 pages of 7 units, blocks of 1 and 3, at most 3 handed out | `BlocksTilePage`, `SearchFindsBestFit`, `ListedWhileUsed` |
| `threads` | 2 creators, 2 `thread_t`s in 1 bucket, 3 starts, one started again while mapped | `InTable`, `DestroyedAfterBody`, `StartReleases` (T) |

Two runs refute what the code's documentation says (section 5): `finished_early` and
`missed_answer`.

### Bounds

* The ring has 4 slots (16 in the code) and ids go up to 9, so that every slot is written at least
  twice and the ring goes full, empty and around; the proofs cover every size. In the composed
  modules it has 1 or 2 slots: the queue is full after one or two steps, which is what the feeder's
  logic depends on.
* Four elements and two consumers: the queue takes each of its three shapes, the longest has an
  inner link, and two consumers compete for one notification. The program has one consumer per
  queue; two is what the queue's comment promises.
* Three requests on two workers leave a remainder; two steps (`MaxSteps`) make a worker meet the
  requests of a step with those of the one before still unfinished. Two workloads are needed for
  the cached step array to be wrong. `MaxSteps` bounds what a feeder provides; after it, the
  workload runs dry and finishes, as in the program.
* `run_tsload` has an empty file, one as long as the queue, and one whose trailing newline makes it
  a step longer than the queue, so that feeding ends before the start, exactly with it, and during
  the run.
* `agent_client`: with `MaxDisconnects` 1 the second disconnection aborts the process, as the sixth
  does in the program. Two calls in one bucket make a chain of two; the second connection is
  where late actions of the first one's threads hit; two commands of one connection, whose replies
  may go out on the next, can be mixed up. `Mixes` bounds calls and commands together: two calls
  race without commands, two commands with the one call that a reconnection needs (the hello).
  `missed_answer` needs a third call, so that a cell is used again; it has one connection and no
  commands, and looks only at behaviours in which no wait ends early.
* `load_server`: two connections of one host suffice for the old one's end to meet the new one's
  hello, two calls for `getMsgId` to race. Every cut of the stream into chunks is explored.
* `frag_pool`: cells of 2 fragments distinguish part of a cell, a whole one and several; three cells
  leave room for one allocation of several; `MaxRetries` is 1, which makes failures more frequent,
  not different. `WholeMasks` gives both values that `(1 << 32) - 1` has in builds.
* `heap`: 7 units take trees of up to four free blocks, among them equal ones and nodes with two
  children; `DefragFree` 2 and `DefragPeriod` 2 make every page reach the defragmentation.
* `threads`: the map's only bucket has a chain; three starts let one object be destroyed and started
  anew, and one be started again while mapped (`Renewed`).

### Fairness

* Weak fairness of every thread that runs (control, worker, configuration, notification, main,
  consumer, the agent's callers, connect, receive and processing threads, the threads of
  `Threads`): the scheduler runs them, and mutex acquisition needs no more because the critical
  sections are short and a worker with nothing to do sleeps; that the control thread is not starved
  is checked, not assumed (`ControlKeepsPace`).
* `StartTimeComes` and `Advance` are weakly fair: time passes.
* Nobody is forced to push, feed, attach, destroy, invoke or start; the server of `AgentClient` need
  not answer. `LoadServer`, `FragPool` and `HeapPages` are checked for safety only and state no
  fairness.
* A condition variable may wake up without reason, in every module that waits for one. It need
  not, so no fairness is stated of it; in `ThreadPool`, where a worker waits in a loop, it does not
  for ever (the last conjunct of `FairSpec`).

Deadlock is checked in `step_queue`, `thread_pool_two`, `finished_early`, `run_tsload` and `heap`.
The other systems may stop: in `sync_queue` the elements may be used up and all consumers be gone or
asleep; in `thread_pool` `tp_destroy` may hang (section 5); in `agent_client`, `load_server` and
`threads` the calls, connections and starts are used up, and some fault states end a behaviour; in
`frag_pool` an exhausted pool aborts.

### Mutants

Each property of a passing run has a mutant in `PROJECT.json`: a slip in a mapped definition
(`Slip...` operators, beside the definitions they stand in for) with which the run finds the
property violated.

## 4. What is proved

TLAPS proves the following for every value of the constants. The assumptions are those of the
modules, which TLC evaluates on every instance: the ring's size is a positive integer, ids are
integers and counts naturals; the null pointer is no element and a queue has a consumer; a pool has
at least one worker; a cell of the bitmap has bits, an allocation asks for something and is tried at
least once; finitely many threads call the server's `invoke`, and the value for no agent is no host;
finitely many call the client's `clnt_invoke`, with at least as many cells as callers; a hash map has
a bucket; the value for no holder of a heap's page is no thread; the calls of `t_init` have a bound.
Each invariant below was checked by TLC on the runs' instances before it was proved.

* `QueueProofs`, the step queue. `StepTypeCorrect`, `WindowCorrect` and `NeverUnset` prove `StepTypeOK`, `WindowInv`
  and `NoUnsetStep` (no slot is read that was not written), each from those before it. The window is what makes the ring work: at most
  `QSIZE` steps wait, so that (lemma `SlotsDiffer`) no two of them share a slot, and writing a new
  one leaves the others alone. `RingImplementsFifo` maps the ring to the sequence `Waiting` of the
  counts between the current and the last step and shows that each step of the code is a step of
  `StepFifo` (`Accept`, `Refuse`, `TooLate`, `Take`, `Finish`) or none.
* `QueueProofs`, the synchronized queue. None of `TypeOK`, `Shape` and `NoFreedInQueue` is inductive alone. `QueueInv`
  adds that elements not yet pushed have no link (a push relies on it), that before the destruction
  only popped elements are freed, and that after it the head, if there is one, is freed (so no pop
  returns anything). From it follow `TypeCorrect`, `ShapeCorrect`, `NothingFreedInQueue` and, with
  two lemmas on windows of sequences, `QueueImplementsFifo`.
  `NothingStranded` proves `NoStrandedElement`: a push to a queue that has elements wakes nobody,
  so what matters is that only a pop that finds no head starts to wait, and that (`NobodyLeft`) no
  consumer leaves its loop while the queue lives, so that the notified one comes back.
* `ThreadPoolProofs`. `LocksCorrect` proves `DealtUnderLocks` from `LockInv`: a `w_rq_mutex` is held
  by its worker exactly while it takes its list, and by the control thread exactly for the workers
  it has passed while it locks, and for all while it deals. The other four theorems prove `TypeOK`,
  `InOrder`, `StepArrayFresh` and `EachRequestOnce` from one invariant. It adds where the chains of
  the places fit (`ChainsFit`), that the pool's list names each attached workload once (`Lists`), and no other unless
  `tp_wl_count` is below its length (`Short`: a workload was rejected, or unconfigured before its
  configuration thread attached it; then `tp_wl_changed` stays set and the control thread gets no
  further than the assertion), that a workload nobody
  attached has no requests (`Untouched`), who may free (`NotFreed`), what the step array holds in
  every phase of the control loop (`StepArray`), the ring's window for each workload (`Rings`), and
  that no chain holds a request of a step still to be dealt (`StepsPassed`). The heart of
  `EachRequestOnce` is dealing: each worker's share of a step is an interval of ids
  (`IdsFollow`), the intervals of two workers are apart (`IdsApart`) and all ids below the count are
  covered (`IdsCovered`), for any number of workers and any count; the first worker an id is below
  is a minimum of naturals, which well-foundedness gives without an induction. After that,
  splicing, running and reporting move requests between places and keep the bijection from places
  to ids.
  `PoolImplementsDelivery` proves that the pool implements `RequestDelivery`. `Waiting`, `Due` and
  `Reported` map the pool's state to the abstract one: a workload's waiting steps are those of its
  ring, the requests of a step become due when they are dealt, to all the workers together, and
  stay due until their chain is in the report queue. A push of a chain reports its requests, a
  workload is closed when it is reported finished or taken off the pool, and the other actions
  are stutters. It needs besides the invariant that no chain is in two places (`Apart`) and that only a
  workload somebody unconfigures loses steps that wait (`OnlyUnconfigured`).
* `RunTsloadProofs`. `NoStepIsLost`, `AllConfigured` and `AllFinished` prove `NoStepLost`,
  `StartsConfigured` and `FinishesAll`. The first needs the window of `load.c`: the steps that wait
  and the `RUNNING` reports that are not handled are together at most `QSIZE` (`Fed`), so that the
  step a report makes `load.c` feed always finds room. The others need that the counters say what
  they should: `wl_cfg_count` is the number of workloads counted, less those configured,
  plus the `SUCCESS` reports still under way (`CfgCounts`), and `wl_run_count` likewise with those
  that have finished (`RunCounts`); the equations hold until a failure is known, and relate a
  counter to the cardinality of a set of workloads and a number of messages in a queue.
* `LoadServerProofs`. `DecodedWhole`, `ListedRight`, `RegistryRight`, `OwnAnswers` and
  `WaitsAccountedFor` prove the five properties of the run. What is decoded, what is buffered and
  what is still in the socket are together the stream that was sent (`Streams`), and a connection's
  mailbox is what of it was not handled, with the hello at its front (`Hellos`). `Registry` says for
  each phase of a hello or of an end what the registry and the database hold, `AllSettled` that the
  two agree for the hosts that are settled. For the calls, `Counted` bounds the ids by the
  counter, `Alone` says that nobody else draws while one thread draws, unless the run is marked,
  `Ours` that a handler under an id is its caller's, and `Answered` where the answer is.
* `AgentClientProofs`. `ClientRepliesInOrder`, `ClientOneHandlerPerCall` and
  `ClientAnswersMatchCalls` prove the three safety properties of the run. The first half is about the
  hash map. `Walk` is a recursive function, and what it computes needs an induction; instead a chain
  is stated (`ChainFrom`: a sequence without repetition that starts at the head, follows the links
  and ends at `Null`), and `WalkIsChain` shows that a walk is the chain that is stated, since the
  least place at which they differ cannot exist. With it, inserting appends to one chain
  (`InsertKeeps`) and removing closes the gap (`RemoveKeeps`), and every other chain is left alone.
  `Chained` says that each bucket has a chain of exactly the cells in use whose ids are hashed there;
  `FreeCell` (by cardinalities) that a cell is left for the call that asks for one. For the order
  (`InOrder`), the commands of a connection are compared in all the places they pass, the wire,
  `proc_queue`, the processing thread and the replies, at once. For the answers (`Answers`), an
  answer is in at most one of the server, the wire, the queue and the thread, and its call expects
  it until a connection is lost, for every call made before the first wait that ended without a
  notification (`Clean`); the cell the thread has found is still the caller's because ids are
  never given twice. Of the other calls only that none returns with the answer to a later one is
  left (`Stale`): a cell's answer, and the one about to be written to it, is to its own call or an
  earlier one, since a cell that is used again gets a greater id.
* `FragPoolProofs`. `FragmentsOnce` and `RegionsDescribed` prove `EachFragmentOnce` and
  `DescriptorsMatch` for any pages, cells and threads. The invariant says for each fragment that it
  is in one of five places (handed out, held by a thread on its way, given free but not yet
  returned, free in the bitmap, or lost by a mask that is 0), and in no second one (`Once`), that a
  region lies within its cell (`NoPages`) and that the descriptors are those of `mp_frag_alloc` for
  what is handed out and `UNALLOCATED` elsewhere (`Descriptors`). The busy value that hides a cell's
  bits is a set no cell can have, which makes the exchange safe.
* `HeapPagesProofs`. `PagesListed`, `PagesTiled` and `BestFitFound` prove `ListedWhileUsed`,
  `BlocksTilePage` and `SearchFindsBestFit`, for any threads, pages, units and requests.
  `HeapInv` adds to the first what makes dropping a page safe:
  a page counts at least the blocks handed out on it and the one a thread is freeing (`Counted`), so
  that a page whose count is 0 has none; and a thread that takes, frees or drops has locked the
  page (`Working`), so that no second thread works on it. Nothing is needed of the trees for it:
  whatever a search returns, the counts stay lower bounds.

  The other two are about the trees. What the recursive functions of `HeapTree` compute
  needs an induction over the tree, which the library states with an operator as parameter. Here a tree
  is stated instead: `Tree(t, S, par, sub)` says that the links of `t` make a search tree of the nodes
  `S`, `par` being the parent of each and `sub` what is at it and below. The subtrees are finite sets that
  get smaller from a node to its child, so that of the nodes with a fault one has a least subtree:
  `TreeInduction` says that what holds of a node if it holds of its children holds of all.
  `Ascending` and `Descending` do the same for the addresses of a page, where `RunEnd` and the building of a
  new tree go up or down. With them it is proved what each function gives (`BelowIs`, `LeftmostIs`, `PathIs`,
  `NodesIs`, `RunEndIs`, `BuiltIs`), then what the operations do to any tree: `InsertKeepsTree`,
  `DeleteKeepsTree` (the node with two children included), `BestFitIs` and `MergedIs`. An equal size
  may stand at either side (`Ordered`): a deletion puts the least node of the right subtree where equal ones
  remain on its right, so that "equal sizes go left" is what the insertion does, and no invariant.
  `Tiled` says that the free blocks and those in use start at 0, each where another ends,
  and overlap nowhere; it is kept when a block is cut (`Cut`), given back or merged with its neighbours.
  `BlockInv` puts them together: every page is unused or has a search tree
  of blocks that tile it with those handed out and the one being freed, and counts them
  (`HasBlocks`). `HeapInv` gives it that at most one thread frees on a page, the one that has locked it.

* `ThreadsProofs`. `DestroyWaits` proves `DestroyedAfterBody`: `t_destroy` looks at the state without
  a lock and joins unless it sees `TS_DEAD`. `Inv` adds what makes the look safe: a `thread_t` that is
  not started again while it is mapped belongs to one pthread (`OneRun`), none belongs to one that is
  destroyed (`NoneRuns`, `StartsAfresh`), `TS_DEAD` is set behind the body (`DeadIsLate`), and what
  the look or the join has established still holds when the `thread_t` is removed (`RemovesLate`).
  Nothing is needed of the map for it. `ThreadsInTable` proves `InTable`, with the chain lemmas of
  `AgentClientProofs` (which serve here too: the two modules share `HashMap` only, and so each has
  them). `MapInv` adds that the map's buckets hold just the `thread_t`s of which a pthread has entered
  (`InBucket`), that one that has not entered has a clear link (`Unlinked`), that ids are given in
  order while nobody draws an id that was read late (`Numbered`), and that a `thread_t` has a state
  just while it has a pthread and is started again only at the end of the old one (`Owned`): such a
  one is still mapped, so that while the run is calm each belongs to one pthread (`OneEach`). The
  bound on the ids counts also the creators that are in the middle of a start (`Counted`).
  Assumed: each `thread_t` has one creator, and `Null` is no creator.

Every safety invariant and action property that a passing run checks is the property of a theorem.
Only model-checked: liveness (`AcceptedIsTaken`, `EventuallyPopped`, `ControlKeepsPace`,
`ProvidedIsBegun`, `RunCountReachesZero`, `WaitersReleased`, `Reconnects`, `StartReleases`), which is
out of the prover's reach.

## 5. Where code and documentation differ

Each of these is a run that TLC ends with a counterexample.

1. `finished_early`: `FINISHED` is sent and the workload detached when its *queue* is empty, while
   requests of its last step still wait or run; a worker then reads `wl_tp`, which is `NULL`
   (`worker.c:102`, `workload.c:387`).
2. `missed_answer`: `hash_map_find` ("Find object in hash map by key", `hashmap.c:168`) reads the
   head of the chain before it locks the map (`hashmap.c:172`). If that cell is freed and used for
   another call meanwhile, the walk starts in the middle of the chain, and an object that is in the
   map is not found; the client discards the answer and its caller waits for ever.

The models contain the following too, without a run of their own.

*Queue and pool.* `squeue_destroy` ("Destroy all elements in queue") stops before the tail, which is
never freed if there are two or more elements (`syncqueue.c:139`); a pop after it blocks or follows a
freed head (`syncqueue.c:62`). A worker decides to sleep after it has released its mutex; the
quantum's notification may come before it waits, and it sleeps on dealt requests (`worker.c:194`),
or for ever when the notification was `tp_destroy`'s (`threadpool.c:141`). A workload whose
parameters do not parse is detached from a pool it was never attached to; `tp_wl_count` becomes too
small and `assert(wli < wl_count)` fails (`workload.c:550`, `worker.c:70`). The same comes of a
workload that is unconfigured while it is still `WLS_NEW`, unless its configuration thread meets the
freed workload or its `NULL` pool first (`tsload.c:108`, `workload.c:230`). When `rand()` returns 0
and a step has a remainder, the control thread loops for ever with all the pool's mutexes held
(`threadpool.c:221`). The interrupt for the
old step's requests may hit a worker that has already taken the new ones, which it then gives up
(`worker.c:130`). `tsload_unconfigure_workload` may detach a workload that the control thread
detaches too, and free it while the control thread or a worker uses it (`tsload.c:115`,
`threadpool.c:193`).

*Experiment runner.* The same lost notification in `load.c:528` and `:537`; a workload abandoned
between `tsload_configure_workload` and `atomic_inc` takes `wl_cfg_count` to -1 (`load.c:245`); a
configuration that returns an error without a notification is never counted down, and the main
thread waits for ever (`workload.c:227`); `wl_run_count` is zeroed by a bad line and then decremented
by `FINISHED` (`load.c:450`); `wl_cfg_count` is decremented before `load_error` is set, so that the
main thread may start the experiment with a workload that failed (`load.c:436`); a steps file that
ends with a newline yields one more step, from an uninitialised buffer (`steps.c:91`).

*Agent client.* An answer or a disconnection that comes between `clnt_send` and `event_wait` is lost
(`client.c:456`; `WaitersReleased` therefore starts with those who wait already). A wait that ends without a
notification makes `clnt_invoke` return `RT_NOTHING`; the next call may get the cell, and with it an
answer the processing thread has found the cell for (`AnswersMatchCalls` holds for the calls before). The processing
thread writes an answer to a cell that may belong to another call by then (`client.c:129`;
`AnswersMatchCalls` holds up to the first lost connection). A reply goes out on whichever connection
there is (`client.c:170`). The receive thread that ends may close the next connection's socket and
clear `clnt_connected` (`client.c:540`); it frees a buffer that is uninitialised if nothing was
received. A message that TCP splits is parsed as two broken ones and dropped. A `send` to a closed
socket raises `SIGPIPE`. `clnt_fini` is never called.

*Server.* `msgId += 1` and its result are not synchronised, so two calls may share an id and one
handler replaces the other (`TSClient.scala:128`). `wait` comes without a test whether the answer is
there, and nobody wakes the callers of a connection that ends. The end of an old connection removes
the entry of the agent's new one (`TSLoadServer.scala:258`); a `read` that throws after a reset cleans
nothing up; a connection that ends before its hello is done leaves a listed ghost; two hellos at once
create two records. (`unsettled` names these cases, and `RegistryFollowsConnections` holds outside
of them.) The server calls `create_threadpool` with `num_requests` where the agent expects
`num_threads`, and reads `result` where the agent replies with `success`; arguments are not modelled.

*Fragments.* `mp_bitmap_alloc_cells` takes one cell more than it was asked for and, if it fails, also
clears the cell of somebody else (`mempool.c:284`); `mp_bitmap_free_cells` starts at the first cell,
whatever the region; the mask for a whole cell is `(1 << 32) - 1`, which is 0 in some builds: the
bits then stay set; contention alone makes an allocation fail and the process abort;
`mp_bitmap_find_region` does not look behind the first free bit of a cell. (`paged` and `lost` mark
these; the two properties hold up to the first allocation of several pages.)

*Heap.* A thread that waits for `last_heap_page` may lock a page freed meanwhile (`mempool.c:586`); a
scan may go on from a freed page, and always leaves out the first page of the list; a page without
free blocks, got as the last page, is searched (`mempool.c:607`); the mutex unlocked after
`mp_heap_page_free` lies in the freed page. Not in the model: the defragmentation
sorts by the low 16 bits of the addresses, which is wrong for a page across a 64 KB boundary
(`mempool.c:662`); `mp_realloc` allocates twice and leaks.

*Threads.* `++tid` is unsynchronised, so that two threads may get one id (`threads.c:53`). The
client's receive thread is initialised again while its `thread_t` is mapped (`client.c:501`): `t_init`
clears the link and changes the id, so that the chain is cut, and the threads behind it are no
longer found. (`calm` excludes both.) `t_wait_start` tests the state and then waits: a
notification in between is lost (`threads.c:133`). `TS_DEAD` is set before the last accesses, so that
`t_destroy` does not wait for them (`threads.c:116`), and `t_event`, on the stack of the waiter, may
be notified after it is gone, or read a second time as `NULL`.

## 6. Not modelled

`PROJECT.json` lists every component with the reason. In short: parsing, logging, module loading,
host information and trace conversion are sequential I/O; libjson is third party; the Scala pages
and actors are demonstration code; `tsloadd` unpacks arguments and calls the tsload API. They make
up more than half of the repository's lines.

Of the components that are modelled: the registry of pools, `tp_init` and `tp_fini`;
`unconfigure_all_wls` and `unconfigure_threadpools` at the end of `do_load`, which call
`tsload_unconfigure_workload` and `tp_destroy` (both in `ThreadPool`) for each name; the destruction
of the workers' mutexes before the control thread is joined; the request report file. Of the memory
pool, the slab caches: they allocate with the bitmap functions that `FragPool` models.
`mempool_libc.c`, which replaces the memory pool unless `--enable-mempool-alloc` is given, forwards to
`malloc`. `ts_init` never sets a subsystem's state to `SS_OK`, so that `ts_finish` finalises nothing;
what the `*_fini` functions would do is therefore no behaviour of the program. Linked lists appear
as sequences.

## 7. Plan

Done: `StepRing`, `StepFifo`, `StepQueue`, `SyncFifo`, `SyncQueue`, `RequestDelivery`, `ThreadPool`,
`RunTsload`, `HashMap`, `AgentClient`, `LoadServer`, `FragPool`, `HeapTree`, `HeapPages`, `Threads`, and
the proofs of section 4. Next, in this order:

1. `SlabCache`: reservation of items on a page, the list of pages, the bitmap as `FragPool` gives it.
2. `Teardown`: the end of `do_load` on top of `ThreadPool`; then `StartUp`: order and partial failure.
