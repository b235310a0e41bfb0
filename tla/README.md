# A TLA+ model of docker-clash

The repository packages three services behind one nginx: SubConverter-Extended (a C++
server that turns proxy subscriptions into client configurations), zurl (short links,
Python) and sub-web-modify (a Vue page). What is hard to get right is in the first: a
server that coalesces equal requests, shares the fetches of what they need, schedules
conversions by cost, and lets every one of these be cancelled by a client, a deadline or
a shutdown. This directory models that part, and the updater that comes with its portable
packages, which exchanges whole program directories under the feet of a user who may pull
the plug. All paths below are relative to `src/SubConverter-Extended/src`, the updater's to
`src/SubConverter-Extended/bridge/cmd/portable-updater`.

## The system

A `/sub` request passes through

    HTTP server -> RequestContext -> ConversionService::convertSubscriptionAsync
      -> micro-cache, then the singleflight registry g_async_sub_inflight
      -> WorkloadScheduler (request flow): the conversion of the request that owns the call
           -> ruleset executor, script runtime
           -> webGet / webGetOwnedAsync -> cache files, CurlMultiEngine
      -> publication to the owner and its followers

| part | state | operations | what is hard |
|---|---|---|---|
| `WorkloadScheduler` (`utils/workload_scheduler.h`) | three FIFO queues, credits, a rotating pointer, counters, `stopping_`, workers on a condition variable | `submit`, `submitAsync`, `takeTaskLocked`, `workerLoop`, `requestShutdown`, `join` | notifications after the unlock, a drain that releases the lock for every task, cancellation read again without the lock, starvation |
| shared cache fetch (`handler/webget.cpp`: `CacheFetchOperation`, `webGetOwnedAsync`) | `cache_fetches`, and per operation done, abandoned, consumers, callbacks, a cancellation token | attach, subscribe, unsubscribe, release, publish, erase; the owner's continuations | reference counts against cancellation, the last one leaving against publication, subscriptions recorded late |
| asynchronous singleflight (`handler/interfaces.cpp`) | `g_async_sub_inflight`, and per call phase, consumers, result; gauges | `convertSubscriptionAsync`, detach, publish success or failure | two lock sections around the attaching, retries, an owner that leaves while others stay |
| synchronous singleflight and micro-cache (`handler/interfaces.cpp`) | `InflightSubRequest` futures; LRU list with TTL and bytes | lookup, store, evict, prune | as above, with futures |
| `RequestContext` (`server/request_context.h`) | token, deadline, callbacks, stage, final state | register, cancel, `tryFinish`, finalize | a deadline, a client that leaves and the shutdown compete; `drain_on_shutdown` is read before the exchange |
| Beast server (`server/webserver_beast.cpp`, `main.cpp`) | sessions, admissions, the pool's queue, `stopping` | accept, read, admit, respond, keep alive, stop, drain | one io thread, a pool and the main thread; the order of shutdown |
| CPU permits (`utils/cooperative_cpu.h`) | permits, waiters, limit | acquire, release, `setLimit`, cooperative wait, shutdown | a permit that must come back after every wait, whatever ends it |
| `BoundedExecutor` (`utils/bounded_executor.h`, `handler/multithread.cpp`) | bounded queue, workers | `trySubmit`, `submitUntil`, shutdown | those who wait for room hold what makes room |
| `ConcurrentLruCache` (`utils/concurrent_lru_cache.h`) | entries, LRU, in-flight futures | `getOrCompute`, `clear`, insert | value, promise and registration end in three critical sections |
| `CurlMultiEngine` (`handler/webget.cpp`) | pending, delayed and active transfers, one worker, wake-ups, gauges | `submit`, the worker's loop, retries, pruning, `shutdown` | wake-ups lost, a cancelled transfer waiting for a slot, a shutdown while the engine is being constructed |
| curl handle pool (`handler/curl_handle_pool.cpp`) | free handles, a count | acquire, release | a slot counted before the handle exists |
| cache files (`handler/cache_storage.cpp`) | body, header, marker | `updateCacheFiles`, read | a crash between two writes |
| portable updater (`install.go`, `main.go`, `platform_*.go`) | root, staging, rollback, the path aside, `pending.json` | apply, rollback, recover | a crash between two renames, an exchange that fails half-way and is undone |
| resource governor, authentication limiter, statistics, settings | counters, levels, snapshots | sampling, evaluate, record, publish | little concurrency, each under one mutex |
| `webserver_httplib.cpp` | the library's threads | route dispatch | the library's |
| parsers, generators, scripts, zurl, front end | — | text to text, packaging | out of a model checker's reach, or too simple |

What makes each of the modelled parts correct:

- *scheduler*: an accepted task is answered exactly once and is never lost or held twice;
  the limits are kept; nothing starts once a cancelling shutdown has begun; expensive
  requests are not starved; shutdown ends;
- *fetch*: one fetch of a resource at a time; the count of consumers is exact; a fetch is
  abandoned only when nobody wants it; every caller is answered; a key never gets stuck;
- *singleflight*: one conversion of a key at a time; it is cancelled only when nobody wants
  it; nobody is told of a failure that was another's cancellation; every request is
  answered and has left what it was in; the gauges are exact;
- *transfers*: an accepted transfer is answered once, and for a reason that exists; the
  worker does not sleep over work; no cancelled or timed transfer is left waiting for a
  slot unwatched; a shutdown ends and leaves no worker behind;
- *permits*: none is lost or made up; nobody waits with one; who computes without one was
  refused it, for a reason, and takes and returns none any more; whoever waits, for room, an
  answer or a value, waits for somebody who can go on;
- *server*: sessions, admissions and outcomes are exact and within limits; every request
  gets one outcome; a shutdown reaches every request, spares responses under way, and ends;
- *updater*: a release that works is always in the root or where `recover` looks; `recover`
  understands what a crash has left; the user's files are carried along.

## Modules

| module | models | role |
|---|---|---|
| `TaskSelection` | `normalizedCost`, `queueIndex`, the weighted choice of `takeTaskLocked` | operators shared by the two next modules |
| `SelectionFairness` | the three queues as lengths, arrivals and pops for ever | abstracts everything but the choice, to bound overtaking |
| `WorkloadScheduler` | the whole of `workload_scheduler.h`: submitters, workers, one shutting-down thread | uses `TaskSelection` |
| `TaskService` | nothing in the code: what a submitter may rely on | implemented by `WorkloadScheduler` (`Service == INSTANCE TaskService WITH ...`) |
| `CacheFetch` | `webGetOwnedAsync`, `CacheFetchOperation`, `OwnedWebGetAsyncConsumer`, the owner's continuations | |
| `SharedFetch` | nothing in the code: what the callers of one resource may rely on | implemented by `CacheFetch` (`Shared == INSTANCE SharedFetch WITH ...`) |
| `AsyncSingleflight` | `convertSubscriptionAsync` for coalescing requests of one key, `detachAsyncSubRequestConsumer`, the publications | |
| `SharedConversion` | nothing in the code: what equal requests may rely on | implemented by `AsyncSingleflight` (`Shared == INSTANCE SharedConversion WITH ...`) |
| `TransferEngine` | the whole of `CurlMultiEngine`: submitters, the worker, three sources of shutdown | uses nothing; justifies `CacheFetch`'s assumption about transfers |
| `TransferService` | nothing in the code: what a caller of the engine may rely on | implemented by `TransferEngine` (`Service == INSTANCE TransferService WITH ...`) |
| `HttpSessions` | `BeastSession`, listener, admission, pool, `RequestContext`'s cancellation, `server_stop` and `main`'s part in it | |
| `CooperativeCpu` | `CpuPermitGate`, `CpuPermitLease`, `waitWithoutCpuPermit`; `BoundedExecutor` and `ConcurrentLruCache` as a conversion meets them | composes the three |
| `PermitPool` | nothing in the code: what permits are for | implemented by `CooperativeCpu` (`Pool == INSTANCE PermitPool WITH ...`) |
| `PortableUpdater` | apply, rollback and recover of `install.go`, with `platform_linux.go` or `platform_windows.go` | |
| `Installation` | nothing in the code: what the user of the updater has | implemented by `PortableUpdater` (`Installed == INSTANCE Installation WITH ...`) |
| `*_proofs` | | theorems about the module they extend |
| `MC*` | | values of the constants, symmetry |

Everywhere an action is one critical section of the code, or one effect between two of
them (calling a completion, notifying, firing a token); program counters name the place
where a thread is. `"\* Mutant: ..."` marks an operator that is a plausible defect of
the operator after it. It is used by no specification: for every property of a passing run
PROJECT.json names the one that breaks it when it takes the place of the correct one.

### WorkloadScheduler

State of the object: `queues`, `queuedEntries`, `queuedBytes`, `active`, `accepted`,
`rejected`, `cancelled`, `credits`, `next`, `stopping` are the members of the same
names. `stage`, `verdict`, `result` follow a task from its construction to the call of
its completion; `verdict` is what `submit` returns and `result` what the completion (or
the promise) gets. A task is `prepared` when `enqueued_at` has been read, before the lock.
`Admission` lists the refusals in the code's order. A worker is `idle` (about to take the
lock), `asleep`, `checking` (it holds a task and looks at token and deadline without the
lock), `running`, `counting` (between the completion of a cancelled task and
`++cancelled_`), `finishing` or `exited`. `NotifyOne` is a separate action, which wakes one
sleeping worker or none if nobody sleeps; workers may also wake for no reason.
`requestShutdown(true)` zeroes the counters, and then the thread pops a task, releases the
lock, cancels the task, and takes the lock again.

The round-robin counter is kept modulo 3. The code's second round of probes and its final
fallback cannot be reached after a refill: lemmas `ChosenIsBusy` in
`WorkloadScheduler_proofs` and, with the rotation, `ChosenExists` in
`SelectionFairness_proofs` are the reason.

### CacheFetch

One key. An operation is a number; `registry` is `cache_fetches[key]`. `call[c]` is where
a caller stands in `webGetOwnedAsync`; `fin[c]` is where the completion of its consumer
stands: whoever claims it (`by[c]`: a thread of the request, or operation `o`'s
publication) unsubscribes, releases the attachment, perhaps cancels the work, and then
calls it. The two run concurrently: a call may be answered by its cancellation while it is
still attaching. The owner's work is `load`, `network`, `fallback`, `finalize`, `store`,
`publish`, `invoke`; the scheduler may refuse a continuation, the network and the files may
fail, all nondeterministically. Publication calls callbacks one at a time, each to its end.

`SharedFetch` is what this is for, in atomic steps: a caller takes the fetch that can be
found or begins one, joins it while it is under way, is told once, and leaves; a fetch is
given up when the last one leaves before it has a result, it ends only while somebody wants
it, and every caller is told what the fetch it took came to, or of its own cancellation and
nobody else's. One clause is there for the code's sake: a fetch may end as `NotStarted`, but only
because a caller that had taken it was cancelled (the second of the *Findings*). A caller may
look again only when what it took was given up. In the mapping an operation has a result when it
is published and not abandoned (`Published`): what an abandoned one publishes reaches nobody.

### AsyncSingleflight

One key. `phase`, `members`, `hasResult` are the fields of an `AsyncInflightSubRequest`;
a request makes at most one call, so a call bears the name of the request that made it.
`pc[r]` is where a request stands in `convertSubscriptionAsync`: it may find a call to
follow, prepare, register its cancellation, lock the call again and be too late, erase the
call and start over. `fin[r]` is where the thread stands that claimed its completion, step
by step through `detachAsyncSubRequestConsumer`. The micro-cache is one entry that may be
stored, refused, evicted or expire at any time.

`SharedConversion` says what this is for, with no registry, phases or claims: one conversion
runs at a time; who comes before it has a result joins its group; it gets a result only
while somebody is in the group, fails only by running to its end, and is given up when the
last one leaves; everybody in the group is told once what became of it, or of their own
cancellation, and a request in no group may be refused, or given the result of an earlier
conversion. The mapping takes as running the registered call while it accepts or publishes,
and as its group the members and those a publication has taken but not yet answered.
A request is told at the moment its completion is claimed; the call of the completion is not
seen, and that it is called once follows from claiming it once.

### TransferEngine

`pending`, `delayed`, `active` are the engine's three containers, kept as sets: any waiting
transfer may get the next slot, of which the code's oldest is one. `stage` is the place of
the worker in its loop (prune what waits, start and visit transfers, let curl perform, sleep
with or without a timeout, leave); `batch` and `cur` are the transfers it is still to finish
and the one it is finishing, with `verdict` the reason. `sub[t]` follows a submission
through `submit`, before and after its lock section; `registered` and `firing` follow its
cancellation callback, which sets `prune` and wakes the worker.
`noted` stands for the deadlines behind `next_pending_deadline_ns_`. `creator` is the
thread that constructs the engine and finds at the end that a shutdown was requested
meanwhile, `main` the one that stops the server; a completion may ask for it as well.

What curl makes of a transfer, whether its failure is worth a retry and when a deadline
passes are the environment's choice.

### HttpSessions

All handlers of the io context run on one thread, so each is one action. `conn[s]` is what
session `s` is doing, from the accepted socket over `reading`, `pooled` (its job is in
`jobs`), `processing` and `routed` (a route has it) to `writing`, and again to `reading`
when the connection is kept alive. `context`, `reason`, `drain`, `final` are the fields of
the request's `RequestContext`. `OnRead` has three ways: to the pool with an admission
(`admitted[s]`), to the pool without one, which is `/healthz` with a method other than GET and
HEAD, and an answer at once. Both ways to the pool arm the two observers (`armed[s]`). An answer
given at once takes two steps (`replying`), the one handler that is not a single action: the
main thread may copy or look at a context that exists but is not yet in its stage Send, and no
other handler runs in between. Whether the target is `/healthz` is not recorded, so any pooled
request may be one without admission and may be handed to a route; that is more than the code
does, and what the properties say holds of it. The main thread's `cancelAllActiveRequests` reads
`drain_on_shutdown` and then exchanges the reason, in two actions (`checked` is the request
in between); it posts `stop`'s handler, which closes the listener and posts `beginShutdown`
to every session; it joins the pool, waits for the drain until its three seconds are over
(at any time here), and stops the io context. A route answers once: for conversions
`AsyncSingleflight` shows it. That a route might answer twice is excluded by its contract;
`HttpSessions` does not show what would happen then.

### CooperativeCpu

One cached key, and one task in the executor per conversion. `todo[c]` is what a conversion
still has to do, in any order: submit a task and get its answer, use the cache, fetch
something (`Plans` says what there may be to do). `Wait` gives a permit back only if it is
held, and remembers the wait (`released[c]`, the `permit_` of a `ScopedCpuWait`); `Resume` asks
for a permit again only if one was given back. The conversion is then `blocked` until it gets
it, or is refused because it was cancelled or the gate is stopping. Who is refused unwinds with
`SchedulerSubmitError` (`TurnedAway`), but not always to the end: `render_template`
(`generator/template/templates.cpp:503`) catches whatever a fetch of the template throws,
`proxyToStash` (`generator/config/subexport.cpp:3956`) what comes of the answer of a task or of a
cached value, and the wrappers of the functions given to scripts do the same for their fetches.
The conversion then computes on without a permit (`CarriesOn`), possibly through more waits, and
ends as "unpermitted". So the conversions that compute may exceed the limit once some were
stopped, and the limit bounds the permits, which is what the properties say. That `compute()` of
`getOrCompute` does not wait is so in both of its uses: converting a ruleset, and parsing a
configuration, which is cached only if it imports nothing (`isExternalConfigCacheableContent`).
Clearing and evicting the cache may happen at any time. Waking is left to fairness: each of these
waits has a timeout or a predicate, read under the mutex that every change takes.

`PermitPool` is a set of holders and a limit: a permit is given out only while fewer than
the limit are out, lowering the limit takes none away, and who was refused one, with the reason
that it was stopped or the pool is closed, takes no other. The mapping counts as refused also
a conversion that goes on without a permit. In the code the test is on a
counter, so the mapping to the set of those who hold a lease is worth a proof.

### PortableUpdater

A directory on disk is a tree: which release it holds and how recent the user's files in it
are. One action is one change of the disk (a rename, `renameat2`, the writing or removal of
`pending.json`, the removal of a tree, which a crash leaves as debris) or a decision between
two. The platform is chosen in `Init`. A validation may fail at any time, also for a release
that has worked elsewhere. `MaxCrashes` and `MaxFaults` bound the deaths of the updater and
the calls of the file system that fail; the file may be in place although writing it was
reported to have failed. The user's edits, the application and the launcher, which refuses
to start with a transaction open, run in between. One updater runs at a time: the lock
file is taken for granted.

`Installation` is the same seen by the user: a current release, the one to go back to, an
update that is open or not, and the releases that have worked in place. An update is
committed, once the new release has worked, or undone. The mapping takes the release named
`old` in `pending.json` as the current one for as long as the file is there, so the moment at
which everything is decided is its removal. An update that is undone leaves both releases as
they were, with one exception the code has and the specification names (`GiveUpPrevious`):
once the new root has been proven, the rollback directory is emptied for the old root, and a
crash and a failed revalidation may still undo the update after that. After a failing call
of the file system nothing is promised (`reliable`), because the exchange back may have
failed, see *Findings*. In the window `OldRootRetained` names the update stays open.

## Runs

| run | checks | instance |
|---|---|---|
| `selection` | `FairInv`, `BoundedOvertaking` | the code's weights 8, 4, 1; queues of up to 2 |
| `scheduler` | `SchedInv` (with `OnePlace`), `Accounting`, `JoinedMeansSettled`, `NothingStartsWhileDraining`, `ImplementsService` | 3 tasks, 2 workers (symmetric), 2 entries, 3 bytes, clock 0..1; 1.3 million states |
| `scheduler_live` | `AcceptedIsAnswered`, `WorkersLeave` | 2 tasks, 2 workers, fair |
| `fetch` | `FetchInv` (with `SingleFlight` and `ConsumersCounted`), `AnsweredHasLeft`, `ForgottenOnlyByAbandoned`, `ImplementsSharedFetch`, `CallsAnswered`, `RegistryDrains` | 2 callers, 2 operations, fair |
| `fetch_forgotten` | `NobodyForgotten`, violated | same, see *Findings* |
| `fetch_survivors` | `SurvivorsUnaffected`, violated | same, see *Findings* |
| `singleflight` | `SingleInv` (with `SingleFlight`), `WorkIsWanted`, `CancellationIsPrivate`, `NobodyForgotten`, `AnsweredHasLeft`, `GaugesExact`, `ImplementsSharedConversion` | 3 requests (symmetric); 2.2 million states |
| `singleflight_live` | `EveryoneAnswered`, `RegistryDrains` | 2 requests, fair |
| `transfers` | `EngineInv`, `NothingOverlooked`, `ImplementsTransferService`, `EveryTransferAnswered`, `ShutdownEnds` | 2 transfers, one timed and cancellable, window 1, 1 retry, fair |
| `updater` | `NothingIsLost`, `RecoverKnowsWhatToDo`, `EditsAreKept`, `UpdatesAreAtomic` | 3 releases, 2 edits, 2 crashes, 1 fault, both platforms; 2.4 million states |
| `cpu_permits` | `CpuInv`, `ImplementsPermitPool`, `EveryConversionEnds` | 2 conversions, one with a task and the cached value to get, the other with a fetch and the value, or a task; limits 1 and 2, one change of it, queue of 1, 1 worker, fair; 0.7 million states |
| `http` | `ServerInv`, `ShutdownReaches`, `DrainIsSpared`, `EveryRequestEnds` | 2 connections, 2 requests in all, admission 1, 1 pool thread, fair; 0.4 million states |

Run one with `tlc -config MCWorkloadScheduler_live.cfg MCWorkloadScheduler`, and check the
proofs with `tlapm WorkloadScheduler_proofs.tla`. No run checks deadlock: with a bounded set
of tasks, callers or requests each of these models ends.

**Bounds and why they are enough.**

- *Scheduler.* Two tasks share the High queue and one is unclassified, so order within a
  queue, choice between queues and the class mapping all occur. Three tasks against two
  entries hit `EntryLimit`; 1+2 bytes fit in 3, and a third task that needs all 3 hits
  `ByteLimit`. One tick separates before from after the one deadline, and makes a head old
  enough for the ageing rule. Two workers are the least that can both be asleep, or one
  asleep while another takes the task it is woken for. The theorems hold for all constants,
  so the bounds only limit liveness.
- *Fairness of the selection.* The queues need two tasks for one to stay busy when popped;
  credits 8, 4, 1 are the code's. The theorem holds for any positive weights and bound.
- *Fetch.* Two callers are enough for an owner and a follower, either of them last; two
  operations for one that is abandoned or finished and its successor. A third operation
  would have to follow two retries.
- *Singleflight.* Three requests: an owner that leaves, a follower that stays and another
  that arrives late; there is no bound on retries. The liveness run has two, for its size.
  The invariants of *Fetch* were also run once with three callers (6.8 million states,
  symmetric); the theorems hold for any number in both.
- *Transfers.* One slot for two transfers is the least that makes one wait, be pruned or run
  into its deadline there; one retry the least that makes one be delayed. Three sources of
  shutdown meet in every order. The theorems hold for any number, window and retry limit.
- *Updater.* A third release is needed for an upgrade over a rollback copy of yet another
  one; two edits tell an early from a late copy; the second crash falls into the recovery from the
  first. It was also run with three crashes, and with two faults:
  `OneFailureTolerated` is as strong as it can be, since two failing calls on Windows (the
  second rename, and the one that undoes the first) leave no root, and what follows can lose
  both directories. For crashes and releases the theorems replace the bounds.
- *Permits.* Two conversions with one permit are the least that can wait for each other in
  the cache or in the executor; with two permits they meet in the gate. A fetch and a task
  before or after the cached value are enough for a refusal that is caught and a wait without
  a permit after it. All properties were also run with two conversions that both submit and use
  the cache, one of them fetching as well (1.3 million states).
- *Server.* Two connections against one admission and one pool thread make one be refused
  and one wait in the pool, behind it or without an admission; a second request on the same
  connection makes the first one's context the past, and with one on each the two compete.
  `MaxRequests` bounds the requests of both connections together. The theorems hold for any
  number of connections, limits and requests.

**Fairness.** Weak fairness of every thread that can take a step: the operating system runs
threads, a condition variable that is notified wakes a waiter, a task's function returns,
the transfer engine answers each transfer (curl timeouts bound them) and the scheduler
each continuation (`AcceptedIsAnswered`). Nobody has to arrive, submit, cancel or shut down,
time need not pass and a cached entry need not expire. A cancellation that has been
requested does run its callback. In `HttpSessions` reads and writes end (they have timeouts),
routes answer, and the three seconds of the drain pass; in `CooperativeCpu` a task of the
executor returns and a fetch ends (`EveryTransferAnswered`). `PortableUpdater` assumes no fairness and has safety properties only.

## What is proved

For every value of the constants that satisfies the stated assumptions (finite sets, distinct
markers, positive weights and limits):

- `SelectionFairness_proofs`: `NoClassStarves`, i.e. a busy queue is overtaken by credit at
  most once per credit of the other queues and once more (13 times for High, with 8, 4, 1).
  `BoundedOvertaking` is not inductive: it must say how many overtakings are still possible.
  `FairInv` therefore adds a budget: without credit, the overtakings so far and the others'
  remaining credits stay within their weights; with a credit, the distance of the rotating
  pointer is added instead.
- `WorkloadScheduler_proofs`: `SchedulerInvariant`, from which `EveryTaskInOnePlace`,
  `JoinedSchedulerIsSettled`, `DrainStartsNothing`; and `SchedulerImplementsService`, the
  refinement of `TaskService`. `OnePlace` needs to know which stage a task has when a worker
  in a given place holds it and what a shutting-down thread has done: `SchedInv` adds this
  (`TaskInv`, `WorkerInv`, `StopInv`) and the two counts the guards depend on (`CountInv`):
  without `queuedEntries` being the number of queued tasks, a worker could leave with tasks
  waiting. The bound on waiting tasks in the refinement includes the one the drain has
  popped; the bound on running tasks follows from an injection of tasks into workers.
  `CountersAreExact` proves `Accounting`. The byte counter is a sum, and sums by induction
  are out of the prover's reach; so the model counts the bytes of a set of tasks one by one
  (`ByteUnits(S)`, the set of pairs of a task and the number of one of its bytes), and adding
  or removing a task adds or removes a disjoint interval. What had to be added to the
  invariant is which stage and verdict a cancelled task has between the two updates it causes.
- `CacheFetch_proofs`: `FetchInvariant`, from which `OneFetchAtATime` and
  `AttachmentsCounted`. `ConsumersCounted` needs to know that every release is made by
  somebody who holds an attachment, which passes from the call to its consumer in `Bind`
  (`CallInv`, `FinishInv`); `SingleFlight` needs that only finished or abandoned operations
  are erased (`OpInv`, `call[c] = "forget" => abandoned`). `AnsweredCallHasLeft` and
  `OnlyAbandonedForgets` rest on a stronger invariant, `ReturnInv`: a callback recorded
  after the completion was claimed is taken back by the thread that finds it (`LeaveInv`,
  `CallbackInv`), and an operation has one owner, who starts it once, so that the list a
  publication works through is never overwritten (`OwnerInv`, `WaitInv`, `WorkInv`).
  `CallersShareFetches` is the refinement of `SharedFetch`. It needs, beyond `ReturnInv`
  (`SharedInv`), that a call is told of a cancellation only if it was its own (`ToldInv`);
  that it looks for another operation only when its own was abandoned (`SeatInv`); that
  "nobody wants it" is published only where that is so, and "not started" only where a caller
  of the operation was cancelled (`PayloadInv`); that a callback which is still to be called
  keeps its caller's attachment, so that no publication answers from an abandoned operation
  (`TakenInv`); and that an operation under way on which work goes on is attached to
  (`KeptInv`). What each step tells one caller is one lemma (`Tellings`), and which abstract
  step each action is another one each: `FindIsFind`, `AttachIsJoin`, `PublishIsEnd`,
  `EraseIsClose`, `ReleaseIsLeave`, `ClaimIsTell`, `ClaimIsTellOwn`; the rest are stutters.
- `AsyncSingleflight_proofs`: all invariants of the run, proved together as one
  inductive invariant, because each needs others: `NobodyForgotten` that a call is
  abandoned only without consumers (`WorkIsWanted`), `CancellationIsPrivate` that the
  members of a call bear its name in `local`, `GaugesExact` that a release is made once.
  `RequestInv`, `FinishInv`, `CallInv` and `ConsumerInv` name for every place of the
  program what the thread there may rely on. `SingleflightImplementsSharing` is the
  refinement of `SharedConversion`. It needs two more facts (`SharedInv`): whether
  a call has a result agrees with what its conversion returned, at each place of the
  publication (`ResultInv`), and what the micro-cache holds stems from a call that has one
  (`CacheInv`). One lemma for each kind of
  step (`ClaimStep`, `LookupStep`, `AttachStep`, `DetachStep`, `PublishStep`, `TakeStep`,
  `AnswerStep`) says which abstract action it is; the rest are stutters.
- `TransferEngine_proofs`: `EngineInvariant`, `NothingIsOverlooked`, and
  `EngineImplementsService`, the refinement of `TransferService`. The run's two
  invariants are inductive together: `WorkerInv` says what the worker holds at each stage,
  `ClosingInv` what each of the closers has done, `AnswerInv` which reasons exist and
  `HookInv` which transfers still have a callback.
- `HttpSessions_proofs`: `ServerInvariant`, `ShutdownReachesAll`, and the action property
  `ShutdownSparesResponses`. `ShutdownReaches` needs to know, while the main thread goes
  through the requests, that every request in a route's or the pool's hands is still on its
  list, has a reason, or will find the stop (`InHand`, `Told`). A pooled request need not be
  admitted, so `CountsExact` does not follow from where a session is.
- `CooperativeCpu_proofs`: `CpuInvariant`. What must be added is that a conversion which is
  submitting has nothing else to submit (`SubmitsOnce`): its task has no answer yet; and that a
  conversion has an outcome exactly when it is done (`EndedOnce`). `PermitsExact` and
  `PermitWhereItBelongs` say nothing of a conversion that works with no permit, other than that
  it gives none back and asks for none; `RefusedForAReason` says who these are.
  `GateImplementsPool` is the refinement of `PermitPool`. Which of its steps adds to the refused
  is what its lemmas are about (`RefusedKept`, `RefusedAdds`, `OthersKeep`).
- `PortableUpdater_proofs`: `NothingIsEverLost`, `RecoverIsNeverLost` and
  `EditsAreCarriedAlong`, for any number of releases, edits and crashes. The invariant has
  three layers. `PlaceInv` holds whatever fails: the updater's own transaction agrees with
  `pending.json`. `WeakInv` is what one failing call leaves: both releases of an open
  transaction have been validated, and the root holds one of them unless the two directories
  are beside it. `StrongInv`, without failing calls, knows the place of each tree at each
  point of an exchange, in either direction, and that every tree which may become the root
  has the edits. `UpdaterIsAtomic`, the refinement of `Installation`, follows from the last
  layer. Few steps are visible: writing `pending.json`, a validation that passes, the removal
  of the file, and what `finalizeAppliedRoot` does to the rollback directory
  (`RetainingSteps`). Each is an abstract action whatever crashes came before, and all others
  are stutters (`StagingKept`, `InsideSteps`, `OutsideSteps`). It added to the invariant that
  apply installs a newer release only, and where the two releases are when the file is
  removed.

**Only model-checked**: every liveness property, since the prover has no rules for fairness.
Every other property of a passing run is a theorem, or a named part of one.

## Findings

- **A caller that is never answered** (`fetch_forgotten`). `CacheFetchOperation::subscribe`
  (`handler/webget.cpp:229`) tests `abandoned_` before `done_`; `attachConsumer` (line 175)
  tests `done_` first. A caller that finds an operation which its last consumer abandoned,
  and whose work has published since but has not been erased yet, is told "completed" by the
  first and 0 by the second: it returns bound to an operation that will not call it. The
  lambda that held its consumer is dropped, the callback registered with the request holds
  the consumer weakly only (lines 4007-4011), and the consumer is gone as `webGetOwnedAsync`
  returns (line 4701): nothing answers the call any more, the cancellation of its own request
  included (`ConsumerLives`). The test of several consumers
  (`tests/settings_snapshot_test_helper.cpp:327-329`) requires one answer for each.
  `ForgottenOnlyByAbandoned` and `CallsAnswered` show that this is the only such situation.
- **An owner's cancellation reaches its followers** (`fetch_survivors`). An owner that is
  cancelled after it registered the operation and before its consumer is bound publishes
  "async owned cache owner cancelled before start" (`handler/webget.cpp:4634`) to whoever
  attached in between. `handler/webget.h:104` says that one consumer's cancellation cannot
  invalidate the payload of the others, and the test cited above expects it of them.

Both need a cancellation within a few instructions. At this commit `webGetOwnedAsync` is
called only by that test helper, so no client can meet them yet.

Two smaller disagreements have no run of their own, since they are about a message and about
a stop that loses nothing:

- `install.go:120` reports "the previous portable root was restored" also when the exchange
  back has failed; `pending.json` is removed then, so that no later `recover` tries again.
- Between the rename that retains the old root and the removal of `pending.json` a crash
  leaves a state that `recover` refuses ("cannot safely reconcile") and the launchers will
  not start from, although the new root is in place and proven. `RecoverKnowsWhatToDo`
  names this one exception (`OldRootRetained`).

On Linux an update may run beside the application: what that writes after its files were
copied stays in the old root. `EditsAreKept` is therefore about edits made while no
transaction was open and no updater ran.

## Plan

Done, in this order: `TaskSelection`, `SelectionFairness`, `WorkloadScheduler` with
`TaskService`, `CacheFetch`, `AsyncSingleflight`, `TransferEngine` with `TransferService`,
`PortableUpdater`, `CooperativeCpu`, `HttpSessions`, the abstract specifications
`SharedConversion`, `Installation`, `PermitPool` and `SharedFetch`, and the proofs listed above.

Left, by importance:

0. An abstract specification of `HttpSessions`, with its refinement proved.
1. `CacheStorage` with crashes: a reader after a restart never combines a body with another
   fetch's headers.
2. `MicroCache`: bytes and LRU order, and the same of `ConcurrentLruCache`. The synchronous
   singleflight and the synchronous consumers of `CacheFetch`.
3. `CurlHandlePool`, the limiter of dashboard logins, the continuation runtime of
   `webGetOwnedAsync` (two instances of `WorkloadScheduler` behind a gate).
4. The updater's lock file, with two updaters.
5. `trySubmit` and submissions from a worker in `BoundedExecutor`; the stages, bytes and
   capacity flags of `RequestContext`.

## Not modelled, and why

- Parsers, generators, scripts, user agents, proxy policy: text to text, their inputs are
  too large for a model checker and they keep no state.
- Front end, nginx, packaging, zurl's one table: no behaviour of their own worth a model.
- Within the modelled parts: wording of errors, statistics of the dashboard, latency
  samples; weak memory order (the races of these parts are decided under
  a mutex or by one exchange of a flag); failure of allocation; objects freed early (a consumer whose
  call is gone only decrements its own gauge).
- In `CacheFetch` several keys at once: keys share only the map and its mutex. In
  `AsyncSingleflight` the requests that do not coalesce: they are one `submitAsync` each.
- The httplib server: its threads, queue and keep-alive are the library's. The order of
  `main`'s shutdown is modelled with the Beast server, which is the default.
- In `PortableUpdater`: the selection and download of a release, the schedule of `auto`, and
  the lock, which is read, removed and created in three steps that two updaters may
  interleave.
- `PROJECT.json` names, for each hazard without a property, why there is none.
