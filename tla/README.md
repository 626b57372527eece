# A TLA+ model of lthread

lthread is a coroutine library in C. Each pthread that uses it runs a
*scheduler* (`lthread_run`), which multiplexes *lthreads* (coroutines with a
stack of their own) over that pthread, parks them on timers, condition
variables, sockets and disk IO, and resumes them in turn. This directory holds
the specification of the scheduler and its API, of the services around it (disk
IO, compute schedulers, channels, mutexes, pollers, socket calls) and of the code
they are built from or that is built on them (containers, timers, the resolver,
TCP connections), the TLC runs that check them on small instances, and TLAPS
proofs, for instances of any size, about all of them but the red-black tree, the
byte ring and the resolver.

Paths below are relative to the repository; line numbers are those of the commit
modelled.

## 1. The system

| Component | State | Operations | Interacts with |
|---|---|---|---|
| Scheduler loop, `src/lthread_sched.c` | per pthread: `ready` and `defer` queues, `sleeping` and `waiting` trees, `busy` list, fetched event list, `current_lthread` | `lthread_run` (expire, ready, defer, poll, events), `_lthread_sched_sleep`, `_sched_event`, `_desched_*`, `_cancel_event` | calls `_lthread_resume`; poller; filled by the API and by IO workers |
| lthreads and API, `src/lthread.c` | `struct lthread`: `state` bits, `lt_join`, `fd_wait`, link fields | create, exit, join, detach, detach2, cancel, sleep, wakeup, cond wait/signal/broadcast, mutex | move lthreads between the scheduler's containers |
| Poller, `src/lthread_epoll.c`, `src/lthread_poller.c` | the kernel's interest list (oneshot), the eventfd | register, clear, poll, trigger | scheduler loop; IO workers trigger it |
| Sockets, `src/lthread_socket.c` | none of its own | `LTHREAD_WAIT`, the recv/send loops, accept, connect, close, poll(fds) | `_lthread_sched_event` |
| Disk IO, `src/lthread_io.c` | `IO_WORKERS` queues, one pthread each; `io_selector` | `lthread_io_read/write`, the worker loop | crosses pthreads: worker queue, `defer` queue, eventfd |
| Compute, `src/lthread_compute.c` | a list of compute schedulers with a queue each | `lthread_compute_begin/end`, the compute loop | like disk IO, with pthreads that come and go |
| Channels, `src/chan.c` over `src/fifo.c` | buffer, send and receive queues of selectors | send, recv, select, close | condition variables |
| Circular buffer, `src/fifo.c` | `size`, `next`, `data` | add, remove, peek | used by channels |
| Mutex, `src/lthread.c` | `locked`, holder, a condition variable | create, check, lock, unlock | condition variables, in slices of 3 s |
| Poller (kqueue), `src/lthread_kqueue.c` | a change list, the kernel's knotes | register, clear, poll | the other build of the poller |
| Containers, `src/queue.h`, `src/tree.h` | link fields of the elements | insert, remove, find, minimum | everything above |
| Resolver, `src/dns/cdns.c` | the list of name servers | `dns_lookup` | socket calls |
| TCP connections, `src/mux/tcp_conn.c` | one descriptor per connection | init, dial, read, readfull, write, shutdown, close | socket calls, resolver |
| Byte ring, `src/klib/ringbuf.c`; object pool, `src/common/mem.c` | a buffer with head and tail; a list of free objects | copy in, out, across, append; alloc, free | - |
| Support: the rest of `src/klib`, `src/common`, `src/mux` | - | - | none of it is called by the library |

What is hard here:

* Concurrency without locks. Within a pthread control changes hands only at
  `_switch`, yet everything an lthread reads before a yield may be stale after
  it: a wait can end by event, timeout, signal, close, cancel or the exit of
  another lthread, and whichever comes first has to undo all the others.
* One link field per list. An lthread that is put into `ready` while it is
  there already corrupts the queue; nothing in the code tests for it.
* `state` is a word of independent bits; `EXPIRED` alone tells a timeout from a
  wakeup, and it is set and cleared in the loop, far from the calls reading it.
* Memory. An lthread is freed by the scheduler (detached), by its joiner, or
  never; a joiner and its target point to each other.
* Real threads in disk IO and compute: two mutexes, a condition variable and an
  eventfd between a worker and the schedulers. A compute scheduler also runs on
  the stack of the lthread it was given, and frees itself when it has been idle.
* A select waits on several channels at once: whoever serves it on one has to
  take it off all the others before anybody looks at them.
* Arithmetic that goes wrong only at an edge: keys that collide, seconds and
  milliseconds of a timeout, buffers that wrap, parsers that skip by lengths read
  from a message.
* Error paths: a descriptor opened must be closed on each of them, once.

## 2. The modules

| Module | What it is |
|---|---|
| `Tailq` | the BSD tail queues as sequences (`InQ`, `Distinct`, `TailqRemove`) |
| `LthreadSched` | one scheduler, its lthreads and their API, fd waits, the scheduler's side of disk IO |
| `IoService` | abstract: what a scheduler may expect of disk IO |
| `IoWorker` | `lthread_io.c` with several schedulers and workers as pthreads; implements `IoService` |
| `BoundedFifo` | abstract: a bounded FIFO queue |
| `Fifo` | the circular buffer of `fifo.c`; implements `BoundedFifo` |
| `Compute` | `lthread_compute.c` with several schedulers and compute schedulers as pthreads; implements `IoService` too |
| `Subseq` | subsequences by position, for `Chan` and `ChanService` |
| `ChanService` | abstract: values passed on in order, each at most once |
| `Chan` | channels and select of `chan.c`; implements `ChanService` |
| `Mutex` | `lthread_mutex_*` |
| `SleepClock` | the arithmetic of the sleep tree and of the poll's timeout |
| `Socket` | the calls of `lthread_socket.c`, with the kernel and the peer |
| `Kqueue` | the poller of FreeBSD and macOS |
| `RbTree`, `Queues` | the pointers of `tree.h` and `queue.h` |
| `Resolver`, `TcpConn` | `dns/cdns.c`, `mux/tcp_conn.c` |
| `Ringbuf`, `MemPool` | `klib/ringbuf.c`, `common/mem.c` |
| `MC_LthreadSched`, `MC_IoWorker`, `MC_Compute`, `MC_Chan` | constants for TLC |
| `Library` | the sequential modules with proofs, side by side: `PartsSpec`, `AllTyped`, `ListsSound` |
| `MC_Library` | all the sequential modules on small instances |
| `Tailq_proofs` | lemmas about tail queues, used by most of the proofs |
| `LthreadSched_proofs`, `IoWorker_proofs`, `Compute_proofs`, `Chan_proofs` | theorems and proofs about the scheduler and its services |
| `Containers_proofs` | theorems and proofs about `Fifo`, `Queues` and `MemPool` |
| `Socket_proofs` | theorem and proof about `Socket` |
| `Library_proofs` | theorems and proofs about `Mutex`, `Kqueue`, `SleepClock`, `TcpConn`, and about `Library` |

Operators whose name has the form `Operation_Fault` next to an operation
(`Bury_AlwaysFrees`, `Wrap_Late`, ...) are not part of the model: each is the
operation with a plausible mistake in it. Substituting one for the operation
makes a property of a run fail (`mutants` in `PROJECT.json`), which shows that
the property can tell the code from a broken version of it.

### LthreadSched

`ctl` says whose code runs: the loop, `_lthread_resume` before its `_switch`,
the lthread `cur`, or `_lthread_resume` after its `_switch`. `phase` is the
place in `lthread_run` that called `_lthread_resume`. An action is a stretch of
code without a switch or a call into user code:

* `StartPass`, `Expire`, `ExpireEnd`: step 1 of the loop,
  `_lthread_resume_expired`; `RunReady`, `ReadyEnd`: step 2 up to
  `lt_last_ready`; `RunDefer`, `DeferEnd`: step 3; `PollSkip`, `Poll`: step 4;
  `TakeEvent`, `HandleEv` (once for READ, once for WRITE), `EvChecked`,
  `EventsEnd`: step 5 with its assertion; `RunReturns`.
* `ResumeCancelled`, `ResumeSwitch`, `ResumeExited`, `ResumeYielded`: the paths
  through `_lthread_resume`.
* `lthread_*`: the calls, up to the yield where they have one; `SleepReturns`,
  `CondWaitReturns`, `JoinReturns`, `FdReturns`, `IoReturns`: what a blocking
  call does once it is switched in again. `pc` records which one an lthread is
  in.
* `IoDone` (an IO worker) and `Arrive` (the kernel) are the outside.

Abstractions. Time: a pass picks any subset of the sleepers as due, so every
order of expiry is possible and durations have no meaning (`SleepClock` has
them). The sleep tree is a set; the event tree is the
set `waiting` with `fd_wait` as key. An lthread object is allocated once: reuse
of an address after `free` is not modelled. `LT_ST_READY` is never read and left
out. The memory of a detached cancelled lthread is read once after it is freed
(`lthread.c:164`); the model uses the value before, as the allocator leaves it.
Assertions that fail set `phase` to `"abort"`.

The client contract. The code gives its promises only to programs that stay
within certain limits, most of them nowhere documented. They are the predicates
`MayJoin`, `MayDetach`, `MayWakeup`, `MayCancel`, `MayWaitFd`, `MayClose`; each
has a named clause, and a clause listed in the constant `Unguarded` is waived.
None of them is superfluous - with it waived TLC finds the property violated
that is named last:

| Clause | Says | Without it |
|---|---|---|
| `join` | an lthread the scheduler dropped as cancelled is not joined on | the joiner waits for ever (`NoLostLthread`) |
| `wakeup` | only an lthread in `lthread_sleep` is woken | join frees a running lthread (`JoinResult`), cond_wait returns while still linked (`CondWaitResult`) |
| `cancel` | only an lthread parked in sleep, an fd wait or disk IO is cancelled, once | queued twice (`OnePlace`), dangling references (`NoDangling`) |
| `fd` | one lthread at a time waits on an fd | the second registration displaces the first (`NoAbort`) |
| `batch` | the fd of an event that is fetched and not handled is left alone | the assertion of step 5 fails (`NoAbort`) |

Two documented rules are always kept: an lthread has one joiner, and it is
either joined or detached. What the passing runs and the theorems say of
`lthread_cancel`, `lthread_wakeup` and fds, they say of programs within these
limits; they do not catch what happens outside. No clause is about
`lthread_detach2`: that `_lthread_init` drops the mark of an lthread that has not
run yet is shown by `DetachLost.cfg`.

### IoWorker

One pthread per scheduler and per worker; a step touches shared state once (a
critical section, or one access outside any). The model keeps the window between
the worker's test of its queue and its wait, the unprotected `io_selector`, and
the read of `lt->sched` after `lt` was handed back. The library is built with
`-O2` (`CMakeLists.txt:5`), which leaves one store to `io_selector` after the
`%`; a build that stored the incremented value first could index one past
`io_workers`. Of the scheduler only the defer queue, the busy list, the poll and
its end are kept. `IoService`, the abstraction it is shown to implement, is what
`LthreadSched` uses for disk IO (`lthread_io`, `IoDone`, `RunDefer`).

### Compute

As `IoWorker`, with compute schedulers that are made on demand (`MaxSched` of
them), sit in a list under `sched_mutex`, and leave it after 60 s without work.
Inserting an lthread into a queue (`Insert`), leaving its stack (`Switch`) and
letting it run (`_lthread_compute_add`, where `PENDING_RUNCOMPUTE` becomes
`RUNCOMPUTE`) are separate steps, because the compute scheduler looks in between.
`HandBack` puts the lthread on the defer queue and clears its bit; the bits of
the state word are separate sets, so an update of the word that is lost (it is
also written by `lthread_cancel` and by the loop when it clears `EXPIRED`, both
without the mutex) is not modelled. `TimedOut`
makes one timing assumption: no scheduler takes 60 s from one statement of
`_lthread_compute_add` to the next; the compute scheduler would be freed under its
signal otherwise. The constant
`CancelComputing` is a client contract: when it is `FALSE` nobody cancels an
lthread between `lthread_compute_begin` and its return from there.

### Chan

A call runs without interruption up to `lthread_cond_wait`, its only yield; one
action is what happens up to there, or from there to the end of the call. A wait
is a pair of lthread and index into its selector; `sel` is the selector,
`target` the index it was served at. The circular buffer is a sequence, as
`Fifo` justifies. `Expire` may end every wait: `LTHREAD_FOREVER` is a timeout of
some nine hours. The typed wrappers (`chan_send_buf`, ...) differ in what they
free, the same for all types, and are modelled by it (`SendReturns`,
`RecvReturns`). A failed assertion sets `aborted`
(`chan_try_send` asserts that the channel is open, so a send on a closed channel
ends the program). Contract: a channel is disposed of when nobody waits on it.
A blocked sender is not woken when its channel is closed; `NobodyWaitsInVain`
is about the receivers in that case.

`ChanService` sees a channel as the values on offer and the values taken. A
sender's value is on offer from the call on, blocked or buffered; it is
withdrawn when the wait is given up or the select is served elsewhere. A select
may offer several values on one channel; one of them at most is taken.

### The sequential parts

`Library` extends the modules with proofs (`Fifo`, `Queues`, `MemPool`, `Mutex`,
`Kqueue`, `SleepClock`, `Socket`, `TcpConn`), each with a specification of its own
(`QueuesSpec`, `SocketSpec`, ...). `MC_Library` extends `Library` and adds `RbTree`,
`Resolver` and `Ringbuf` as instances; a behaviour is one of one part (`part`),
so their state spaces add up instead of multiplying. Each keeps, besides the
code's state, what the caller is entitled to expect, and the invariants compare
the two.

* `Fifo`: `queue_init`, `_add`, `_remove`, `_peek` with the C indices; slots
  start as garbage, as `malloc` leaves them. `Items` reads the abstract queue off
  the buffer.
* `Mutex`: lock is one step up to its wait; after a wait of 3 s or a signal it
  tests again. Only the holder unlocks (the code prints a message otherwise and
  goes on). `depth` is what the callers believe, `locked` what the code counts.
* `SleepClock`: a second has `K` milliseconds and a millisecond `K` microseconds,
  `K = 3` in place of 1000; `_lthread_poll`'s seconds and fractions are computed
  as in the code. Each lthread sleeps once, as a second sleep is like another
  lthread's. `FreeKey` is the loop over the collisions of `RB_INSERT`, during
  which nothing else runs; that keys are unique follows from it at once, and what
  the module checks is when sleepers wake.
* `RbTree`: insert and remove with every rotation and recolouring; the two
  mirrored halves of a macro are one definition with the side as a parameter.
* `Queues`: the `next` and `prev` fields of tail queues and lists through the
  insertions, the removal, concatenation and swap. `content` is the sequence the
  caller expects at each head; `IsSequence` says that following `next`
  (`Forward`) and following `TAILQ_LAST`/`TAILQ_PREV` or `LIST_PREV` (`Backward`)
  both meet exactly its elements.
* `Kqueue`: change list, flush when full, oneshot knotes, one for each filter of
  a descriptor; and step 5 of the loop above it, which takes only the descriptor
  from an event and resumes whoever waits on it for either filter (`HandleEv`
  twice, then `EvChecked`), with the lthreads it resumes registering and closing
  in between. The contract has three clauses (`KUnguarded` waives them); with any
  of them waived an assertion fails (`NoKqueueAbort`): `fd`, one lthread at a time
  waits on a descriptor; `batch`, who is resumed for an event does not wait for
  the filter `HANDLE_EV` gets to next; `delete`, a wait does not end by timeout or
  cancel while its registration is only in the change list or its event is
  fetched, when `EV_DELETE` fails with `ENOENT`. `lthread_close` is called on a
  descriptor whose registrations are all in the kernel.
* `Socket`: one lthread and one descriptor, with the kernel, the peer, the timer
  and an lthread that closes the descriptor. Every call is the loop of the code:
  `FDEOF`, `_lthread_renice`, the system call, the wait, `EXPIRED`. The kernel is
  external: it moves any number of bytes up to what there is. The array of
  `lthread_writev` is a sequence of regions of the caller's data, which the call
  advances through and cuts as the code does (`Advance`). Two contracts
  (`SocketAssumption`): a length asked for is not 0, and the last iovec of an array
  is not empty. Without the second, `lthread_writev` calls `writev` once more when
  all is written and returns the 0 of that call instead of the number of bytes.
  `lthread_wait_read` and `_write` return -1 when `FDEOF` is set, which
  `docs/socket.rst:156-171` does not know (0 and -2 only); `TimeoutIsReal` exempts
  them.
* `Resolver`: a message is a sequence of cells; the bytes of names are kept, as
  their lengths steer the parser, fixed headers are one cell each. The index `i`
  is used for the servers and within a reply, as in the code. Replies are well
  formed and repeat the one question; host names have no empty label and no
  trailing dot (the loop that encodes stops at the 0 byte behind the dot and leaves
  the dot where the length 0 of the root belongs, so such a query is wrong). What `#if 0` removes is left out.
* `TcpConn`: the operations in `net_conn_base_t` over what `Socket` and
  `Resolver` promise. A connection is closed once.
* `Ringbuf`: pointers are offsets into `buf`; copying in, out of and between
  rings, overflow, `append_into` with its growth.
* `MemPool`: any `calloc` may fail. The counter `total_n` (read by nobody) is left
  out. When the second `calloc` of an object fails, the `mem_obj` of the first is
  on no list and nobody frees it (`mem.c:63-64`): it goes to `lost`.

## 3. What is checked

| Run | Instance | Shows |
|---|---|---|
| `SchedSync` | 3 lthreads, 1 condition variable, all calls but fd waits | `TypeOK`, `OnePlace` (one queue, one party), `NoLostLthread`, `NoDangling`, `CondWaitResult`, `JoinResult`, `RunsUntilAllReturn`, `FreedWhenGone` |
| `SchedFd` | 3 lthreads, 2 fds, both events; create, waits, close, cancel | `FdConsistent` (tree, timers, ready queue and epoll agree on who waits for what, nobody is lost, and epoll will report, or has just reported, the event of everybody in the waiting tree: `Heard`), `NoAbort` (no assertion fails) |
| `SchedLive` | 2 lthreads, 1 condition variable, 1 fd, with fairness | `ReadyRuns`, `TimersFire`, `FdServedWhenPolled` |
| `IoSafe` | 3 lthreads on 2 schedulers, 2 workers | `TypeOK`, `NoSleepOnDefer`, `ResultReady`, `SchedOutlivesJobs`, `IsIoService` (refinement) |
| `Compute` | 2 lthreads on one scheduler or on two, up to 2 compute schedulers, with fairness | `TypeOK`, `OneStackUser` (never two pthreads on one stack), `FreedIsUnused` (a compute scheduler that goes has no work and nobody's pointer), `ComputeCompletes`, `IsIoService` (refinement) |
| `ChanSafe` | 3 lthreads, a channel of capacity 1 and an unbuffered one, 4 values; selects that send and receive, one of them sending twice on one channel | `TypeOK`, `QueuedWhileBlocked` (a selector is on all its queues until served, then on none), `NobodyWaitsInVain`, `EachValueOnce`, `IsChanService` (refinement) |
| `Library` | one instance of each sequential module | `AllTyped`; `IsBoundedFifo` (refinement); `ListsSound` (queues, object pool); `MutualExclusion`, `NobodyWaitsForAFreeLock`; `WaitsAccountedFor`, `NoKqueueAbort` (kqueue); `TimersSound` (sleep tree, timeout of the poll); `CallsReportTruth` (sockets); `ConnectionsSound` (descriptors and full reads of TCP connections); `ContainersSound` (red-black tree, byte ring); `LookupSound` (resolver) |

Five runs show behaviour of the code that disagrees with what its documentation,
its comments or its assertions say (`findings` in `PROJECT.json`):

| Run | Property violated | What happens |
|---|---|---|
| `SchedStarve` | `FdServed` | `_lthread_poll` returns early while anything is ready (`lthread_sched.c:100`): an lthread yielding in a loop keeps all sockets from being served |
| `SchedBatch` | `NoAbort` | two fds: an lthread resumed for one event of a batch closes the fd of the next: `assert` at `lthread_sched.c:252` |
| `IoLost` | `IoCompletes` | a worker between its test and its wait misses the signal (`lthread_io.c:90-120`) |
| `ComputeCancel` | `CancelWaitsForCompute` | the compute scheduler clears `RUNCOMPUTE` of an lthread it has put on the defer queue (`lthread_compute.c:245`): a cancel in between makes it ready a second time |
| `SocketEof` | `ReadsWhatIsThere` | `FDEOF` set by `EPOLLHUP` makes the next read return -1 while bytes are left (`lthread_socket.c:69`) |

Six more configurations show such behaviour and are kept beside the runs (of
`MC_LthreadSched` the first two, of `MC_Library` the others). TLC ends each of
them with the violation named:

| Configuration | Property violated | What happens |
|---|---|---|
| `SchedTurn.cfg` | `NoAbort` | one fd: an lthread resumed for READ waits for WRITE, the second `HANDLE_EV` (`lthread_sched.c:249`) resumes it at once, and the registration left behind fires for nobody |
| `DetachLost.cfg` | `DetachSticks` | `lthread_create` and `lthread_detach2`: `_lthread_init` (`lthread.c:254`) overwrites `DETACH` and the lthread is never freed |
| `ExactShort.cfg` | `ExactOrNothing` | the peer closes part of the way: `lthread_recv_exact` returns a short count (`lthread_socket.c:98`), neither the exact number nor 0 |
| `KqueueShared.cfg` | `NoKqueueAbort` | a reader and a writer on one descriptor: the first event serves both and the second finds nobody (`lthread_sched.c:252`) |
| `KqueueExpire.cfg` | `NoKqueueAbort` | a wait ends before a poll has carried its registration to the kernel: `assert` at `lthread_kqueue.c:65` |
| `ResolverSkips.cfg` | `ServersInTurn` | a reply without an address changes the index of the loop over the servers (`cdns.c:349`): one is skipped or asked again |

Of these, `DetachSticks` is what `docs/lthread.rst:71-81` says of `lthread_detach`
and `lthread_detach2`, `ExactOrNothing` what `docs/socket.rst:80-83` says of
`lthread_recv_exact` ("exact number of bytes", "0 if socket is closed"), and
`ServersInTurn` what the comment at `dns/cdns.c:391` says ("retry the next").
`CallsReportTruth`, which holds, says less of `lthread_recv_exact`: a short count
means that the peer has closed and all it sent is read.

Other behaviour of the kind: with the clause `wakeup`
waived, `lthread_wakeup` on a timed join makes it free a running lthread
(`JoinResult`); an IO worker follows `lt->sched` after `lt` may have been freed
(`TriggerAlive` of `IoWorker`, `lthread_io.c:115`); a send on a closed channel
fails an assertion, and a sender blocked when the channel is closed stays so.

Bounds. Three lthreads are the least with which a third party can interfere
between two that are related (a joiner and its target, a waiter and its
signaller, two waiters in one batch of events); the interplay of one lthread with
the rest is pairwise, and the proofs remove the bound for the properties they
cover. Two fds are needed for a batch with two events. Two schedulers and two
workers give every race on `io_selector` and two jobs in one worker's queue. The
buffer of four slots goes through every offset and filling. In these
modules no counter is cut off: lthreads are allocated once, and the state spaces
are finite. Lthreads are symmetric in `SchedSync`, `SchedFd` and `ChanSafe`, which
check no liveness.

The bounds of the other modules, each a constant in the guards:

* `Compute`: `MaxSched` 2, the least with which one can be leaving while another
  is chosen; a population of two lthreads of one scheduler shares its defer
  queue, one of two schedulers contends for `sched_mutex`.
* `Chan`: `MaxVal` 4 values, enough for a full buffer, a value blocked behind it,
  one in the other channel and one more after a wait was given up. With three
  lthreads one can serve a select two others compete for.
* `SleepClock`: `MaxNow` 26 with sleeps of 1 and 4 ms lets three sleepers collide
  and sleeps cross a second; `RbTree`: eight keys, which reach every case of the
  removal; `Queues`: four elements on two heads of each kind, so that an element is
  first, last, between and alone.
* `Mutex`: `MaxDepth` 2, the least that is nested. `Kqueue`: a change list of two
  entries for six possible registrations, so that it runs full, on three
  descriptors, so that a batch can have an event in hand and another to come while
  a third descriptor is registered.
* `Socket`: `MaxStream` 3 and `MaxRoom` 2 against lengths 1 and 3 give short reads
  and writes; `MaxOps` 3 makes renice happen within a call. The arrays `SmallIovs`
  have an iovec that is written in two pieces, one that is passed over whole, and
  an empty one.
* `Resolver`: two servers, at most `MaxAsk` 4 queries, replies of up to two
  records out of four kinds. `TcpConn`: `MaxFd` 3, `MaxLen` 3: two connections
  and one more descriptor, a read in up to three pieces.
* `Ringbuf`: capacities 3 and 2, data of 2 and 5 bytes (one larger than either),
  `MaxCalls` 4, `MaxSize` 12. `MemPool`: rounds of `PoolN` 2, three of them.

Deadlock is not checked in `ChanSafe`, where all lthreads may be blocked for good
or the values used up, and in `Library`, whose bounded parts come to an end.

Fairness. `LthreadSched`: the scheduler's own code goes on; an lthread gives up
the CPU sooner or later (cooperative scheduling asks this of it); a worker
finishes its jobs; and strong fairness of "the clock has reached this sleeper",
since a pass of the loop reads an advancing clock. Nothing is assumed of the
kernel's events. `ReadyRuns` and `TimersFire` are checked without disk IO: the
loop over the defer queue (`lthread_sched.c:192`) ends only when the queue is
found empty, so lthreads whose IO is always finished in time could hold up the
others. `IoWorker`: each pthread goes on and each pass drains the defer queue;
condition variables need not wake up spuriously, though they may. `Compute`: the
same, and a computation ends, and the idle timer of a waiting compute scheduler
runs out; it is the timer that rescues an lthread whose signal was missed.

## 4. What is proved

For all sets of lthreads, condition variables, fds, schedulers, workers and
channels, finite or not where the code does not bound them:

| Module | Theorems | Under |
|---|---|---|
| `LthreadSched_proofs` | `TypeCorrect` | - |
| | `Invariance`, `FdInvariance`; `OnePlaceHolds`, `NoLostLthreadHolds`, `NoDanglingHolds`, `CondWaitResultHolds`, `JoinResultHolds`, `RunsUntilAllReturnHolds`, `NoAbortHolds`, `FdConsistentHolds`; the action property `FreedWhenGoneHolds` | `Unguarded = {}`: the program keeps the whole contract of section 2 |
| `IoWorker_proofs` | `TypeCorrect`, `Invariance`, `NoSleepOnDeferHolds`, `ResultReadyHolds`, `SchedOutlivesJobsHolds`; `IoRefines`: disk IO implements `IoService` | - |
| `Compute_proofs` | `TypeCorrect` | - |
| | `Invariance`, `OneStackUserHolds`, `FreedIsUnusedHolds`; `ComputeRefines`: compute schedulers implement `IoService` | `CancelComputing = FALSE`; the run `ComputeCancel` shows what happens otherwise |
| `Chan_proofs` | `TypeCorrect`, `Invariance`, `QueuedWhileBlockedHolds`, `NobodyWaitsInVainHolds`, `EachValueOnceHolds`; `ChanRefines`: channels implement `ChanService` | - |
| `Containers_proofs` | `FifoInvariant`; `FifoRefines`: the circular buffer implements the bounded FIFO queue; `IsSequenceHolds` (queues); `PoolSoundHolds` (object pool) | - |
| `Socket_proofs` | `CallsReportTruthHolds` (with the type invariant) | - |
| `Library_proofs` | `MutexInvariance`, `MutualExclusionHolds`, `NobodyWaitsForAFreeLockHolds`; `KqueueTypeCorrect`; `TimersSoundHolds`; `ConnectionsSoundHolds`; `ListsSoundHolds`; `AllTypedHolds`: `PartsSpec => []AllTyped` | - |
| | `KqueueInvariance`, `WaitsAccountedForHolds`, `NoKqueueAbortHolds` | `KUnguarded = {}`: the kqueue contract of section 2; `KqueueShared.cfg` and `KqueueExpire.cfg` show what happens otherwise |

The modules' own assumptions, which TLC evaluates in the runs: null values are
not members of the sets they stand beside (`ConstAssumption`, `IoAssumption`,
`ComputeAssumption`); there is at least one IO worker and an lthread belongs to
a scheduler; capacities are natural numbers, above zero for `Fifo`
(`CapacityAssumption`); a select names at most `LTHR_SEL_CHANS` channels
(`ChanAssumption`), the size of the arrays in `struct lthread_sel`;
`LT_MAX_EVENTS` and `MaxDepth` are above zero (`KqueueAssumption`,
`MutexAssumption`); heads and elements of queues are different cells, none of them
null (`QueuesAssumption`); a round of the object pool makes at least one object
and there are that many (`PoolAssumption`); there are finitely many sleepers, the
unit of time is above zero and lengths of sleep are natural numbers
(`ClockAssumption`); the two contracts of `Socket` and `MaxOps` above zero
(`SocketAssumption`); `MaxFd` and `MaxLen` are natural numbers (`TcpAssumption`).
`LT_MAX_EVENTS`, `K`, `MaxOps` and `PoolN` are constants of the code, `MaxDepth`,
`MaxSched`, `MaxVal`, `MaxObj`, `MaxNow`, `MaxStream`, `MaxRoom`, `MaxFd` and
`MaxLen` cut the model off; the theorems hold for every value of them.

### The arguments

*Scheduler.* None of the properties is inductive: that an lthread is not queued
twice depends on which waits it can be in, that depends on its flags, and those
on when the loop clears them. `IInv` therefore says for each value of `pc` which
containers hold the lthread (`PlacesOK`, `QueuesOK`), which bits are set
(`FlagsOf`), where a waiter is linked until it is signalled or expires
(`CondOK`), how joiner and target hold each other until the target is over
(`JoinOK`), and that a key of the event tree has one owner (`FdOK`). `InvNext`
goes through the actions one by one; `BuryEffect`, `FoundSelf` and `JoinFrame`
carry the steps several actions share, and `Tailq_proofs` says what the list
operations do to membership and distinctness. `DoneOK` is kept apart because it
needs none of the rest.

`NoAbort` needs a second invariant on top, `FdInv`. The assertion of step 5 fails
when an event finds no waiter, so every armed or fetched fd must have its waiter
and each waiter one registration (`ArmedOK`); while an event is in hand and
neither direction has been served, its fd stays disarmed and its waiter in the
tree (`EvOK`). This is where the clauses `fd` and `batch` of the contract are
used. `FdFrame` disposes of the actions that leave fds alone.

*Disk IO.* A job is submitted, in one worker's queue, in one worker's hand, or on
the defer queue of its scheduler, never in two of them (`JobOK`), although
`io_selector` is read and written without a lock: whichever worker a scheduler
picks, the job goes there once. `BusyOK` ties the places to the busy list, by
which the scheduler knows that it may not return. The refinement maps the jobs in
the workers' queues and hands to the pending ones of `IoService`.

*Compute.* The same places (`JobOK`), and the two facts that make the hand-over
sound: `PENDING_RUNCOMPUTE` is set exactly while the scheduler is still on the
stack of an lthread that is already queued (`PendingOK`), and a compute scheduler
that has timed out still finds what was queued before it took `sched_mutex`
(`MutexOK`, `IdleOK`). `TimedOut`'s assumption about the 60 s is part of the model
and so of the theorems.

*Channels.* `IInv` says which wait queues a selector is on (`QueuesOK`, by
membership, with the counters), that a selector has a target exactly when it was
served (`ReadyOK`), that a queue with somebody in it has no partner on the other
side (`VainOK`), and where a value is: asked to be sent by one call (`AskOK`), in
one place of one buffer, or taken (`ValOK`), numbered in the order of the calls
(`FreshOK`). `SendHonest` and `HandedToOne` are inductive together with these.
Queues and offers are subsequences of what they were; the module begins with the
facts about `Kept` that this takes, proved from the well-ordering of the numbers
and the cardinality theorems of the library. For the refinement, `Withdraws` and
`AskedAfter` say what the queue of a channel looks like after one or several
selectors have left all their queues, `Offers`, `Takes` and `Passes` turn that
into a step of `ChanService`, and `NextStep` goes through the actions.

*Mutex.* The properties become inductive with one addition: a blocked lthread
holds nothing (`WaiterHoldsNothing`).

*Kqueue.* That an event finds its waiter depends on nobody else having served it,
and `HANDLE_EV` serves a descriptor for both filters whatever fired.
`ServedForItsEvent` is what the contract makes of this: a descriptor has one
waiter, so the `HANDLE_EV` that finds somebody is the one for the filter of the
event, and once it has been passed somebody was served. With it
`WaitsAccountedFor` is inductive (the entries of the change list being distinct
and no more than the array holds), and so is that no assertion has failed.

*Queues.* That a walk meets the expected elements says nothing about the fields
the walk does not touch, so it is not inductive. `Linked` says it cell by cell:
the field `next` of the place before an element leads to that element and its
`prev` back to that place, the last `next` is null, `prev` of a tail queue's head
is its last place, and an element is in one sequence at one position. Each macro is first reduced to the two or three cells it writes
(`LinksIn`, `LinksOut`, `LinksJoin`, `LinksSwap`), and a lemma for each of these
re-establishes `Linked` for the sequence with an element put in at position k,
taken out at position k, appended to another or exchanged. The special cases of
the code (first, last and only element) are then k at an end.

*Object pool.* The property is inductive with the types: free, in use, freed and
lost objects are four disjoint sets that make up those made so far.

*Socket calls.* `SocketInv` adds three things. `MovedInOrder`: while a call is in
progress the bytes moved so far are those from its start on (for a read, up to
the kernel's position) and fewer than asked for, so that the next piece goes on
where they end. `WritevGoesOn`: the array is still one region after the other
from the first to the last byte, and the iovec at `iov_index` begins where the
bytes written end. `TimerOfThisCall`: `EXPIRED` is set exactly between the timer
of this call and the test after the wait. `Advance` takes the largest iovec
written whole; that it is the only place the bytes end in takes the order of the
bases along the array.

*Sleep timers.* `KeysInTime`: the key of a sleeper is its due time or at most
`Cardinality(Sleeper)` more, and the clock is less than a second past the key of
anybody who still sleeps; before a poll, past nobody's. That `FreeKey` exists within that distance is the pigeonhole
principle (fewer keys taken than numbers to choose from), by the cardinality
theorems of the library. `PollMsecsIs` bounds the odd fraction of `_lthread_poll`:
the milliseconds it computes, taken in microseconds, exceed the time left by less
than a second.

*TCP connections.* `Owned` is `DescriptorsOwned` without the sets (`OwnedIs`);
`OpSound` adds that the dial in progress is for a connection not yet in use and
that a full read under way has the first bytes of the stream and room for more.

### Only model-checked

* Liveness (`ReadyRuns`, `TimersFire`, `FdServedWhenPolled`, `ComputeCompletes`):
  fairness and `ENABLED` are beyond the prover.
* `ContainersSound` and `LookupSound`: `RbTree`, `Ringbuf` and `Resolver` are
  written with recursive operators, which the prover does not take, and what these
  compute (a rebalanced tree, a copy in rounds, an encoded name and the parse of
  a reply) takes induction over data. A claim about all numbers can still be
  proved by a least counterexample, as `MinNat` of `Chan_proofs` and `LeastNat` of
  `Socket_proofs` do; one about an operator of the claim's own cannot be passed to
  the library's induction theorems.

## 5. Not modelled

* `lthread_poll(fds)`, with `WAIT_MULTI` in step 5 and
  `_lthread_poller_set_fd_ready`. A call with two fds fails an assertion when the
  second is registered; with one it changes `fd_wait`, the key, while the lthread
  is in the tree, and the event then finds nobody. There is no working behaviour
  to state properties of.
* `lthread_sendfile` (FreeBSD only); the kqueue user event, whose epoll twin is in
  `IoWorker`.
* Several schedulers sharing `find_lt` (`lthread_sched.c:78`), a static search
  key written without a lock: `LthreadSched` has one scheduler.
* Stacks, `_switch`, `madvise`: below the level of the model, where a switch is a
  change of `ctl`. Memory after `free`; allocation failure in the core; the value
  handed over by `lthread_exit`; a wall clock that is set back.
* Singly linked lists and splay trees of `queue.h` and `tree.h`, which nothing
  instantiates; the vendored strings, hash tables, ciphers and parsers, which the
  library does not call; `smux`, a header without an implementation.

## 6. Plan

1. Done: all the modules and runs above; the proofs of section 4, with the
   refinements of `Fifo`, `IoWorker`, `Compute` and `Chan`.
2. Proofs still worth having: the byte ring, with a round of its copy loops as an
   action; the balance of the red-black tree, whose rotations would first have to
   be separated from the walks up the tree.
3. Two schedulers on the shared `find_lt`, if it is ever given a lock to verify.
