# A verification project for vhttp

vhttp (a fork of the h2o HTTP server) is a multi-threaded, event-driven HTTP/1,
HTTP/2 and HTTP/3 server and reverse proxy written in C. Each worker thread owns
an event loop and a `vhttp_context_t`; almost all per-connection state belongs
to one thread and is not locked. What the threads share is small and hard to
test: message queues, start-up barriers, process-wide counters, the resolver's
thread pool, the pool of upstream connections, caches and tickets. Within one
thread the difficulty is of another kind: callbacks of the client, of the handler
and of the upstream end, pause and resume the same request in any order.

This project models the shared core first, then the state machines of HTTP/2.
Every definition is translated from the C source; `PROJECT.json` ("map") names
the lines. Paths below are relative to the repository.

## 1. Inventory

### 1.1 Modelled

| component (module) | state | operations | interacts with | hard because | correct means |
|---|---|---|---|---|---|
| message queue, `lib/common/multithread.c` (`MultithreadQueue`) | active and inactive receivers, their messages, an eventfd | create, destroy, register, unregister, send, send NULL, drain | every thread; resolver, memcached, status, signal handler | the eventfd is written outside the mutex and only by the sender that found the receiver empty; sends arrive during the callback | no wakeup lost, FIFO per receiver, nothing twice |
| barrier, same file (`ThreadBarrier`) | a counter, a mutex, a condition | init, wait, add | start-up | spurious wakeups; a participant announced later | nobody early, everybody released |
| start-up and signals, `src/main.c`, `src/ssl.c` (`Startup`) | two barriers, SIGTERM disposition, flag, tickets | set up tickets, start threads, register, meet, install handler, meet, loop | queue, barriers, ticket updater | a signal at any point, on any thread | no request before the receivers and (QUIC) the tickets exist; a notified SIGTERM is served |
| worker loop, `src/main.c` (`WorkerLoop`) | connection counters, listener state, shutdown flag | accept, close, QUIC accept, update listeners, drain | queue | each thread tests a shared counter; one notification per crossing of the limit | counters exact, limit kept, listeners resume, shutdown ends |
| name resolution, `lib/common/hostinfo.c` (`HostinfoResolver`) | pending list, thread counts, requests | getaddr, cancel, lookup thread, receive | queue; socket pool, CONNECT | threads created on demand, one signal for several requests, cancel racing the answer | no request stranded, freed twice or called back after cancel |
| upstream connections, `lib/common/socketpool.c`, `lib/common/balancer/` (`SocketPool`) | two linked lists per entry, three counters, a timer; position and consumed weight of the round robin | connect (retry over targets), cancel, return, detach, expire, dispose; select a target | resolver, HTTP clients | mutex dropped around the liveness test, counters outside it, many failure paths, counts that drift under the least-connections balancer | an entry is handed out once, counts match, a balancer is never asked when no target is left, a failed target loses its turn and no other |
| cache, `lib/common/cache.c` (`Cache`) | table, LRU list, age list, size, reference counts | fetch (with early update), release, set, delete, clear | TLS session cache, OCSP, push memo | an entry leaves the table while used; releases without the mutex; one clock per thread | structures agree, size bounded, freed once |
| HTTP/2 scheduler, `lib/http2/scheduler.c` (`DrrQueue`, `H2Scheduler`) | a tree of nodes, a round-robin ring per node with a bit vector, active counts | open, close, rebind, relocate, activate, deactivate, run | HTTP/2 connection | clients reorder the tree at will; bits and lists differ on purpose | no cycle, no hidden stream, counts exact, fair shares |
| HTTP/2 streams, `lib/http2/connection.c`, `stream.c` (`H2Streams`) | stream states, body states, seven counters, pending and write lists, GOAWAY, early data, reset budget | each frame handler, each handler callback, write completion, close | scheduler, handlers, proxy, HTTP/3 client | request and response sides end independently; callbacks may come after the end | counters exact, nobody waits for ever, every ended stream is closed |
| HTTP/2 output and graceful shutdown, `lib/http2/connection.c` (`H2Output`) | two buffers, the write, idle and shutdown timers, a notification of the socket, the lists of the context | emit, write complete, read, the frames that are answered, handlers that send, shutdown in two stages, deferred close | socket, event loop, streams, context | handlers call back in the middle of reading and writing; three parties start writes; one timer has two meanings | one write at a time, nothing to be written is forgotten, stopped reading resumes, a closing connection ends |
| timer wheel, `lib/common/timerwheel.c`, `socket/evloop.c.h` (`TimerWheel`) | slots per wheel, the time the wheel was run until, expired timers | link, unlink, get_wake_at, get_expired with its cascades, run | every timeout of the server | wrap-around and carry at three levels; timers linked and unlinked by callbacks of others; the clock goes back | exactly the due timers fire, the loop wakes up in time |

### 1.2 Not modelled (yet, or at all)

| component | state and operations | what is hard | decision |
|---|---|---|---|
| HPACK, QPACK dynamic tables (`http2/hpack.c`, `http3/qpack.c`) | ring of entries, size, insert count, blocked streams | eviction during insertion, references to evicted entries | planned: operators against a reference |
| HTTP/2 frames, push, casper, cache digests | byte layouts, hints | conversions without state | left out |
| counting semaphore, once, error reporter (`multithread.c`) | counter, waiters | capacity changed under waiters | planned: `Semaphore` |
| TLS tickets and session cache (`src/ssl.c`) | ticket list under an rwlock, updaters, caches | rotation racing lookups, memcached losing the race | planned: `SessionTickets`; the first load is in `Startup` |
| HTTP/1 server (`lib/http1.c`) | one request at a time, body readers, pipelining | 100-continue, close racing body, upgrade | planned: `Http1` |
| HTTP/3 server (`lib/http3/server.c`) | as HTTP/2, over QUIC streams | the same, plus unordered streams | planned: `H3Streams` |
| HTTP clients (`common/http{1,2,3}client.c`, `httpclient.c`) | stream life cycle, protocol choice | cancel in every state | planned; their callbacks are in `H2Streams` as the handler's actions |
| proxy, CONNECT (`core/proxy.c`, `handler/connect.c`) | generator, pipe; address race | detach races | the order of calls into HTTP/2 is in `H2Streams`; planned: `HappyEyeballs` |
| status, throttle, memcached client | collection over threads; token bucket; worker threads | threads joining a collection; rounding; reconnects | planned |
| request core, configuration, files, FastCGI, mruby, other filters, redis, websocket, memory/strings/URLs, command-line client | sequential or per-request | mostly data conversion or I/O | left out |
| sockets and TLS records (`socket.c`, the rest of `socket/evloop.c.h`) | buffers, platform backends | partial reads and writes | modelled by their effect: any ready event may be next |
| cache digest generator (`misc/cache-digest.js/`) | none: a Golomb coding of URL hashes in JavaScript, for service workers | a data conversion | left out, as are the push hints it feeds |
| documentation search (`misc/oktavia/`, `doc/search/`) | third-party JavaScript with one generated copy for each language | | not part of the server |
| `deps/` | | | vendored |

## 2. Plan

Order: what threads share, then what one connection does.

1. done, models: `MultithreadQueue` (with `Mailbox` as its abstract specification),
   `ThreadBarrier`, `Startup` (composes two barriers), `WorkerLoop`,
   `HostinfoResolver`, `SocketPool` with its balancers, `Cache`, `DrrQueue`,
   `H2Scheduler`, `H2Streams`, `H2Output`, `TimerWheel`.
2. done, proofs: see section 6.
3. open, models: `Semaphore`, `SessionTickets`, the dynamic tables, `Http1`,
   `H3Streams`. Each new question either extends a present run or replaces the
   weakest one, so that the set of runs stays small enough to be repeated on every
   change: the runs that once showed `EndedIsClosed` and `LeasedExact` violated made
   room for `h2_output` and `timer_wheel`, and how to repeat them is in section 7.
   Every safety property of the passing runs is a theorem (section 6); a new model
   should come with its own.

Abstract specifications worth stating: the mailbox (done); the pool as a bag of
leased and idle connections; the scheduler as a set of runnable streams.

## 3. How the modules correspond to the code

**MultithreadQueue.** `messages[r]` is `_messages` of a receiver, `active` and
`inactive` the two lists of the queue, `batch` the list that `queue_cb` detached,
`sender[t] = "write"` a sender between the unlock and the `write(2)`. One critical
section is one step; `OnRead` clears the eventfd before `queue_cb` locks. `notified`
is a ghost: a NULL message was sent and the loop has not been back at its caller
since. `mailbox` is the refinement mapping: what the callback still has to handle,
followed by what was sent since.

**ThreadBarrier, Startup.** `vhttp_barrier_wait` is `Wait`, `Recheck` (the `while`
around `pthread_cond_wait`) and `Leave`; a blocked thread may wake up spuriously.
`vhttp_barrier_dispose` has no caller and is left out, with the counter only it
reads. `Startup` has one program counter per thread, an instance of the barrier
for `startup_sync_barrier_init` (initialised with the number of workers) and one for
`_post` (raised by one with `Add` when the ticket updater takes part), and signal handlers that
suspend the thread they run on. `handler` is the disposition the kernel picks at
delivery.

**WorkerLoop.** Each atomic add is one step, so a thread tests a value that holds
the transient reservations of the others. `Release` notifies exactly when the
value before the decrement was `max_connections`. `client[c]` says who serves c;
`after` and `accepts` are locals, reset when dead.

**HostinfoResolver.** `thread[t]` follows `lookup_thread_main`; `pending`,
`num_threads` and `num_threads_idle` are the variables of that name. `mail` is
the FIFO that MultithreadQueue implements; `allocated` and `cb` record the memory
of a request and whether its callback is still set. `short` is a ghost:
`pthread_create` failed since.

**Lists.** The intrusive lists of `include/vhttp/linklist.h`, shared by `SocketPool`,
`Cache`, `H2Scheduler` and `H2Streams`: a list is a sequence, `Without` is what unlinking some entries leaves of it, in
closed form (the entry at position k is the one of rank k among those that stay), so
that it can be reasoned about.

**SocketPool.** A connection goes through try, resolve, socket, connect,
handshake, leased, returning, pooled, testing. `all` and `sockets[t]` are the two
lists, `mutex` the holder where a critical section has more than one step. `setup`
selects which threads use the pool, whether it is global, its balancer, and which
failures the environment produces. `Select` is `try_connect` up to the counter: it
asks `RoundRobin` or `LeastConn`, which are the two selectors; each holds its own
mutex throughout, so that a selection is one step. `lb` is the state of the round
robin; the products of the other wrap around at a width TLC can multiply (`Wrap`).
`stale` marks a request whose `req->sock` was closed already; closing such a
socket again is undefined behaviour and modelled as a choice.

**Cache.** One operation is one step (the mutex is held throughout), `Release` too,
which takes no mutex but is one atomic decrement. Every thread (`Users`) has its own clock,
as every loop caches its own time. The operations are compositions of functions of the
structure under the mutex, as in the code: `Erase` (`erase_ref`), the two loops of `purge`,
and the insertion. `Total` is a sum, as the size of a set that has as many members as
there are bytes, or references.

**DrrQueue, H2Scheduler.** `DrrQueue` is `queue_set`, `queue_unset` and `queue_pop`
with their arithmetic: ring, bit vector, offset, deficit and the rounded table of
offsets, for a ring of any size. `H2Scheduler` is the tree above it: the order
inside a queue is abstracted to "any linked node may be popped", as DrrQueue
settles it. An operator takes a tree and returns the one that the C function of that
name leaves (`Link` and `Unlink` are `queue_set` and `queue_unset` as far as the tree sees
them), and the conjunction of the assertions on the way is the field `ok`. The
recursion of `incr_active_cnt` and `decr_active_cnt` towards the root is a recursive
function of the number of levels climbed (`IncrClimb`, `DecrClimb`), and the loops over
the children are functions of the number of children that had their turn
(`ExclusiveEach`, `HandOverEach`, `WeightSums`). `Share` computes in unbounded integers: a child weighs
no more than all children together, so the products stay below 2^25, far from the 32 bits of the code.

**H2Streams.** One record `c` holds the connection; each action is a whole handler
and every call it makes: `stream_close` runs the pending requests, `set_state`
moves the counters, and so on. Assertions and "unexpected state" branches put a
label into `c.fail`. An operator takes a connection and returns the one that the C
function of that name leaves, and a loop over a list or over all streams is a recursive
function of the number of entries that had their turn (`RunEach`, `ProceedEach`, `ReplayEach`,
`CloseEach`). Two loops are simplified, with the reason beside them: one pass of
`run_pending_requests` does what its repeated passes do, and the order in which a closing
connection closes its streams does not matter. A stream's data is abstracted to flags (something to send,
window open, a chunk in flight). `turn` is a ghost: the handler owes an answer.
A handler that answers from within `on_req` is modelled as answering in the next
step. `Scenarios` is a set of feature sets, one of which is chosen initially: which
frames the client sends and in which ways the handler and the upstream behave.
Two features are of clients that the code does not expect: `early_end` lets it half-close a
tunnel before its response, `late_trailers` lets it send trailers on a stream opened after
GOAWAY. Each makes one assertion of the code fail (observations); two scenarios of the run show that
it is the only one. `ProceedMore` takes the
client's input window to be open. No scenario of the run has CONNECT together with GOAWAY; the theorems are about
any combination, and `DisregardedNotRun` excepts tunnels for that reason.

**H2Output.** The other half of the same connection: here a stream is reduced to
what the output side sees of it, and the buffers, timers and lists are kept in full.
An operator takes the connection and returns what the C function of that name
leaves. Functions that do something for each frame or stream are split there:
`phase` is `parse` in `on_read`, `proceed` in `on_write_complete` and `emit` in
`do_emit_writereq`, and handlers may call back from the first two. A request that is not
complete is `recv` before the first DATA and `partial` after it, when it counts as blocked by the
server; `late` is one that came after GOAWAY and will be reset by its DATA. Requests whose body
is streamed to the handler, and tunnels, are left to `H2Streams`. Buffer sizes are
counted in frames and saturate at `SoftMax`; whether there is room in a non-empty
buffer depends on its capacity and the congestion window and is a choice. `list`
is the list of the context the connection is on (active, idle, shutdown), which
decides whom a shutdown reaches.

**TimerWheel.** `place[t]` is the slot a timer is linked in, or the list of expired
timers; the order within a slot is left out. Each iteration of the loops of
`vhttp_timerwheel_get_expired` is a step of its own, with its locals in `cursor`;
`get_wake_at` is an operator, as nothing happens while it runs. Callbacks of sockets
(`pending`) and timers (`callback`) link and unlink. `ProceedTimeout`, `ProceedEvent` and
`ProceedRewind` are the ways a poll ends: at the time asked for, at any other time
from now on, or after the clock was set back. `Span` is the power of two of the code as
a recursive function, and `timer_wheel` the wheel of the highest digit, which the code finds
by counting leading zeros. The module assumes two wheels at least, as every caller of
`vhttp_timerwheel_create` asks for (3 in an event loop, 2, 3 and 6 in the tests): with
`NumWheels = 1`, a timer beyond `max_ticks` would sit in a slot of wheel 0, which is never
cascaded, and be called back early (TLC shows `ExactlyDue` violated if the assumption is
dropped).

## 4. Runs

Each run ends within a few minutes on two cores.

| run | instance | shows |
|---|---|---|
| `queue` | 2 senders, 2 receivers, 3 messages | `QueueInv` (the inductive invariant: `ActiveIffPending`, `NoLostWakeup` and what they need), refinement of a fair FIFO mailbox, and that a NULL notification is served. Two senders are what a race for the first message needs, two receivers one to be activated during the other's callback, three messages a batch of two and a late one. |
| `startup` | 3 workers, the updater, 2 SIGTERMs, three TLS modes | `StartupOrder`: nobody serves early, no handler notifies an unregistered receiver. All threads get into the loop, and a notified SIGTERM gets all out of it. Three workers: with two, a broadcast that wakes one thread would be enough at the first barrier. |
| `workers` | 2 workers, 2 TCP clients, 1 QUIC client and initial packet, limit 1 | `WorkerInv` (both counters exact), `ConnectionLimit`, `ListenerResumes`, `BacklogRetried`, `ShutdownCompletes`. Two threads at limit 1 is the smallest instance with a refusal by a transient reservation and a slot freed by the other thread. |
| `hostinfo` | 3 threads, 3 requests, reused | `ResolverInv`, `NoStrandedRequest`, `OwnedOnce`, `NoCallbackAfterCancel`, `EveryRequestFreed`: three threads are one asleep, one signalled, one busy. |
| `pool` | 1 or 2 threads, 2 connections, 2 targets (one named, weight 2; one with TLS, weight 1), a global pool or either balancer, all failures or only those that do not let counters drift | `PoolInv` (the lists agree, `pooled_count` is exact, a lone thread's timer is linked while something is pooled), `CountersExact`, `BalancerInv` (a target is left for every try; the turn of the round robin is within its weight). |
| `cache` | 2 threads, 2 keys, 3 entries, a value larger than the cache, clocks 0..2 | `CacheInv`, `RefcountExact`, `PurgeComplete`. |
| `drr_queue` | ring of 3, 3 nodes, weights 1..4 with 4 above the ring | `BitsCover`, `NeverPassedOver`, `EventuallyServed`. |
| `h2_scheduler` | 3 streams, a ring of one closed one | `TreeInv`, `QueuesAgree`, `SharesProportional`; `MCH2Scheduler` evaluates the rounding of `Share` over sampled weights up to 256. |
| `h2_streams` | 2 (with GOAWAY 3) streams, one concurrent and one streaming request, nine scenarios | `AssertionsHold`, `StreamsInv` (seven counters exact, the idle timeout off while a handler works), `NothingStuck`, `NoZombie`, `DisregardedNotRun`. One running request makes the second wait; the third arrives after GOAWAY. Send windows with request streaming are explored on one stream, without it on two. |
| `h2_output` | 2 streams, 2 frames of buffer, with and without a graceful shutdown timeout, one shutdown | `AssertionsHold`, `OutputInv`, `ClosingEnds`. Two streams are one that is flushed while the other waits for the scheduler; a buffer of two frames is empty, partly full (reading goes on) or full (reading stops). |
| `h2_graceful` | 1 stream, two shutdowns | violation, finding 1. |
| `timer_wheel` | 2 timers, 3 wheels of 2 slots (reach 4 ticks beyond `last_run`), delays up to 11, clock 0..14, one rewind | `ExactlyDue`, `Validates`, `WakesInTime`, `EventuallyFires`. With two slots every second tick carries, every fourth into the third wheel, and delays above 4 are beyond the reach and are linked again; the code has 32 slots and the same three wheels, so that carries are rarer there but of the same kinds. |

Bounds. Reused identities (messages, requests, connections, entries) stand for
unboundedly many. `MaxSignals`, `MaxInitials`, `MaxTime`, `MaxHeld`, `MaxPriority` and
`MaxDrift` (how far a counter of the pool may drift before exploration stops) bound
what would be infinite; so do `MaxNow` and `MaxRewinds` of the clock, `SoftMax` of the buffer
and `MaxInitiates` of the shutdowns. `MaxInitials` also matters to liveness: an endless flow of
QUIC packets could take the last slot whenever a TCP accept tests it. Deadlock is
not checked where the system may rightly stop: after exit, after the connection
is freed, or while nobody asks anything.

Guarded properties. `CountersExact` excludes the failures in `Drifting`, after which
the counters do drift, and a part of `PoolInv` (`IdleTimerLinked`) is about a pool used by
one thread (observations). `NoZombie` excludes the three ways of answering that leave
streams behind (observations); the part `IdleTimeoutOff` of `StreamsInv` excludes requests
replayed after early data, which are not marked; `AssertionsHold` of `H2Streams` lets the
request be freed within `proceed_request` only where an HTTP/3 upstream stops the body
before responding, and lets one assertion each fail for clients that half-close a tunnel early
or send trailers on a stream opened after GOAWAY (observations; `WrittenSome` and `HeadersOnce`
are those assertions by themselves). `IdleTimeoutOn` (part of `OutputInv`) is about connections whose requests in
progress have sent their headers only: within a body the code sets no timeout (observations). `EventuallyServed` holds if from some time on no node is unlinked out
of turn nor put into the list for weights above the ring: a node that is unlinked
takes its place in the ring with it, and the other list is always served first, so
that fairness of the ring is all the code can promise. `EventuallyFires` assumes that the
loop gets back to polling: callbacks that link timers without a delay for ever keep
it from that. `ClosingEnds` leaves out connections that wait for their requests after
the second GOAWAY when no graceful shutdown timeout is configured.

## 5. Fairness

- queue: weak fairness of the write after the unlock and of the loop thread.
  Nobody is obliged to send.
- startup: weak fairness of each thread and of running signal handlers; not of
  signals, events or spurious wakeups.
- workers: weak fairness of a thread's own steps; strong fairness of the return of
  `evloop_run`, which handles each ready socket once and cannot be kept inside for
  ever; weak fairness of "some connection of the thread ends" (timeouts see to it).
- hostinfo: weak fairness of the threads (getaddrinfo returns) and of the loop.
- drr_queue: weak fairness of pop, as a connection with something to send runs the
  scheduler.
- h2_output: weak fairness of functions that were called and of the zero-delay timer
  that starts a write; strong fairness of the shutdown timer, and of the write
  timeout of a connection that is closing: each write sets it again, but such a connection has only
  what is buffered left to write. Nothing is assumed of the idle
  timeout (every read puts it off), of the client, the socket or the handlers.
- timer_wheel: weak fairness of the scan and of the callbacks of expired timers;
  strong fairness of a poll that lasts until the time asked for, as time passes.
- pool, cache, h2_scheduler and h2_streams are checked for safety only.

## 6. Proofs

Checked by TLAPS for all values of the constants; no proof uses an unproved fact.

`EventLoopProofs`, first part: `QueueInvariant` (Spec => []QueueInv), and from it
`QueueNoLostWakeup`, `QueueActiveIffPending` and `QueueImplementsMailbox` (every step
is a step of the mailbox or leaves it alone). `NoLostWakeup` is not inductive: a
detach takes the first entry of `active` only, so the invariant adds that no
receiver is listed twice, that a receiver is listed exactly when it has messages
(or a later sender would not link it), and where the detached list lives. The only
assumption is that `None` is not a receiver.

Second part: `WheelExact`, `WheelValid` and `WheelWakes`, from `WheelInvariant`
(WheelSpec => []WheelIInv), for any numbers of timers, slots and wheels from two on, any
delays and any bound of the clock. None of the three properties speaks of the middle of
`get_expired`, so the invariant has to. `Placed` gives each linked timer the time `T` at
which its slot is due: a multiple of the span of the wheel, at least `last_run` and less
than one turn after it, and not more than a span before the time of the timer (the highest wheel also
holds what is farther away). `T = last_run` is allowed only where the search still comes to
that slot (`MayBeDue`). `Passed` says that the wheels below the one being searched and the
slots the search has gone past are empty, `CursorOK` that the local variables agree with `last_run`, `ClockOK` how the clock, the
last run and the phase go together, and `ExpiredOK` that what is in the list is due.
The argument rests on the arithmetic of slots (`Position`: within one turn, the slot tells the
time; `NextTurn`, `Rising`: when a wheel ends, the wheels above are due as far up as those
between are at slot 0), which is shown once and serves both functions: `SearchStep` for the
carries of `get_wake_at` and `CascadedSlotsFacts` for the cascades of `get_expired`.
`AtMinIs` shows that `calc_expire_for_slot` computes `T`. `Span` and `search` are recursive
functions; that such a function exists is shown from the least bound at which there would be none.
`WakesInTime` is part of the induction, too: a poll ends at the time it gives,
so that the clock stays within its bound.

`StartupProofs`: `StartupOrdered` (Spec => []StartupOrder), for any number of workers and
signals. The heart is the invariant of a barrier: its counter is the number of
participants still to come, and it is 0 for whoever has left. `Begin` says that nobody
is at a barrier before the threads exist, `WorkerAt` and `UpdaterAt` tie the program
counters to the states at the barriers, and `Handlers` that the notifying handler is
installed only behind the first one.

`WorkerLoopProofs`: `WorkerAccounting`, `LimitsKept` and `NoLostSlot`, for any numbers of
threads, clients and limits. `ConnectionLimit` is not inductive, as refused reservations
are in the counter: the invariant adds that the established connections together
with the threads that were granted one do not exceed the limit, and what a thread
knows by where it is.

`SharedProofs`, first part: `ResolverCounts`, `NothingStranded`, `RequestsOwned` and the action
property `CancelledStaysSilent`, for any numbers of threads and requests. That no
request is stranded needs exact counters (a thread is created only when
`num_threads_idle` is 0) and that the threads that are awake suffice for the list while
one sleeps. That a request is freed once needs that it is in one place, and that the
list and the mail hold it once.

Second part: `CacheCorrect`, `RefcountCorrect` and the action property `PurgeCorrect`, for any
numbers of threads, keys and entries and any lengths, capacity and time to live. `Well` and
`Counted` are predicates of the structure under the mutex and weaker than the invariant: a
set exceeds the capacity before it purges. `Erase`, both loops and the insertion keep them;
that the first loop ends is that the sum over an empty table is 0, which is the assertion in
it. A release without the mutex is safe because a held reference makes the counter of an
entry of the table at least 2. `PurgeComplete` follows from the position of the first entry
with time left.

`SocketPoolProofs`: `PoolCorrect`, `CountersCorrect` and `BalancerCorrect`, for any numbers of
threads, connections and targets, any weights and capacity, and any of the failures. The
inductive invariant `IInv` adds to the three properties what a thread in the middle of a
call knows (`Held`: who owns a connection in which state; `MutexHeld`: the thread
that holds the mutex is in `connect`, `return` or `lookup`; `TargetKnown`) and that a lone thread's timer
is linked (`TimerLinked`). Most actions change one connection and neither list; for them
one lemma (`LocalPreserves`) gives every conjunct from the old and the new state of that connection,
by counting. The others pop, insert, or expire a prefix: there the lists are compared by
positions, with the facts about `Without` and `Append`. That expiry takes the same
connections out of both lists needs that they are in the same order. That the balancers
find a target is an argument about their loops: the least index at which an untried target
was passed over, or at which the best of the targets so far was wrong, has none before it.
The proof found one thing about the model: two guards of a `CASE` in `Select` overlapped
(a global pool has no balancer), and its meaning hung on TLC's choice of the first;
it is an IF now, and the assumption says that a pool is global exactly if it has no
balancer.

`H2Proofs`, first part: `OutputCorrect` (Spec => []OutputInv), for any number of streams, size of
the buffer and number of shutdowns, and `AssertionsOnce`: no assertion fails if a shutdown
is initiated at most once, which is what finding 1 shows to be needed. Of timeouts `OutputInv`
says that one is set while a write is in flight, and while no request has got beyond its headers;
it says nothing of a client that is silent within a body. It
speaks of the states between callbacks; `Inv` extends it to the middle of `on_read`,
`on_write_complete` and `do_emit_writereq`, and adds that a stopped read or a flushed
stream has bytes to wait for and that nothing of a connection outlives it. One lemma
per C function says what it changes, one per action that it keeps `Inv`.

Second part: `DrrBitsCover` (QueueSpec => []BitsCover) and the action property
`DrrNeverPassedOver`, for every ring size, unit and set of weights the assumptions of
`DrrQueue` allow. The work is in lemmas about ring arithmetic: the slot at a distance from
the offset, that distinct distances below the size of the ring are distinct slots, and that
turning the ring shifts all distances by the same amount. They are stated with `%` and
bounded case splits. That a node is never passed over needs that it is linked to one anchor
only (or it has no distance), and the bit vector: a pop turns to the nearest set bit whose
anchor has a node, and the bit of the node's anchor is set.

Third part: `TreeTheorem`, `QueuesTheorem` and the action property `SharesTheorem`, for any
number of streams, any ring of recently closed priorities and all weights. The assumptions
only say that streams and ring entries are different nodes and that the weights are
in 1..257. The functions of `scheduler.c` change a tree in many places, so the invariant is
a predicate of a tree, `Sane`, and there is a lemma per function which says that it
returns a `Sane` tree if it is given one (`MoveFacts` for `do_rebind`, `RebindFacts`,
`ExclusiveFacts`, `CloseFacts`, `RelocateFacts`, `CallbackFacts`, ...). `Sane` joins
`TreeInv` and `QueuesAgree`, neither of which is inductive without the other: the climb to the
root ends only in a tree, and the assertions hold only if the counts are exact. It adds that
only open nodes are active (`Idle`): `proceed` serves a node because it is active, and then needs its parent.

That the parents lead to the root is said without recursion: every set of open nodes that
is not empty has a member whose parent is outside of it (`Hangs`). From it follow that a node is not its own
ancestor, and, by the least set closed under parents (`ClosedUp`), that a move below a
node which does not depend on the moved one keeps the tree (`Rehang`). In the middle of
a climb the counts are wrong at one node, by one; `Underway` names the node at which one is still due, or
one too many is still counted, and each step of a climb hands the error to the parent. A
move makes both kinds of error at once, below the old and the new parent, and the two climbs may share the upper
part of their paths; `Underway` therefore has a place for each. A parent has fewer ancestors
than its child (`Height`), so after as many steps as there are nodes a climb is at the root.

`ShareFacts` is the arithmetic of the hand-over: with the factor in fixed point and two roundings,
the share of a child differs from its exact part by no more than one, or it is clipped to
1 or 256; the steps multiply out the divisions and compare (`DivFacts`, `MulMono`).

`H2StreamsProofs`: `AssertionsTheorem`, `StreamsTheorem`, `StuckTheorem`, `ZombieTheorem` and
`DisregardedTheorem`, for any number of streams, any limits and any set of scenarios, that is
for the features of `Scenarios` in any combination; the only assumption is that
the limits are positive (of streams opened by PRIORITY there may be none). `AssertionsTheorem`
allows one assertion to fail in the presence of `early_end` and one in that of `late_trailers`, as the
code cannot but fail them; for clients that do neither, it says that none fails. A failed
assertion leaves the connection as it was, so that nothing is claimed of a server that goes
on after it. None of the
five is inductive, as each depends on fields that the others are about: whether a stream may
be closed, for one, depends on its body, on whether its handler will call back, and on the list
it is on. `StreamsIndInv` therefore says of each stream which values of its fields go together
and on which one list it then is. Its parts are what a stream is that has no request yet
(`FreshOK`), how the state of the body goes with the states of stream and handler (`BodyOK`), when
it waits as a pending request (`QueueOK`), when it has something to send and whether the
scheduler or a list has it (`SendOK`), what the handler was given of the body (`WriteOK`), when
the stream counts as blocked by the server (`BlockedOK`), who will close it once it has ended
(`EndOK`) and that it was run rightly (`RunOK`). To this come exact counters, no failed assertion,
and that somebody serves the requests that wait (`Served`). A stream that is passed over
because of the limits needs somebody who is served; that is an argument about the counters,
which is why they are in the invariant.

As a connection is a value, each C function is a lemma about the one it is given and the one
it returns: `Step` says that one stream has new fields and a new list while the others and
their order stayed, `Lands` that the function ends well, and then either ran the pending
requests or left those who wait someone to wait for. Functions compose like their lemmas, and an
action is one use of `Lands`. In the loops, streams are closed or run while the list is walked:
`RunUpTo`, `ProceedUpTo`, `ReplayUpTo` and `CloseUpTo` say what holds after n entries (those
that had their turn, those still on the list), and there is no first n at which it fails.

`Counting` holds the lemmas that the proofs share: how a cardinality changes when a step
moves one element; what a list is after entries are unlinked or appended; and that a set of
naturals has a least element. The last one takes the place of induction, whose theorems
the provers cannot instantiate: a property of all indices of a loop is shown by looking
at the least index without it.

Only model-checked: liveness under fairness (`NotificationServed`, the fairness half of
the mailbox, `StartupCompletes`, `NotifiedShutdown`, `BacklogRetried`, `ShutdownCompletes`,
`EveryRequestFreed`, `EventuallyServed`, `ClosingEnds`, `EventuallyFires`), which is out of the
prover's reach.

## 7. Findings

1. `h2_graceful`: a connection that is shut down gracefully goes back to the list of
   active (or idle) connections once its timer is not linked any more. Without
   `http2.graceful_shutdown_timeout` that is so after the second GOAWAY, and the next
   request to shut down meets `assert(_graceful_shutdown_timeout.cb == NULL)`
   (`lib/http2/connection.c:116`). A release build only links the timer
   again, which then does nothing. (The comment at `include/vhttp/http2_internal.h:395` says that
   a connection in shutdown stays out of these lists; line 397 only asks for the timer.)

Assertions may be compiled out: the default build type is Release.

Observations made with the same models (by widening a guard or a scenario); they
are not among the runs, but each can be reproduced from the property named.

- A failed connect decrements `leased_count` twice (`lib/common/socketpool.c:370` and,
  through `on_close`, 394), and the counter wraps around. To see it, check the invariant
  `LeasedExact` in place of `CountersExact` with `MCSocketPool`.
- A client that half-closes a tunnel before it is established makes `assert(written != 0)` of
  `proceed_request` fail (`lib/http2/connection.c:944`). The entity of a CONNECT request is empty but
  not NULL (694), so that the end of the body is only queued; once connected, the handler has nothing
  to write and calls `proceed_req` (`lib/handler/connect.c:674`). To see it, check `WrittenSome` with
  `H2Streams` and the scenario `{"tunnel", "early_end"}`.
- Trailers on a stream that was opened after GOAWAY are taken for the headers of a new request,
  as `max_open` is not raised any more (`lib/http2/connection.c:1011`), and
  `assert(stream->state == vhttp_HTTP2_STREAM_STATE_IDLE)` fails
  (`include/vhttp/http2_internal.h:337`). To see it, check `HeadersOnce` with the scenario
  `{"goaway", "last_stream", "late_trailers"}`.
- A streamed request that is answered before its handler accepted the body ends, but
  is not closed when the body ends (`lib/http2/connection.c:570`), and stays counted in
  `blocked_by_server`. To see it, check `EndedIsClosed` with `H2Streams` and the scenario
  `{"streaming", "unaccepted"}`.
- HTTP/2 output: when the idle timeout or a protocol error finds the socket waiting for
  `on_notify_write`, no timer is linked and nothing is in flight, so that
  `close_connection` frees the connection before its GOAWAY is written (431); a stopped
  read is resumed by the completion of a write only.
- `SIGTERM` at start-up (`src/main.c:4196`): a flag-only handler that was entered
  before the notifying one was installed and sets the flag after it was tested
  wakes nobody; the loops notice at the next event. `NotifiedShutdown` is therefore
  about SIGTERMs that see the new handler.
- The notifying handler locks queue mutexes on top of any thread; a thread inside
  a critical section of that queue would wait for itself. Not expressible while a
  critical section is one step.
- Barrier: `vhttp_barrier_add` raises one of the two counters; a `dispose` of such a
  barrier could come early or spin. Latent, as `dispose` is never called.
- Comment at `src/main.c:3878`: "at most max_connections + num_threads" connections may
  be accepted; the model shows the limit is kept exactly (`ConnectionLimit`). The
  price is that two threads' transient reservations may refuse each other.
- Pool: `on_timeout` does not relink its timer when `trylock` fails
  (`socketpool.c:124`), so `IdleTimerLinked` needs a lone thread; a dead pooled connection
  (536) and a cancel during name resolution (562) are never counted out; after a
  failed connect `req->sock` is stale while the next target is resolved (373). The
  vector of targets of a global pool grows under the mutex while others read it
  without.
- HTTP/2 streams that are never closed: an upstream that refuses a stream with a
  chunk in flight (`core/proxy.c:606` does not call `proceed_req`); a request waiting for
  the handshake that is reset by the client (`stream.c:98` mistakes its link).
- A client that sends a part of a request body and falls silent has no idle timeout, unless the
  body is streamed to the handler: its stream counts as blocked by the server from the first
  DATA on (`lib/http2/connection.c:544-546`), and `update_idle_timeout` sets none then (156). To see it,
  add `partial` to the states of streams that `IdleTimeoutOn` allows.
- HTTP/2, others: an error from the upstream before the response frees the request
  within `proceed_request` (`connection.c:928`); CONNECT after GOAWAY is run (694).

## 8. Left out of modelled components

libuv variants; the creation of eventfds; `num_sessions` and statistics;
`close_idle_connections` for HTTP/1 and HTTP/3; TLS close handshakes that delay `on_close`; growth of the
vector of targets; `vhttp_http2_scheduler_find_parent_by_weight` and the Chromium
heuristics; server push, the HTTP/1 upgrade, input flow control and the priority
header of HTTP/2; the idle timeout during TLS early data, where it is always set; the
replay of such requests, request streaming, tunnels and empty sends that are not the last
in `H2Output`; the order of timers within a slot; the pipe reader
of the proxy.
