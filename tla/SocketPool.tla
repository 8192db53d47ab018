------------------------------ MODULE SocketPool ------------------------------
(***************************************************************************)
(* The pool of upstream connections, lib/common/socketpool.c: worker       *)
(* threads ask it for connections to one of its targets, get a pooled one  *)
(* or a new one, and return it when it is idle.  A pool is global (the     *)
(* target follows from the URL) or specific (a balancer chooses, and the   *)
(* next target is tried when one fails).                                   *)
(*                                                                         *)
(* A member of Conns stands for a connection from the request for it to    *)
(* its end.  `busy' tells where a thread is in the pool's code, and keeps  *)
(* its event loop from dispatching anything else meanwhile.  The counters  *)
(* are size_t in the code: below zero stands for a huge value.  The        *)
(* balancers of lib/common/balancer/ are at the end of the section on      *)
(* attempts.                                                               *)
(***************************************************************************)
EXTENDS Integers, Sequences, FiniteSets, Lists

CONSTANTS
    Threads, Conns, Targets,
    Named,        \* targets whose name has to be resolved
    Ssl,          \* targets that need a TLS handshake
    Weight,       \* conf.weight_m1 + 1 of each target
    TimerThread,  \* the thread of _interval_cb.loop
    Scenarios,    \* the setups to consider: which threads use the pool, whether
                  \* it is global, its balancer, and what may go wrong
    MaxDrift      \* bound: how far a counter may be off when a request starts

AllFailures == {"resolve", "socket", "connect", "handshake", "cancel", "dead", "export"}

\* those after which the code's counters are off: see GovernedExact, LeasedExact
Drifting == {"connect", "cancel", "dead"}

ASSUME SocketPoolAssumption ==
    /\ IsFiniteSet(Conns) /\ IsFiniteSet(Targets) /\ Targets # {} /\ TimerThread \in Threads
    /\ Named \subseteq Targets /\ Ssl \subseteq Targets /\ MaxDrift \in Nat
    /\ Weight \in [Targets -> 1 .. 256]
    /\ Scenarios \subseteq [threads : SUBSET Threads, global : BOOLEAN,
                            balancer : {"none", "rr", "lc"}, failures : SUBSET AllFailures]
    /\ \A sc \in Scenarios : TimerThread \in sc.threads /\ (sc.global <=> sc.balancer = "none")
    /\ Conns \cap {"no", "connect", "return", "lookup"} = {}
    /\ "none" \notin Threads \cup Targets

VARIABLES
    setup,     \* the scenario
    conn,      \* what there is of each connection: the request, the socket or
               \* the pooled entry
    busy,      \* "no"; "connect", "return": before check_pool_expired_locked;
               \* "lookup": at the head of the while; or the connection at hand
    mutex,     \* the thread that holds _shared.mutex
    want,      \* the target of the URL, while a thread is in connect
    all,       \* _shared.sockets
    sockets,   \* _shared.sockets of each target
    count, pooled_count, leased_count,
    old,       \* pooled connections past their timeout
    lb,        \* pos and consumed_weight of the round-robin balancer
    timer,     \* _interval_cb.timeout is linked
    disposed

lists == <<all, sockets, old>>
counters == <<count, pooled_count, leased_count>>
vars == <<setup, conn, busy, mutex, want, lists, counters, lb, timer, disposed>>

States == {"free", "try", "selected", "resolve", "socket", "connect", "handshake", "leased",
           "returning", "pooled", "testing"}

\* selected_target, lb.tried, remaining_try_count, and whether req->sock is a
\* socket that was closed
NoConn == [state |-> "free", owner |-> "none", target |-> "none", tried |-> {},
           left |-> 0, stale |-> FALSE]

global == setup.global   \* vhttp_socketpool_is_global

Is(s) == {c \in Conns : conn[c].state \in s}
Free == Is({"free"})
Idle(th) == busy[th] = "no" /\ ~disposed
Owns(th, c, s) == Idle(th) /\ conn[c].owner = th /\ conn[c].state = s
Busy(th, c, s) == busy[th] = c /\ conn[c].state = s
Set(c, s) == conn' = [conn EXCEPT ![c].state = s]
Drop(c) == conn' = [conn EXCEPT ![c] = NoConn]
Goto(th, b) == busy' = [busy EXCEPT ![th] = b]
Lease(t, n) == leased_count' = [leased_count EXCEPT ![t] = @ + n]

Init ==
    /\ setup \in Scenarios
    /\ conn = [c \in Conns |-> NoConn]
    /\ busy = [th \in Threads |-> "no"] /\ mutex = "none"
    /\ want = [th \in Threads |-> "none"]
    /\ all = <<>> /\ sockets = [t \in Targets |-> <<>>] /\ old = {}
    /\ count = 0 /\ pooled_count = 0 /\ leased_count = [t \in Targets |-> 0]
    /\ lb = [pos |-> 0, consumed |-> 0]   \* vhttp_balancer_create_rr
    /\ timer = TRUE   \* vhttp_socketpool_register_loop
    /\ disposed = FALSE

------------------------------------------------------------------------------
(* Expiration.  Each loop has its own clock: the list is not sorted by     *)
(* age, and the scan stops at the first entry that is not too old.         *)

\* destroy_expired_locked: the entries that go
Expired == {all[i] : i \in {j \in DOMAIN all : \A k \in 1 .. j : all[k] \in old}}

\* Mutation: destroy_attached forgets the list of the target.
CheckExpiredHalf(th, linked) ==
    LET Keep(s) == Without(s, Expired)
    IN /\ all' = Keep(all)
       /\ conn' = [c \in Conns |-> IF c \in Expired THEN NoConn ELSE conn[c]]
       /\ old' = old \ Expired
       /\ count' = count - Cardinality(Expired)
       /\ pooled_count' = pooled_count - Cardinality(Expired)
       /\ timer' = (linked \/ (th = TimerThread /\ Keep(all) # <<>>))
       /\ UNCHANGED <<sockets, leased_count>>

\* check_pool_expired_locked, called by the loop of th
CheckExpired(th, linked) ==
    LET Keep(s) == Without(s, Expired)
    IN /\ all' = Keep(all)
       /\ sockets' = [t \in Targets |-> Keep(sockets[t])]
       /\ conn' = [c \in Conns |-> IF c \in Expired THEN NoConn ELSE conn[c]]
       /\ old' = old \ Expired
       /\ count' = count - Cardinality(Expired)
       /\ pooled_count' = pooled_count - Cardinality(Expired)
       /\ timer' = (linked \/ (th = TimerThread /\ Keep(all) # <<>>))
       /\ UNCHANGED leased_count

\* time passes: the entry is older than the timeout
Age(c) ==
    /\ conn[c].state = "pooled" /\ c \notin old
    /\ old' = old \cup {c}
    /\ UNCHANGED <<setup, conn, busy, mutex, want, all, sockets, counters, timer, disposed>>

\* on_timeout, and its trylock that fails
OnTimeout ==
    /\ Idle(TimerThread) /\ timer /\ mutex = "none"
    /\ CheckExpired(TimerThread, FALSE)
    /\ UNCHANGED <<setup, busy, mutex, want, disposed>>

OnTimeoutLocked ==
    /\ Idle(TimerThread) /\ timer /\ mutex # "none"
    /\ timer' = FALSE
    /\ UNCHANGED <<setup, conn, busy, mutex, want, lists, counters, disposed>>

CheckInConnect(th) ==
    /\ busy[th] = "connect"
    /\ CheckExpired(th, timer)
    /\ Goto(th, "lookup")
    /\ UNCHANGED <<setup, mutex, want, disposed>>

CheckInReturn(th) ==
    /\ busy[th] = "return"
    /\ CheckExpired(th, timer)
    /\ Goto(th, "no") /\ mutex' = "none"
    /\ UNCHANGED <<setup, want, disposed>>

------------------------------------------------------------------------------
(* vhttp_socketpool_connect                                                *)

\* A request may not start while a counter is off by more than MaxDrift.
Bounded ==
    LET Range == -MaxDrift .. Cardinality(Conns) + MaxDrift
    IN count \in Range /\ \A t \in Targets : leased_count[t] \in Range

Connect(th, t) ==
    /\ Idle(th) /\ mutex = "none" /\ Bounded /\ Free # {}
    /\ global <=> t # "none"
    /\ mutex' = th
    /\ Goto(th, "connect")
    /\ want' = [want EXCEPT ![th] = t]
    /\ UNCHANGED <<setup, conn, lists, counters, timer, disposed>>

\* the list a connection is taken from
Source(th) == IF global THEN sockets[want[th]] ELSE all

\* pop the first entry and unlock; the mutex is taken again after a dead one
Pop(th) ==
    /\ busy[th] = "lookup" /\ mutex \in {th, "none"}
    /\ Source(th) # <<>>
    /\ LET c == Head(Source(th)) IN
        /\ all' = Without(all, {c})
        /\ sockets' = [sockets EXCEPT ![conn[c].target] = Without(@, {c})]
        /\ old' = old \ {c}
        /\ Set(c, "testing")
        /\ Goto(th, c)
    /\ mutex' = "none"
    /\ UNCHANGED <<setup, want, counters, timer, disposed>>

\* recv(MSG_PEEK) would block: the application gets the connection
TestAlive(th, c) ==
    /\ Busy(th, c, "testing")
    /\ pooled_count' = pooled_count - 1
    /\ Lease(conn[c].target, 1)
    /\ conn' = [conn EXCEPT ![c].state = "leased", ![c].owner = th]
    /\ Goto(th, "no") /\ want' = [want EXCEPT ![th] = "none"]
    /\ UNCHANGED <<setup, mutex, lists, count, timer, disposed>>

\* closed by the peer, or data received: destroy_detached, and look again
TestDead(th, c) ==
    /\ Busy(th, c, "testing") /\ "dead" \in setup.failures
    /\ pooled_count' = pooled_count - 1
    /\ Drop(c)
    /\ Goto(th, "lookup")
    /\ UNCHANGED <<setup, mutex, want, lists, count, leased_count, timer, disposed>>

\* nothing is pooled: unlock, and prepare a request
Miss(th, c) ==
    /\ busy[th] = "lookup" /\ mutex \in {th, "none"}
    /\ Source(th) = <<>> /\ c \in Free
    /\ conn' = [conn EXCEPT ![c] = [NoConn EXCEPT
                    !.state = "try", !.owner = th, !.target = want[th],
                    !.left = IF global THEN 1 ELSE Cardinality(Targets)]]
    /\ Goto(th, c) /\ want' = [want EXCEPT ![th] = "none"]
    /\ count' = count + 1
    /\ mutex' = "none"
    /\ UNCHANGED <<setup, lists, pooled_count, leased_count, timer, disposed>>

------------------------------------------------------------------------------
(* The attempts to connect                                                 *)

NumTargets == Cardinality(Targets)

\* targets.entries
Target == CHOOSE f \in [0 .. NumTargets - 1 -> Targets] :
              \A i, j \in DOMAIN f : f[i] = f[j] => i = j

\* selector of roundrobin.c: the first target from pos on that has not been
\* tried, and the state it leaves
RoundRobin(tried) ==
    LET At(k) == (lb.pos + k) % NumTargets
        skip == CHOOSE k \in 0 .. NumTargets - 1 :
                    Target[At(k)] \notin tried /\ \A j \in 0 .. k - 1 : Target[At(j)] \in tried
        consumed == (IF skip = 0 THEN lb.consumed ELSE 0) + 1
    IN [target |-> Target[At(skip)],
        lb |-> IF consumed >= Weight[Target[At(skip)]] THEN [pos |-> At(skip + 1), consumed |-> 0]
               ELSE [pos |-> At(skip), consumed |-> consumed]]

\* size_t and the products of uint64_t, at a width TLC can multiply
Wrap(n) == n % 1048576

\* selector of least_conn.c: best[i] is its result after i targets
LeastConn(tried) ==
    LET best[i \in 0 .. NumTargets] ==
            IF i = 0 THEN [target |-> "none", weight |-> 0, leased |-> 1]
            ELSE LET t == Target[i - 1]
                     leased == Wrap(leased_count[t])
                 IN IF t \notin tried
                        /\ Wrap(leased * best[i - 1].weight) < Wrap(best[i - 1].leased * Weight[t])
                    THEN [target |-> t, weight |-> Weight[t], leased |-> leased]
                    ELSE best[i - 1]
    IN best[NumTargets].target

\* balancer->callbacks->select_
Selector(tried) == IF setup.balancer = "rr" THEN RoundRobin(tried).target ELSE LeastConn(tried)

\* Mutation: the target is not marked as tried.
SelectUnmarked(th, c) ==
    /\ Busy(th, c, "try")
    /\ LET tried == conn[c].tried
           asks == ~global /\ NumTargets > 1
           t == IF asks THEN Selector(tried) ELSE IF global THEN conn[c].target ELSE Target[0]
       IN /\ lb' = IF asks /\ setup.balancer = "rr" THEN RoundRobin(tried).lb ELSE lb
          /\ conn' = [conn EXCEPT ![c].target = t, ![c].left = @ - 1, ![c].state = "selected"]
    /\ UNCHANGED <<setup, busy, mutex, want, lists, counters, timer, disposed>>

\* try_connect up to the counter: a specific pool of several targets asks its
\* balancer
Select(th, c) ==
    /\ Busy(th, c, "try")
    /\ LET tried == conn[c].tried
           asks == ~global /\ NumTargets > 1
           t == IF asks THEN Selector(tried) ELSE IF global THEN conn[c].target ELSE Target[0]
       IN /\ lb' = IF asks /\ setup.balancer = "rr" THEN RoundRobin(tried).lb ELSE lb
          /\ conn' = [conn EXCEPT ![c].target = t, ![c].left = @ - 1, ![c].state = "selected",
                                  ![c].tried = IF asks THEN @ \cup {t} ELSE @]
    /\ UNCHANGED <<setup, busy, mutex, want, lists, counters, timer, disposed>>

\* the rest of try_connect
TryConnect(th, c) ==
    /\ Busy(th, c, "selected")
    /\ LET named == conn[c].target \in Named
       IN Set(c, IF named THEN "resolve" ELSE "socket") /\ Goto(th, IF named THEN "no" ELSE c)
    /\ Lease(conn[c].target, 1)
    /\ UNCHANGED <<setup, mutex, want, lists, count, pooled_count, timer, disposed>>

\* try the next target, or call the callback with an error
TryNextOrFail(th, c, stale) ==
    /\ IF conn[c].left > 0
       THEN /\ conn' = [conn EXCEPT ![c].state = "try", ![c].stale = stale]
            /\ Goto(th, c)
       ELSE Drop(c) /\ Goto(th, "no")
    /\ UNCHANGED <<setup, mutex, want, lists, timer, disposed>>

\* whether the pool's counter is decremented: no target is left
GiveUp(c) == IF conn[c].left > 0 THEN 0 ELSE 1

\* on_getaddr
Resolved(th, c) ==
    /\ Owns(th, c, "resolve")
    /\ Set(c, "socket") /\ Goto(th, c)
    /\ UNCHANGED <<setup, mutex, want, lists, counters, timer, disposed>>

ResolveFailed(th, c) ==
    /\ Owns(th, c, "resolve") /\ "resolve" \in setup.failures
    /\ Lease(conn[c].target, -1)
    /\ count' = count - GiveUp(c)
    /\ TryNextOrFail(th, c, conn[c].stale)
    /\ UNCHANGED pooled_count

\* start_connect
StartConnect(th, c) ==
    /\ Busy(th, c, "socket")
    /\ conn' = [conn EXCEPT ![c].state = "connect", ![c].stale = FALSE]
    /\ Goto(th, "no")
    /\ UNCHANGED <<setup, mutex, want, lists, counters, timer, disposed>>

SocketFailed(th, c) ==
    /\ Busy(th, c, "socket") /\ "socket" \in setup.failures
    /\ Lease(conn[c].target, -1)
    /\ count' = count - GiveUp(c)
    /\ TryNextOrFail(th, c, FALSE)
    /\ UNCHANGED pooled_count

\* on_connect, then on_handshake_complete
Connected(th, c) ==
    /\ Owns(th, c, "connect")
    /\ Set(c, IF conn[c].target \in Ssl THEN "handshake" ELSE "leased")
    /\ UNCHANGED <<setup, busy, mutex, want, lists, counters, timer, disposed>>

\* Its own decrement, then vhttp_socket_close, which calls on_close; req->sock
\* is cleared only when no target is left.
ConnectFailed(th, c) ==
    /\ Owns(th, c, "connect") /\ "connect" \in setup.failures
    /\ Lease(conn[c].target, -2)
    /\ count' = count - 1 - GiveUp(c)
    /\ TryNextOrFail(th, c, TRUE)
    /\ UNCHANGED pooled_count

\* Mutation: only the counter of the pool is updated.
OnCloseHalf(c) ==
    /\ count' = count - 1
    /\ UNCHANGED <<leased_count, pooled_count>>

\* on_close of a socket whose close callback is set
OnClose(c) ==
    /\ Lease(conn[c].target, -1)
    /\ count' = count - 1
    /\ UNCHANGED pooled_count

HandshakeDone(th, c) ==
    /\ Owns(th, c, "handshake")
    /\ Set(c, "leased")
    /\ UNCHANGED <<setup, busy, mutex, want, lists, counters, timer, disposed>>

HandshakeFailed(th, c) ==
    /\ Owns(th, c, "handshake") /\ "handshake" \in setup.failures
    /\ OnClose(c) /\ Drop(c)
    /\ UNCHANGED <<setup, busy, mutex, want, lists, timer, disposed>>

\* vhttp_socketpool_cancel_connect.  Closing a socket that was closed before
\* is undefined: on_close may run again.
Cancel(th, c) ==
    /\ "cancel" \in setup.failures
    /\ \E s \in {"resolve", "connect", "handshake"} : Owns(th, c, s)
    /\ \E closes \in IF conn[c].state # "resolve" THEN {1}
                     ELSE IF conn[c].stale THEN {0, 1} ELSE {0} :
        /\ Lease(conn[c].target, IF global THEN -closes ELSE -closes - 1)
        /\ count' = count - closes
    /\ Drop(c)
    /\ UNCHANGED <<setup, busy, mutex, want, lists, pooled_count, timer, disposed>>

------------------------------------------------------------------------------
(* The application's connections                                           *)

\* vhttp_socketpool_return up to the critical section
Return(th, c) ==
    /\ Owns(th, c, "leased")
    /\ Lease(conn[c].target, -1)
    /\ pooled_count' = pooled_count + 1
    /\ Set(c, "returning") /\ Goto(th, c)
    /\ UNCHANGED <<setup, mutex, want, lists, count, timer, disposed>>

\* vhttp_socket_export fails
ReturnFailed(th, c) ==
    /\ Owns(th, c, "leased") /\ "export" \in setup.failures
    /\ OnClose(c) /\ Drop(c)
    /\ UNCHANGED <<setup, busy, mutex, want, lists, timer, disposed>>

Insert(th, c) ==
    /\ Busy(th, c, "returning") /\ mutex = "none"
    /\ mutex' = th
    /\ all' = Append(all, c)
    /\ sockets' = [sockets EXCEPT ![conn[c].target] = Append(@, c)]
    /\ conn' = [conn EXCEPT ![c] = [NoConn EXCEPT !.state = "pooled", !.target = conn[c].target]]
    /\ Goto(th, "return")
    /\ UNCHANGED <<setup, want, old, counters, timer, disposed>>

\* vhttp_socketpool_detach, or vhttp_socket_close and its on_close
DetachOrClose(th, c) ==
    /\ Owns(th, c, "leased")
    /\ OnClose(c) /\ Drop(c)
    /\ UNCHANGED <<setup, busy, mutex, want, lists, timer, disposed>>

\* The owner of the pool sees to it that nobody uses it any more.
Dispose ==
    /\ \A th \in Threads : Idle(th)
    /\ Is(States \ {"free", "pooled"}) = {}
    /\ conn' = [c \in Conns |-> NoConn]
    /\ count' = count - Len(all) /\ pooled_count' = pooled_count - Len(all)
    /\ all' = <<>> /\ sockets' = [t \in Targets |-> <<>>] /\ old' = {}
    /\ timer' = FALSE /\ disposed' = TRUE
    /\ UNCHANGED <<setup, busy, mutex, want, leased_count>>

------------------------------------------------------------------------------
\* A thread in the pool's code goes on.
Running(th) ==
    \/ CheckInConnect(th) \/ CheckInReturn(th) \/ Pop(th)
    \/ \E c \in Conns :
        \/ TestAlive(th, c) \/ TestDead(th, c) \/ Miss(th, c) \/ TryConnect(th, c)
        \/ StartConnect(th, c) \/ SocketFailed(th, c) \/ Insert(th, c)

\* The loop of the thread hears of the outcome of an attempt.
Answer(th, c) ==
    \/ Resolved(th, c) \/ ResolveFailed(th, c)
    \/ Connected(th, c) \/ ConnectFailed(th, c)
    \/ HandshakeDone(th, c) \/ HandshakeFailed(th, c)

Application(th) ==
    \/ \E t \in Targets \cup {"none"} : Connect(th, t)
    \/ \E c \in Conns : Cancel(th, c) \/ Return(th, c) \/ ReturnFailed(th, c) \/ DetachOrClose(th, c)

\* Everything that leaves the balancer alone
Unbalanced ==
    \/ \E th \in setup.threads :
        Running(th) \/ Application(th) \/ \E c \in Conns : Answer(th, c)
    \/ \E c \in Conns : Age(c)
    \/ OnTimeout \/ OnTimeoutLocked \/ Dispose

Next ==
    \/ \E th \in setup.threads, c \in Conns : Select(th, c)
    \/ Unbalanced /\ UNCHANGED lb

Spec == Init /\ [][Next]_vars

------------------------------------------------------------------------------
TypeOK ==
    /\ setup \in Scenarios /\ timer \in BOOLEAN /\ disposed \in BOOLEAN
    /\ lb \in [pos : 0 .. NumTargets - 1, consumed : 0 .. 255]
    /\ conn \in [Conns -> [state : States, owner : Threads \cup {"none"},
                           target : Targets \cup {"none"}, tried : SUBSET Targets,
                           left : 0 .. Cardinality(Targets), stale : BOOLEAN]]
    /\ busy \in [Threads -> {"no", "connect", "return", "lookup"} \cup Conns]
    /\ mutex \in Threads \cup {"none"} /\ want \in [Threads -> Targets \cup {"none"}]
    /\ all \in Seq(Conns) /\ sockets \in [Targets -> Seq(Conns)] /\ old \subseteq Conns
    /\ count \in Int /\ pooled_count \in Nat /\ leased_count \in [Targets -> Int]

\* A pooled connection is linked once in the list of the pool and once in that
\* of its target, in the same order, and nothing else is linked: a connection
\* that connect popped, or that expired, cannot be handed out again.
ListsAgree ==
    /\ Distinct(all) /\ Elements(all) = Is({"pooled"})
    /\ \A t \in Targets :
        /\ Distinct(sockets[t])
        /\ Elements(sockets[t]) = {c \in Is({"pooled"}) : conn[c].target = t}
        /\ \A x, y \in Elements(sockets[t]) : Before(sockets[t], x, y) <=> Before(all, x, y)
    /\ old \subseteq Is({"pooled"})

\* pooled_count is the length of the list plus the connections that were just
\* popped or are about to be inserted: it is updated outside of the mutex, and
\* httpclient.c reads it without, but it never wraps around.
PooledExact == pooled_count = Cardinality(Is({"pooled", "testing", "returning"}))

\* "Sets the upstream timeout for idle connections" (the documentation of
\* proxy.timeout.keepalive): while connections are pooled the timer that
\* expires them is linked.  Only where its thread is alone: otherwise
\* on_timeout may find the mutex taken, and is not linked again before its
\* thread calls the pool.
IdleTimerLinked ==
    setup.threads = {TimerThread} /\ busy[TimerThread] = "no" /\ all # <<>> => timer

\* The lists of the pool, what is counted of them and the timer agree, under
\* any failure.
PoolInv == TypeOK /\ ListsAgree /\ PooledExact /\ IdleTimerLinked

\* "number of connections governed by the pool, includes sockets being pool and
\* the ones trying to connect" (socketpool.h)
GovernedExact == count = Cardinality(Conns \ Free)

\* "number of connections being _leased_ to the applications (i.e. not including
\* the number of connections being pooled)" (socketpool.h), the ones that are
\* being connected included
LeasedExact ==
    \A t \in Targets :
        leased_count[t] = Cardinality({c \in Is({"resolve", "socket", "connect",
                                                  "handshake", "leased"}) :
                                        conn[c].target = t})

\* Both counters are exact in every interleaving of connects, failed
\* resolutions, failed handshakes, returns and expirations, as long as nothing
\* of Drifting happens.
CountersExact == setup.failures \cap Drifting = {} => GovernedExact /\ LeasedExact

\* As long as tries remain there is a target left to try: the balancer finds
\* one, and try_connect's assertion that it was not tried holds.
TriesLeft ==
    ~global /\ NumTargets > 1 =>
        \A c \in Is({"try", "selected", "resolve", "socket", "connect", "handshake"}) :
            conn[c].left = Cardinality(Targets \ conn[c].tried)

\* Whatever was tried and failed before, the next requests of a round-robin
\* pool are spread according to the weights: the rest of the turn of the target
\* at pos is not empty and not more than its weight.
TurnWithinWeight == lb.consumed < Weight[Target[lb.pos]]

BalancerInv == TriesLeft /\ TurnWithinWeight
==============================================================================
