------------------------------ MODULE WorkerLoop ------------------------------
(***************************************************************************)
(* The main loop of the worker threads (run_loop of src/main.c): the       *)
(* process-wide connection counters, the listeners that each thread turns  *)
(* off when max_connections is reached and on again when it is told that a *)
(* slot is free, and the graceful shutdown.                                *)
(*                                                                         *)
(* Each atomic instruction is a step; so is notify_all_threads, as          *)
(* MultithreadQueue shows that its messages are not lost.  An evloop_run   *)
(* handles any number of ready events (pc "run") before it returns.        *)
(***************************************************************************)
EXTENDS Integers, FiniteSets

CONSTANTS
    Workers,         \* worker threads
    Clients,         \* TCP clients; each connects at most once
    QuicClients,     \* QUIC clients
    MaxConnections,  \* conf.max_connections
    MaxQuic,         \* conf.max_quic_connections
    MaxInitials,     \* bound on the initial packets QUIC clients send
    NumAccepts       \* num_accepts of on_accept (10 in the code)

ASSUME WorkerLoopAssumption ==
    /\ IsFiniteSet(Workers) /\ IsFiniteSet(Clients) /\ IsFiniteSet(QuicClients)
    /\ Clients \cap QuicClients = {}
    /\ Workers \cap {"new", "backlog", "closed"} = {}
    /\ MaxConnections \in Nat \ {0} /\ MaxQuic \in Nat /\ MaxInitials \in Nat /\ NumAccepts \in Nat \ {0}

VARIABLES
    num,        \* conf.state._num_connections
    numQuic,    \* conf.state._num_quic_connections
    initials,   \* initial packets sent so far
    client,     \* "new", "backlog", "closed" or the thread that serves it
    pc,         \* where each thread is
    after,      \* where it goes once notify_all_threads returns
    accepts,    \* num_accepts of the on_accept that runs
    reading,    \* threads whose listening sockets are polled
    stopping,   \* threads that left the main loop
    stopped,    \* threads that closed their listeners
    eventfd,    \* threads with a pending notification
    sigterm,    \* "no", "flag" (shutdown_requested is set) or "sent"
    exited      \* _exit(0)

cvars == <<num, numQuic, initials, client>>
lvars == <<reading, stopping, stopped>>
vars == <<cvars, pc, after, accepts, lvars, eventfd, sigterm, exited>>

All == Clients \cup QuicClients

Init ==
    /\ num = 0 /\ numQuic = 0 /\ initials = 0
    /\ client = [c \in All |-> "new"]
    /\ pc = [w \in Workers |-> "loop"] /\ after = [w \in Workers |-> "loop"]
    /\ accepts = [w \in Workers |-> 0]
    /\ reading = Workers /\ stopping = {} /\ stopped = {} /\ eventfd = {}
    /\ sigterm = "no" /\ exited = FALSE

At(w, at) == ~exited /\ pc[w] \in at
Goto(w, to) == pc' = [pc EXCEPT ![w] = to]

\* Mutation: the new value is compared with the limit.
ReleaseComparesNew(w, to) ==
    /\ num' = num - 1
    /\ IF num' = MaxConnections
       THEN Goto(w, "notify") /\ after' = [after EXCEPT ![w] = to]
       ELSE Goto(w, to) /\ UNCHANGED after

\* num_connections(-1): the thread that takes the counter from
\* max_connections to one below it notifies everyone
Release(w, to) ==
    /\ num' = num - 1
    /\ IF num = MaxConnections
       THEN Goto(w, "notify") /\ after' = [after EXCEPT ![w] = to]
       ELSE Goto(w, to) /\ UNCHANGED after

NotifyAllThreads(w) ==
    /\ At(w, {"notify"})
    /\ eventfd' = Workers
    /\ Goto(w, after[w])
    /\ after' = [after EXCEPT ![w] = "loop"]
    /\ UNCHANGED <<cvars, accepts, lvars, sigterm, exited>>

------------------------------------------------------------------------------
(* run_loop                                                                *)

TestShutdown(w) ==
    /\ At(w, {"loop"})
    /\ Goto(w, IF sigterm = "no" THEN "update" ELSE "stop")
    /\ UNCHANGED <<cvars, after, accepts, lvars, eventfd, sigterm, exited>>

UpdateListenerState(w) ==
    /\ At(w, {"update"})
    /\ reading' = IF num < MaxConnections THEN reading \cup {w} ELSE reading \ {w}
    /\ Goto(w, "poll")
    /\ UNCHANGED <<cvars, after, accepts, stopping, stopped, eventfd, sigterm, exited>>

OnNotification(w) ==
    /\ At(w, {"poll", "run"}) /\ w \in eventfd
    /\ eventfd' = eventfd \ {w}
    /\ Goto(w, "run")
    /\ UNCHANGED <<cvars, after, accepts, lvars, sigterm, exited>>

\* vhttp_evloop_run returns
EvloopReturn(w) ==
    /\ At(w, {"run"})
    /\ Goto(w, IF w \in stopped THEN "drain" ELSE IF w \in stopping THEN "close" ELSE "loop")
    /\ UNCHANGED <<cvars, after, accepts, lvars, eventfd, sigterm, exited>>

\* vhttp_socket_read_stop, then an evloop_run that does not wait
StopListening(w) ==
    /\ At(w, {"stop"})
    /\ stopping' = stopping \cup {w} /\ reading' = reading \ {w}
    /\ Goto(w, "run")
    /\ UNCHANGED <<cvars, after, accepts, stopped, eventfd, sigterm, exited>>

\* close the TCP listeners, reset the QUIC acceptors, request_shutdown
CloseListeners(w) ==
    /\ At(w, {"close"})
    /\ stopped' = stopped \cup {w}
    /\ Goto(w, "drain")
    /\ UNCHANGED <<cvars, after, accepts, reading, stopping, eventfd, sigterm, exited>>

\* while (num_connections(0) != 0), then _exit
TestDrained(w) ==
    /\ At(w, {"drain"})
    /\ IF num = 0 THEN exited' = TRUE /\ UNCHANGED pc
                  ELSE Goto(w, "poll") /\ UNCHANGED exited
    /\ UNCHANGED <<cvars, after, accepts, lvars, eventfd, sigterm>>

------------------------------------------------------------------------------
(* on_accept                                                               *)

\* Mutation: the test of err is inverted.
OnAcceptReturns(w) ==
    /\ At(w, {"poll", "run"}) /\ w \in reading
    /\ \E c \in Clients : client[c] = "backlog"
    /\ Goto(w, "run")
    /\ UNCHANGED <<cvars, after, accepts, lvars, eventfd, sigterm, exited>>

OnAccept(w) ==
    /\ At(w, {"poll", "run"}) /\ w \in reading
    /\ \E c \in Clients : client[c] = "backlog"
    /\ accepts' = [accepts EXCEPT ![w] = NumAccepts]
    /\ Goto(w, "accept")
    /\ UNCHANGED <<cvars, after, lvars, eventfd, sigterm, exited>>

\* Mutation: > instead of >=.
ReserveOneMore(w) ==
    /\ At(w, {"accept"})
    /\ num' = num + 1
    /\ Goto(w, IF num > MaxConnections THEN "refused" ELSE "granted")
    /\ UNCHANGED <<numQuic, initials, client, after, accepts, lvars, eventfd, sigterm, exited>>

\* num_connections(1) >= conf.max_connections
Reserve(w) ==
    /\ At(w, {"accept"})
    /\ num' = num + 1
    /\ Goto(w, IF num >= MaxConnections THEN "refused" ELSE "granted")
    /\ UNCHANGED <<numQuic, initials, client, after, accepts, lvars, eventfd, sigterm, exited>>

Refused(w) ==
    /\ At(w, {"refused"})
    /\ Release(w, "run")
    /\ accepts' = [accepts EXCEPT ![w] = 0]
    /\ UNCHANGED <<numQuic, initials, client, lvars, eventfd, sigterm, exited>>

AcceptSocket(w, c) ==
    /\ At(w, {"granted"}) /\ client[c] = "backlog"
    /\ client' = [client EXCEPT ![c] = w]
    /\ accepts' = [accepts EXCEPT ![w] = @ - 1]
    /\ Goto(w, IF accepts[w] = 1 THEN "run" ELSE "accept")
    /\ UNCHANGED <<num, numQuic, initials, after, lvars, eventfd, sigterm, exited>>

\* Mutation: the reservation is kept when accept fails.
AcceptNothingKeeps(w) ==
    /\ At(w, {"granted"}) /\ \A c \in Clients : client[c] # "backlog"
    /\ Goto(w, "run")
    /\ accepts' = [accepts EXCEPT ![w] = 0]
    /\ UNCHANGED <<cvars, after, lvars, eventfd, sigterm, exited>>

\* another thread took the last connection of the backlog
AcceptNothing(w) ==
    /\ At(w, {"granted"}) /\ \A c \in Clients : client[c] # "backlog"
    /\ Release(w, "run")
    /\ accepts' = [accepts EXCEPT ![w] = 0]
    /\ UNCHANGED <<numQuic, initials, client, lvars, eventfd, sigterm, exited>>

\* on_socketclose: the peer, the application, a timeout, the shutdown, or
\* close_idle_connections at the head of the accept loop
SocketClose(w, c) ==
    /\ At(w, {"poll", "run", "accept"}) /\ client[c] = w /\ c \in Clients
    /\ client' = [client EXCEPT ![c] = "closed"]
    /\ Release(w, IF pc[w] = "accept" THEN "accept" ELSE "run")
    /\ UNCHANGED <<numQuic, initials, accepts, lvars, eventfd, sigterm, exited>>

------------------------------------------------------------------------------
(* on_http3_accept and on_http3_conn_destroy                               *)

\* The initial packet of c arrives: UDP sockets are polled whatever the limit.
QuicReserve(w) ==
    /\ At(w, {"poll", "run"}) /\ w \notin stopped
    /\ \E c \in QuicClients : client[c] = "new"
    /\ initials < MaxInitials /\ initials' = initials + 1
    /\ num' = num + 1
    /\ Goto(w, IF num >= MaxConnections THEN "refused" ELSE "quic")
    /\ UNCHANGED <<numQuic, client, after, accepts, lvars, eventfd, sigterm, exited>>

QuicReserveQuic(w) ==
    /\ At(w, {"quic"})
    /\ numQuic' = numQuic + 1
    /\ Goto(w, IF numQuic >= MaxQuic THEN "quic_undo" ELSE "quic_granted")
    /\ UNCHANGED <<num, initials, client, after, accepts, lvars, eventfd, sigterm, exited>>

QuicEstablish(w, c) ==
    /\ At(w, {"quic_granted"}) /\ client[c] = "new" /\ c \in QuicClients
    /\ client' = [client EXCEPT ![c] = w]
    /\ Goto(w, "run")
    /\ UNCHANGED <<num, numQuic, initials, after, accepts, lvars, eventfd, sigterm, exited>>

\* retry sent, invalid token, undecryptable, or closed at once
QuicReject(w) ==
    /\ At(w, {"quic_granted"})
    /\ Goto(w, "quic_undo")
    /\ UNCHANGED <<cvars, after, accepts, lvars, eventfd, sigterm, exited>>

\* num_connections(-1), then num_quic_connections(-1)
QuicUndo(w) ==
    /\ At(w, {"quic_undo"})
    /\ Release(w, "quic_undo2")
    /\ UNCHANGED <<numQuic, initials, client, accepts, lvars, eventfd, sigterm, exited>>

QuicUndoQuic(w) ==
    /\ At(w, {"quic_undo2"})
    /\ numQuic' = numQuic - 1
    /\ Goto(w, "run")
    /\ UNCHANGED <<num, initials, client, after, accepts, lvars, eventfd, sigterm, exited>>

QuicClose(w, c) ==
    /\ At(w, {"poll", "run"}) /\ client[c] = w /\ c \in QuicClients
    /\ client' = [client EXCEPT ![c] = "closed"]
    /\ Goto(w, "quic_undo")
    /\ UNCHANGED <<num, numQuic, initials, after, accepts, lvars, eventfd, sigterm, exited>>

------------------------------------------------------------------------------
(* The environment                                                         *)

Connect(c) ==
    /\ ~exited /\ c \in Clients /\ client[c] = "new"
    /\ stopped # Workers
    /\ client' = [client EXCEPT ![c] = "backlog"]
    /\ UNCHANGED <<num, numQuic, initials, pc, after, accepts, lvars, eventfd, sigterm, exited>>

\* on_sigterm: the flag, then notify_all_threads
SetShutdownRequested ==
    /\ ~exited /\ sigterm = "no"
    /\ sigterm' = "flag"
    /\ UNCHANGED <<cvars, pc, after, accepts, lvars, eventfd, exited>>

\* Mutation: nobody is notified.
NotifyNobody ==
    /\ ~exited /\ sigterm = "flag"
    /\ sigterm' = "sent"
    /\ UNCHANGED <<cvars, pc, after, accepts, lvars, eventfd, exited>>

NotifyShutdown ==
    /\ ~exited /\ sigterm = "flag"
    /\ sigterm' = "sent" /\ eventfd' = Workers
    /\ UNCHANGED <<cvars, pc, after, accepts, lvars, exited>>

Exited == exited /\ UNCHANGED vars

------------------------------------------------------------------------------
ThreadStep(w) ==
    \/ NotifyAllThreads(w) \/ TestShutdown(w) \/ UpdateListenerState(w)
    \/ OnNotification(w) \/ EvloopReturn(w) \/ StopListening(w) \/ CloseListeners(w)
    \/ TestDrained(w)
    \/ OnAccept(w) \/ Reserve(w) \/ Refused(w) \/ AcceptNothing(w)
    \/ QuicReserveQuic(w) \/ QuicUndo(w) \/ QuicUndoQuic(w) \/ QuicReject(w)
    \/ \E c \in Clients : AcceptSocket(w, c)

CloseSome(w) ==
    \/ \E c \in Clients : SocketClose(w, c)
    \/ \E c \in QuicClients : QuicClose(w, c)

Next ==
    \/ \E w \in Workers :
        \/ ThreadStep(w) \/ CloseSome(w) \/ QuicReserve(w)
        \/ \E c \in QuicClients : QuicEstablish(w, c)
    \/ \E c \in Clients : Connect(c)
    \/ SetShutdownRequested \/ NotifyShutdown \/ Exited

\* Threads run, each evloop_run returns (it handles every socket that is ready
\* once), the signal handler returns, and connections end sooner or later
\* (the client leaves, a timeout fires, or the shutdown closes them); nobody
\* has to connect.
Fairness ==
    /\ \A w \in Workers :
        WF_vars(ThreadStep(w)) /\ SF_vars(EvloopReturn(w)) /\ WF_vars(CloseSome(w))
    /\ WF_vars(NotifyShutdown)

SafeSpec == Init /\ [][Next]_vars
Spec == SafeSpec /\ Fairness

------------------------------------------------------------------------------
\* Threads between their num_connections(1) and what follows from it
Reserving == {w \in Workers : pc[w] \in {"refused", "granted", "quic", "quic_granted", "quic_undo"}}
Established == {c \in All : client[c] \in Workers}

TypeOK ==
    /\ num \in 0 .. MaxConnections + Cardinality(Workers)
    /\ numQuic \in 0 .. MaxQuic + Cardinality(Workers) /\ initials \in 0 .. MaxInitials
    /\ client \in [All -> Workers \cup {"new", "backlog", "closed"}]
    /\ pc \in [Workers -> {"loop", "update", "poll", "run", "notify", "stop", "close", "drain",
                           "accept", "refused", "granted", "quic", "quic_granted",
                           "quic_undo", "quic_undo2"}]
    /\ after \in [Workers -> {"loop", "run", "accept", "quic_undo2"}]
    /\ accepts \in [Workers -> 0 .. NumAccepts]
    /\ reading \subseteq Workers /\ stopped \subseteq stopping /\ stopping \subseteq Workers
    /\ eventfd \subseteq Workers
    /\ sigterm \in {"no", "flag", "sent"} /\ exited \in BOOLEAN

\* Threads between their num_quic_connections(1) and their num_quic_connections(-1)
ReservingQuic ==
    {w \in Workers : \/ pc[w] \in {"quic_granted", "quic_undo", "quic_undo2"}
                     \/ pc[w] = "notify" /\ after[w] = "quic_undo2"}

\* Each counter is the number of connections plus the reservations in flight,
\* whatever the interleaving of accepts, refusals and closes: neither drifts,
\* although a QUIC connection takes and gives back both.
CountExact ==
    /\ num = Cardinality(Established) + Cardinality(Reserving)
    /\ numQuic = Cardinality(Established \cap QuicClients) + Cardinality(ReservingQuic)

\* The accounting of connections, and the type of every variable.
WorkerInv == TypeOK /\ CountExact

\* Never more than max_connections connections are served at a time, TCP and
\* QUIC together, although every thread checks the counter on its own, nor more
\* than max_quic_connections QUIC ones.
ConnectionLimit ==
    /\ Cardinality(Established) <= MaxConnections
    /\ Cardinality(Established \cap QuicClients) <= MaxQuic

\* A thread that sleeps with its listeners turned off is going to be woken as
\* soon as there is room: only one decrement notifies, and it is not missed.
ListenerResumes ==
    \A w \in Workers :
        pc[w] = "poll" /\ w \notin reading \cup stopped \cup eventfd
            => \/ num >= MaxConnections
               \/ \E v \in Workers : pc[v] = "notify"

\* While a client waits in the backlog the threads keep trying to accept it, as
\* connections end and slots become free.  (That a try succeeds is not certain:
\* the transient reservations of two threads may refuse each other repeatedly.)
BacklogRetried ==
    (\E c \in Clients : client[c] = "backlog")
        ~> \/ \E w \in Workers : pc[w] = "accept"
           \/ \A c \in Clients : client[c] # "backlog"
           \/ sigterm # "no"

\* run_loop's comment: "At least one worker thread that closed the last
\* connection, turning num_connections(0) to zero, will exit from this loop".
ShutdownCompletes == (sigterm # "no") ~> exited
==============================================================================
