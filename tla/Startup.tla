------------------------------- MODULE Startup -------------------------------
(***************************************************************************)
(* How src/main.c brings the worker threads up, and what a SIGTERM does    *)
(* meanwhile: main() sets the TLS tickets up and starts the threads;       *)
(* run_loop registers the receivers of each thread, meets the others at    *)
(* startup_sync_barrier_init, lets thread 0 install the signal handler     *)
(* that notifies all threads, and meets the others (and, with QUIC, the    *)
(* ticket updater of src/ssl.c) at startup_sync_barrier_post.              *)
(*                                                                         *)
(* A signal handler runs on any live thread and suspends it; the handler   *)
(* is chosen when the signal is delivered.  vhttp_multithread_send_message *)
(* is one step here: MultithreadQueue shows that no notification is lost.  *)
(***************************************************************************)
EXTENDS Integers, FiniteSets

CONSTANTS
    Workers,      \* the threads that execute run_loop
    Main,         \* thread 0, the one that executes main()
    Updater,      \* the session ticket updater thread
    Modes,        \* "plain", "tls" (tickets) or "quic" (tickets are waited for)
    MaxSignals    \* bound on the SIGTERMs delivered

ASSUME StartupAssumption ==
    /\ IsFiniteSet(Workers) /\ Main \in Workers /\ Updater \notin Workers
    /\ Modes \subseteq {"plain", "tls", "quic"} /\ MaxSignals \in Nat

VARIABLES
    mode,                \* what the configuration asks for
    pc,                  \* where each thread is
    registered,          \* threads whose server_notifications is registered
    ticketsReady,        \* session_tickets.tickets is not empty
    handler,             \* the disposition of SIGTERM
    sig,                 \* the handler running on top of each thread
    signals,             \* SIGTERMs delivered so far
    shutdown_requested,  \* conf.shutdown_requested
    eventfd,             \* threads whose queue was written to
    exited,              \* exit(0) was called
    initCount, initWaiter,  \* startup_sync_barrier_init
    postCount, postWaiter   \* startup_sync_barrier_post

Threads == Workers \cup {Updater}

IB == INSTANCE ThreadBarrier WITH Threads <- Workers,
        count <- initCount, waiter <- initWaiter
PB == INSTANCE ThreadBarrier WITH Threads <- Threads,
        count <- postCount, waiter <- postWaiter

ivars == <<initCount, initWaiter>>
pvars == <<postCount, postWaiter>>
svars == <<handler, sig, signals, shutdown_requested, eventfd>>
vars == <<mode, pc, registered, ticketsReady, exited, svars, ivars, pvars>>

Init ==
    /\ mode \in Modes
    /\ pc = [t \in Threads |-> IF t = Main THEN "setup" ELSE "none"]
    /\ registered = {} /\ ticketsReady = FALSE
    /\ handler = "flag"   \* setup_signal_handlers
    /\ sig = [t \in Threads |-> "none"] /\ signals = 0
    /\ shutdown_requested = FALSE /\ eventfd = {} /\ exited = FALSE
    /\ IB!Init(Cardinality(Workers)) /\ PB!Init(Cardinality(Workers))

Runs(t, at) == ~exited /\ sig[t] = "none" /\ pc[t] = at
Goto(t, to) == pc' = [pc EXCEPT ![t] = to]

------------------------------------------------------------------------------
(* main()                                                                  *)

\* ssl_setup_session_resumption: announce the updater to the barrier, start it
SetupTickets ==
    /\ Runs(Main, "setup")
    /\ pc' = [pc EXCEPT ![Main] = "start",
                        ![Updater] = IF mode = "plain" THEN "none" ELSE "load"]
    /\ IF mode = "quic" THEN PB!Add(1) ELSE UNCHANGED pvars
    /\ UNCHANGED <<mode, registered, ticketsReady, exited, svars, ivars>>

StartThreads ==
    /\ Runs(Main, "start")
    /\ pc' = [t \in Threads |-> IF t \in Workers THEN "init" ELSE pc[t]]
    /\ UNCHANGED <<mode, registered, ticketsReady, exited, svars, ivars, pvars>>

------------------------------------------------------------------------------
(* run_loop                                                                *)

InitContext(t) ==
    /\ Runs(t, "init")
    /\ registered' = registered \cup {t}
    /\ Goto(t, "ready")
    /\ UNCHANGED <<mode, ticketsReady, exited, svars, ivars, pvars>>

\* vhttp_barrier_wait(&conf.startup_sync_barrier_init)
WaitInit(t) ==
    /\ Runs(t, "ready")
    /\ IB!Wait(t) /\ Goto(t, "init_wait")
    /\ UNCHANGED <<mode, registered, ticketsReady, exited, svars, pvars>>

LeaveInit(t) ==
    /\ Runs(t, "init_wait")
    /\ \/ IB!Recheck(t) /\ UNCHANGED pc
       \/ IB!Leave(t) /\ Goto(t, IF t = Main THEN "install" ELSE "post")
    /\ UNCHANGED <<mode, registered, ticketsReady, exited, svars, pvars>>

\* pthread_cond_wait of either barrier returns without a broadcast
SpuriousWakeup(t) ==
    /\ \/ Runs(t, "init_wait") /\ IB!SpuriousWakeup(t) /\ UNCHANGED pvars
       \/ Runs(t, "post_wait") /\ PB!SpuriousWakeup(t) /\ UNCHANGED ivars
    /\ UNCHANGED <<mode, pc, registered, ticketsReady, exited, svars>>

InstallHandler ==
    /\ Runs(Main, "install")
    /\ handler' = "notify"
    /\ Goto(Main, "check")
    /\ UNCHANGED <<mode, registered, ticketsReady, exited, sig, signals,
                   shutdown_requested, eventfd, ivars, pvars>>

\* if (conf.shutdown_requested) exit(0)
CheckShutdown ==
    /\ Runs(Main, "check")
    /\ IF shutdown_requested
       THEN exited' = TRUE /\ UNCHANGED pc
       ELSE Goto(Main, "post") /\ UNCHANGED exited
    /\ UNCHANGED <<mode, registered, ticketsReady, svars, ivars, pvars>>

\* vhttp_barrier_wait(&conf.startup_sync_barrier_post)
WaitPost(t) ==
    /\ Runs(t, "post")
    /\ PB!Wait(t) /\ Goto(t, "post_wait")
    /\ UNCHANGED <<mode, registered, ticketsReady, exited, svars, ivars>>

LeavePost(t) ==
    /\ Runs(t, "post_wait")
    /\ \/ PB!Recheck(t) /\ UNCHANGED pc
       \/ PB!Leave(t) /\ Goto(t, IF t = Updater THEN "asleep" ELSE "loop")
    /\ UNCHANGED <<mode, registered, ticketsReady, exited, svars, ivars>>

\* The main loop: test the flag, then vhttp_evloop_run with no timeout (at
\* startup the recyclers of vhttp_cleanup_thread are empty).
TestFlag(t) ==
    /\ Runs(t, "loop")
    /\ Goto(t, IF shutdown_requested THEN "drain" ELSE "poll")
    /\ UNCHANGED <<mode, registered, ticketsReady, exited, svars, ivars, pvars>>

PollNotified(t) ==
    /\ Runs(t, "poll") /\ t \in eventfd
    /\ eventfd' = eventfd \ {t}
    /\ Goto(t, "loop")
    /\ UNCHANGED <<mode, registered, ticketsReady, exited, handler, sig, signals,
                   shutdown_requested, ivars, pvars>>

\* a connection or a timer: it may come, or not
PollOther(t) ==
    /\ Runs(t, "poll")
    /\ Goto(t, "loop")
    /\ UNCHANGED <<mode, registered, ticketsReady, exited, svars, ivars, pvars>>

------------------------------------------------------------------------------
(* src/ssl.c: register_session_tickets, called by the updater thread.      *)

RegisterTickets ==
    /\ Runs(Updater, "load")
    /\ ticketsReady' = TRUE
    /\ IF mode = "quic" THEN PB!Wait(Updater) /\ Goto(Updater, "post_wait")
                         ELSE UNCHANGED pvars /\ Goto(Updater, "asleep")
    /\ UNCHANGED <<mode, registered, exited, svars, ivars>>

------------------------------------------------------------------------------
(* SIGTERM: on_sigterm on top of thread t.  epoll_wait returns EINTR.      *)

Deliver(t) ==
    /\ ~exited /\ pc[t] # "none" /\ sig[t] = "none"
    /\ handler # "ignore" /\ signals < MaxSignals
    /\ sig' = [sig EXCEPT ![t] = handler]
    /\ signals' = signals + 1
    /\ pc' = IF pc[t] = "poll" THEN [pc EXCEPT ![t] = "loop"] ELSE pc
    /\ UNCHANGED <<mode, registered, ticketsReady, exited, handler,
                   shutdown_requested, eventfd, ivars, pvars>>

\* conf.shutdown_requested = 1
SetFlag(t) ==
    /\ ~exited /\ sig[t] \in {"flag", "notify"}
    /\ shutdown_requested' = TRUE
    /\ sig' = [sig EXCEPT ![t] = IF @ = "notify" THEN "send" ELSE "mask"]
    /\ UNCHANGED <<mode, pc, registered, ticketsReady, exited, handler, signals,
                   eventfd, ivars, pvars>>

\* Mutation: the thread that handles the signal leaves itself out.
NotifyOthers(t) ==
    /\ ~exited /\ sig[t] = "send"
    /\ eventfd' = eventfd \cup (Workers \ {Main})
    /\ sig' = [sig EXCEPT ![t] = "mask"]
    /\ UNCHANGED <<mode, pc, registered, ticketsReady, exited, handler, signals,
                   shutdown_requested, ivars, pvars>>

\* notify_all_threads
NotifyAll(t) ==
    /\ ~exited /\ sig[t] = "send"
    /\ eventfd' = eventfd \cup Workers
    /\ sig' = [sig EXCEPT ![t] = "mask"]
    /\ UNCHANGED <<mode, pc, registered, ticketsReady, exited, handler, signals,
                   shutdown_requested, ivars, pvars>>

\* vhttp_set_signal_handler(SIGTERM, SIG_IGN), and back to the thread
IgnoreSigterm(t) ==
    /\ ~exited /\ sig[t] = "mask"
    /\ handler' = "ignore"
    /\ sig' = [sig EXCEPT ![t] = "none"]
    /\ UNCHANGED <<mode, pc, registered, ticketsReady, exited, signals,
                   shutdown_requested, eventfd, ivars, pvars>>

------------------------------------------------------------------------------
Settled == exited \/ \A t \in Workers : pc[t] = "drain"

HandlerStep(t) == SetFlag(t) \/ NotifyAll(t) \/ IgnoreSigterm(t)

WorkerStep(t) ==
    \/ InitContext(t) \/ WaitInit(t) \/ LeaveInit(t)
    \/ WaitPost(t) \/ LeavePost(t) \/ TestFlag(t) \/ PollNotified(t)

MainStep == SetupTickets \/ StartThreads \/ InstallHandler \/ CheckShutdown

UpdaterStep == RegisterTickets \/ LeavePost(Updater)

Next ==
    \/ MainStep \/ UpdaterStep
    \/ \E t \in Workers : WorkerStep(t) \/ PollOther(t)
    \/ \E t \in Threads : Deliver(t) \/ HandlerStep(t) \/ SpuriousWakeup(t)

\* Every thread gets to run, and the updater finds its tickets; nothing makes
\* a signal or an event happen.
Fairness ==
    /\ WF_vars(MainStep) /\ WF_vars(UpdaterStep)
    /\ \A t \in Workers : WF_vars(WorkerStep(t))
    /\ \A t \in Threads : WF_vars(HandlerStep(t))

SafeSpec == Init /\ [][Next]_vars
Spec == SafeSpec /\ Fairness

------------------------------------------------------------------------------
TypeOK ==
    /\ mode \in Modes /\ registered \subseteq Workers /\ eventfd \subseteq Workers
    /\ pc \in [Threads -> {"none", "setup", "start", "init", "ready", "init_wait",
                           "install", "check", "post", "post_wait", "loop", "poll",
                           "drain", "load", "asleep"}]
    /\ handler \in {"flag", "notify", "ignore"}
    /\ sig \in [Threads -> {"none", "flag", "notify", "send", "mask"}]
    /\ signals \in 0 .. MaxSignals
    /\ {ticketsReady, shutdown_requested, exited} \subseteq BOOLEAN
    /\ initCount \in 0 .. Cardinality(Workers)
    /\ postCount \in 0 .. Cardinality(Workers) + 1

Serving(t) == pc[t] \in {"loop", "poll", "drain"}

\* A thread serves requests only once every thread has its receivers and its
\* listeners, and with QUIC only once there is a key to encrypt tickets and
\* tokens with: the updater is the last participant of the second barrier.
ReadyBeforeServing ==
    (\E t \in Workers : Serving(t))
        => registered = Workers /\ (mode = "quic" => ticketsReady)

\* The signal handler sends to the receiver of every thread: it never runs
\* before all of them are registered.
NotifyOnlyRegistered == (\E t \in Threads : sig[t] = "send") => registered = Workers

\* Both, with counters of the barriers that never wrap around: the order that
\* the two barriers of run_loop are there for.
StartupOrder == TypeOK /\ ReadyBeforeServing /\ NotifyOnlyRegistered

\* All threads get into the main loop, or the process exits.
StartupCompletes == <>(exited \/ \A t \in Workers : Serving(t))

\* A SIGTERM that is handled by on_sigterm_set_flag_notify_threads takes every
\* thread out of the main loop, at whatever point of the startup it arrives.
NotifiedShutdown == (\E t \in Threads : sig[t] = "send") ~> Settled
==============================================================================
