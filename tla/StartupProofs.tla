---------------------------- MODULE StartupProofs ----------------------------
(***************************************************************************)
(* Proofs about the startup of the worker threads, for every number of     *)
(* threads and of signals.                                                 *)
(*                                                                         *)
(* The argument is that of a barrier: its counter is the number of         *)
(* participants that are still to come, and who left it has seen 0, so     *)
(* that all of them have come.  With QUIC the ticket updater takes part in *)
(* the second barrier from the moment it is announced.                     *)
(***************************************************************************)
EXTENDS Startup, Counting

WaiterStates == {"before", "blocked", "awake", "released", "out"}

(* A barrier with participants P: count is exact, and it is 0 for who leaves. *)
ToCome(P, w) == {t \in P : w[t] = "before"}
Barrier(P, c, w) ==
    /\ c = Cardinality(ToCome(P, w))
    /\ \A t \in P : w[t] \in {"released", "out"} => c = 0

LEMMA ThreadsFinite == IsFiniteSet(Threads)
BY StartupAssumption, FS_AddElement DEF Threads

(* A participant enters: the last one releases the others. *)
LEMMA BarrierWait ==
  ASSUME NEW P \in SUBSET Threads, NEW c, NEW w, NEW c2, NEW w2, NEW t \in P,
         Barrier(P, c, w), w[t] = "before", c2 = c - 1,
         w2[t] # "before", w2[t] # "out", w2[t] = "released" => c2 = 0,
         \A u \in P \ {t} : w2[u] = w[u] \/ (w[u] = "blocked" /\ w2[u] = "awake")
  PROVE  Barrier(P, c2, w2)
<1>1. IsFiniteSet(P)
    BY ThreadsFinite, FS_Subset
<1>2. /\ ToCome(P, w) \in SUBSET P /\ ToCome(P, w2) \in SUBSET P
      /\ t \in ToCome(P, w) /\ t \notin ToCome(P, w2)
      /\ \A u \in P \ {t} : u \in ToCome(P, w) <=> u \in ToCome(P, w2)
    BY DEF ToCome
<1>3. /\ Cardinality(ToCome(P, w)) \in Nat
      /\ Cardinality(ToCome(P, w2))
           = Cardinality(ToCome(P, w)) + Ind(t \in ToCome(P, w2)) - Ind(t \in ToCome(P, w))
    BY <1>1, <1>2, OneChange
<1>4. c2 = Cardinality(ToCome(P, w2))
    BY <1>2, <1>3 DEF Ind, Barrier
<1>5. c # 0
  <2>1. IsFiniteSet(ToCome(P, w)) /\ ToCome(P, w) # {}
      BY <1>1, <1>2, FS_Subset
  <2> QED BY <2>1, FS_EmptySet DEF Barrier
<1>6. \A u \in P : w2[u] \in {"released", "out"} => c2 = 0
    BY <1>5 DEF Barrier
<1> QED BY <1>4, <1>6 DEF Barrier

(* A participant that has entered moves on. *)
LEMMA BarrierMove ==
  ASSUME NEW P \in SUBSET Threads, NEW c, NEW w, NEW w2, NEW t \in Threads, Barrier(P, c, w),
         w[t] # "before", w2[t] # "before", w2[t] \in {"released", "out"} => c = 0,
         \A u \in P \ {t} : w2[u] = w[u]
  PROVE  Barrier(P, c, w2)
<1>1. ToCome(P, w2) = ToCome(P, w)
    BY DEF ToCome
<1> QED BY <1>1 DEF Barrier

(* Who has left the barrier knows that all have come. *)
LEMMA BarrierPassed ==
  ASSUME NEW P \in SUBSET Threads, NEW c, NEW w, Barrier(P, c, w), c = 0
  PROVE  \A u \in P : w[u] # "before"
<1>1. IsFiniteSet(ToCome(P, w))
  <2>1. ToCome(P, w) \in SUBSET Threads
      BY DEF ToCome
  <2> QED BY <2>1, ThreadsFinite, FS_Subset
<1>2. ToCome(P, w) = {}
    BY <1>1, FS_EmptySet DEF Barrier
<1> QED BY <1>2 DEF ToCome

(* The counter stays between 0 and the number of participants. *)
LEMMA BarrierCount ==
  ASSUME NEW P \in SUBSET Threads, NEW c, NEW w, Barrier(P, c, w)
  PROVE  c \in 0 .. Cardinality(P) /\ Cardinality(P) \in Nat
<1>1. IsFiniteSet(P) /\ ToCome(P, w) \in SUBSET P
    BY ThreadsFinite, FS_Subset DEF ToCome
<1>2. IsFiniteSet(ToCome(P, w)) /\ Cardinality(ToCome(P, w)) <= Cardinality(P)
    BY <1>1, FS_Subset
<1> QED BY <1>1, <1>2, FS_CardinalityType DEF Barrier

-----------------------------------------------------------------------------
(* The inductive invariant *)

Types ==
    /\ mode \in Modes /\ registered \subseteq Workers /\ eventfd \subseteq Workers
    /\ pc \in [Threads -> {"none", "setup", "start", "init", "ready", "init_wait",
                           "install", "check", "post", "post_wait", "loop", "poll",
                           "drain", "load", "asleep"}]
    /\ handler \in {"flag", "notify", "ignore"}
    /\ sig \in [Threads -> {"none", "flag", "notify", "send", "mask"}]
    /\ signals \in 0 .. MaxSignals
    /\ ticketsReady \in BOOLEAN /\ shutdown_requested \in BOOLEAN /\ exited \in BOOLEAN
    /\ initWaiter \in [Workers -> WaiterStates] /\ postWaiter \in [Threads -> WaiterStates]

Inside == {"blocked", "awake", "released"}

(* Where a worker is in run_loop says where it is in the barriers. *)
WorkerAt(t) ==
    /\ pc[t] \notin {"load", "asleep"}
    /\ pc[t] \in {"none", "setup", "start", "init", "ready"} => initWaiter[t] = "before"
    /\ pc[t] = "init_wait" => initWaiter[t] \in Inside
    /\ pc[t] \in {"install", "check", "post", "post_wait", "loop", "poll", "drain"}
          => initWaiter[t] = "out"
    /\ pc[t] \in {"none", "setup", "start", "init", "ready", "init_wait", "install", "check", "post"}
          => postWaiter[t] = "before"
    /\ pc[t] = "post_wait" => postWaiter[t] \in Inside
    /\ pc[t] \in {"loop", "poll", "drain"} => postWaiter[t] = "out"
    /\ pc[t] \notin {"none", "setup", "start", "init"} => t \in registered
    /\ pc[t] \in {"setup", "start", "install", "check"} => t = Main

UpdaterAt ==
    /\ pc[Updater] \in {"none", "load", "post_wait", "asleep"}
    /\ pc[Updater] \in {"none", "load"} => postWaiter[Updater] = "before"
    /\ pc[Updater] = "post_wait" => postWaiter[Updater] \in Inside /\ mode = "quic"
    /\ pc[Updater] = "asleep" /\ mode = "quic" => postWaiter[Updater] = "out"
    /\ postWaiter[Updater] # "before" => ticketsReady

Begin ==
    /\ pc[Main] = "setup" => pc[Updater] = "none"
    /\ pc[Main] \in {"setup", "start"} => \A t \in Workers \ {Main} : pc[t] = "none"

(* Who takes part in the second barrier. *)
Participants == Workers \cup IF mode = "quic" /\ pc[Main] # "setup" THEN {Updater} ELSE {}

Barriers ==
    /\ Barrier(Workers, initCount, initWaiter)
    /\ Barrier(Participants, postCount, postWaiter)

(* The handler that notifies is there once all receivers are. *)
Handlers ==
    /\ handler = "notify" => registered = Workers
    /\ \A t \in Threads : sig[t] \in {"notify", "send"} => registered = Workers

Inv == Types /\ (\A t \in Workers : WorkerAt(t)) /\ UpdaterAt /\ Begin /\ Barriers /\ Handlers

LEMMA Members == Main \in Workers /\ Workers \subseteq Threads /\ Updater \in Threads /\ Updater \notin Workers
BY StartupAssumption DEF Threads

LEMMA InitInv == Init => Inv
<1> SUFFICES ASSUME Init PROVE Inv
    OBVIOUS
<1>1. /\ initWaiter = [t \in Workers |-> "before"] /\ initCount = Cardinality(Workers)
      /\ postWaiter = [t \in Threads |-> "before"] /\ postCount = Cardinality(Workers)
    BY DEF Init, IB!Init, PB!Init
<1>2. Types
  <2>1. /\ initWaiter \in [Workers -> WaiterStates] /\ postWaiter \in [Threads -> WaiterStates]
      BY <1>1 DEF WaiterStates
  <2>2. signals \in 0 .. MaxSignals
      BY StartupAssumption DEF Init
  <2> QED BY <2>1, <2>2 DEF Init, Types
<1>3. \A t \in Workers : WorkerAt(t)
    BY <1>1, Members DEF Init, WorkerAt
<1>4. UpdaterAt /\ Begin
    BY <1>1, Members DEF Init, UpdaterAt, Begin
<1>5. Handlers
    BY DEF Init, Handlers
<1>7. Participants = Workers
    BY Members DEF Init, Participants
<1>8. ToCome(Workers, initWaiter) = Workers /\ ToCome(Workers, postWaiter) = Workers
    BY <1>1, Members DEF ToCome
<1>9. Barriers
    BY <1>1, <1>7, <1>8, Members DEF Barriers, Barrier
<1> QED BY <1>2, <1>3, <1>4, <1>5, <1>9 DEF Inv

(* Steps that leave the barriers alone *)
LEMMA QuietBarriers ==
  ASSUME Barriers, UNCHANGED <<ivars, pvars, mode>>, pc'[Main] = "setup" <=> pc[Main] = "setup"
  PROVE  Barriers'
<1>1. /\ initCount' = initCount /\ initWaiter' = initWaiter
      /\ postCount' = postCount /\ postWaiter' = postWaiter /\ mode' = mode
    BY DEF ivars, pvars
<1>2. Participants' = Participants
    BY <1>1 DEF Participants
<1> QED BY <1>1, <1>2 DEF Barriers

(* ssl_setup_session_resumption: vhttp_barrier_add before any thread waits. *)
LEMMA SetupTicketsInv == ASSUME Inv, SetupTickets PROVE Inv'
<1>1. /\ pc[Main] = "setup" /\ pc[Updater] = "none" /\ postWaiter[Updater] = "before"
      /\ pc' = [pc EXCEPT ![Main] = "start", ![Updater] = IF mode = "plain" THEN "none" ELSE "load"]
      /\ mode' = mode /\ registered' = registered /\ ticketsReady' = ticketsReady /\ exited' = exited
      /\ handler' = handler /\ sig' = sig /\ signals' = signals /\ eventfd' = eventfd
      /\ shutdown_requested' = shutdown_requested
      /\ initCount' = initCount /\ initWaiter' = initWaiter /\ postWaiter' = postWaiter
      /\ postCount' = IF mode = "quic" THEN postCount + 1 ELSE postCount
    BY DEF SetupTickets, Runs, svars, ivars, pvars, PB!Add, Inv, Begin, UpdaterAt
<1>2. /\ pc'[Main] = "start" /\ pc'[Updater] \in {"none", "load"}
      /\ \A t \in Workers \ {Main} : pc'[t] = pc[t]
    BY <1>1, Members DEF Inv, Types
<1>3. Types'
    BY <1>1 DEF Inv, Types
<1>4. \A t \in Workers : WorkerAt(t)'
    BY <1>1, <1>2 DEF Inv, WorkerAt
<1>5. UpdaterAt' /\ Begin' /\ Handlers'
    BY <1>1, <1>2 DEF Inv, UpdaterAt, Begin, Handlers
<1>6. Barriers'
  <2>1. Participants = Workers
      BY <1>1 DEF Participants
  <2>2. CASE mode # "quic"
      BY <1>1, <2>1, <2>2 DEF Inv, Barriers, Participants
  <2>3. CASE mode = "quic"
    <3>1. Participants' = Workers \cup {Updater}
        BY <1>1, <1>2, <2>3 DEF Participants
    <3>2. ToCome(Participants', postWaiter) = ToCome(Workers, postWaiter) \cup {Updater}
        BY <1>1, <3>1 DEF ToCome
    <3>3. IsFiniteSet(ToCome(Workers, postWaiter)) /\ Updater \notin ToCome(Workers, postWaiter)
      <4>1. ToCome(Workers, postWaiter) \in SUBSET Workers
          BY DEF ToCome
      <4> QED BY <4>1, Members, StartupAssumption, FS_Subset
    <3>4. /\ Cardinality(ToCome(Participants', postWaiter)) = Cardinality(ToCome(Workers, postWaiter)) + 1
        BY <3>2, <3>3, FS_AddElement
    <3>5. \A t \in Workers : postWaiter[t] = "before"
        BY <1>1, Members DEF Inv, Begin, WorkerAt
    <3>6. Barrier(Participants', postCount', postWaiter')
      <4>1. \A t \in Participants' : postWaiter[t] = "before"
          BY <1>1, <3>1, <3>5
      <4>2. postCount = Cardinality(ToCome(Workers, postWaiter))
          BY <2>1 DEF Inv, Barriers, Barrier
      <4>3. postCount' = Cardinality(ToCome(Participants', postWaiter))
          BY <1>1, <2>3, <3>4, <4>2
      <4> QED BY <1>1, <4>1, <4>3 DEF Barrier
    <3> QED BY <1>1, <3>6 DEF Inv, Barriers
  <2> QED BY <2>2, <2>3
<1> QED BY <1>3, <1>4, <1>5, <1>6 DEF Inv

LEMMA StartThreadsInv == ASSUME Inv, StartThreads PROVE Inv'
<1>1. /\ pc[Main] = "start"
      /\ pc' = [t \in Threads |-> IF t \in Workers THEN "init" ELSE pc[t]]
      /\ mode' = mode /\ registered' = registered /\ ticketsReady' = ticketsReady /\ exited' = exited
      /\ handler' = handler /\ sig' = sig /\ signals' = signals /\ eventfd' = eventfd
      /\ shutdown_requested' = shutdown_requested
      /\ UNCHANGED <<ivars, pvars, mode>> /\ initWaiter' = initWaiter /\ postWaiter' = postWaiter
    BY DEF StartThreads, Runs, svars, ivars, pvars
<1>2. (\A t \in Workers : pc'[t] = "init") /\ pc'[Updater] = pc[Updater]
    BY <1>1, Members
<1>3. \A t \in Workers : pc[t] \in {"none", "start"}
    BY <1>1 DEF Inv, Begin
<1>4. Types'
    BY <1>1 DEF Inv, Types
<1>5. \A t \in Workers : WorkerAt(t)'
    BY <1>1, <1>2, <1>3 DEF Inv, WorkerAt
<1>6. UpdaterAt' /\ Begin' /\ Handlers'
    BY <1>1, <1>2, Members DEF Inv, UpdaterAt, Begin, Handlers
<1>7. Barriers'
    BY <1>1, <1>2, Members, QuietBarriers DEF Inv
<1> QED BY <1>4, <1>5, <1>6, <1>7 DEF Inv

(* A worker that moves along without touching a barrier: what it has to keep. *)
LEMMA WorkerMoves ==
  ASSUME Inv, NEW t \in Workers, NEW to, pc' = [pc EXCEPT ![t] = to],
         to \in {"ready", "check", "post", "loop", "poll", "drain"},
         WorkerAt(t)', pc[t] # "none", pc[t] \notin {"setup", "start"},
         UNCHANGED <<mode, ticketsReady, exited, handler, sig, signals, shutdown_requested, ivars, pvars>>,
         registered \subseteq registered', registered' \subseteq Workers, eventfd' \subseteq Workers
  PROVE  Inv'
<1>1. /\ mode' = mode /\ ticketsReady' = ticketsReady /\ exited' = exited /\ handler' = handler
      /\ sig' = sig /\ signals' = signals /\ shutdown_requested' = shutdown_requested
      /\ initWaiter' = initWaiter /\ postWaiter' = postWaiter
    BY DEF ivars, pvars
<1>2. /\ pc'[t] = to /\ pc'[Updater] = pc[Updater]
      /\ \A u \in Workers \ {t} : pc'[u] = pc[u]
    BY Members DEF Inv, Types
<1>3. Types'
    BY <1>1 DEF Inv, Types
<1>4. ASSUME NEW u \in Workers PROVE WorkerAt(u)'
    BY <1>1, <1>2 DEF Inv, WorkerAt
<1>5. UpdaterAt'
    BY <1>1, <1>2 DEF Inv, UpdaterAt
<1>6. Begin'
    BY <1>1, <1>2, Members DEF Inv, Begin
<1>7. Handlers'
    BY <1>1 DEF Inv, Handlers, Types
<1>8. Barriers'
    BY <1>2, Members, QuietBarriers DEF Inv
<1> QED BY <1>3, <1>4, <1>5, <1>6, <1>7, <1>8 DEF Inv

LEMMA QuietWorkerInv ==
  ASSUME Inv, NEW t \in Workers, InitContext(t) \/ TestFlag(t) \/ PollNotified(t) \/ PollOther(t)
  PROVE  Inv'
<1>0. Types /\ WorkerAt(t) /\ t \in Threads
    BY Members DEF Inv
<1>1. CASE InitContext(t)
  <2>1. /\ pc[t] = "init" /\ registered' = registered \cup {t} /\ pc' = [pc EXCEPT ![t] = "ready"]
        /\ UNCHANGED <<mode, ticketsReady, exited, handler, sig, signals, shutdown_requested, ivars, pvars>>
        /\ eventfd' = eventfd /\ initWaiter' = initWaiter /\ postWaiter' = postWaiter
      BY <1>1 DEF InitContext, Runs, Goto, svars, ivars, pvars
  <2>2. WorkerAt(t)'
      BY <1>0, <2>1 DEF Types, WorkerAt
  <2> QED BY <1>0, <2>1, <2>2, WorkerMoves DEF Types
<1>2. ASSUME NEW to \in {"loop", "poll", "drain"}, pc[t] \in {"loop", "poll"}, pc' = [pc EXCEPT ![t] = to],
             UNCHANGED <<mode, ticketsReady, exited, handler, sig, signals, shutdown_requested, ivars, pvars>>,
             registered' = registered, eventfd' \subseteq Workers
      PROVE  Inv'
  <2>1. initWaiter' = initWaiter /\ postWaiter' = postWaiter
      BY <1>2 DEF ivars, pvars
  <2>2. WorkerAt(t)'
      BY <1>0, <1>2, <2>1 DEF Types, WorkerAt
  <2> QED BY <1>0, <1>2, <2>2, WorkerMoves DEF Types
<1>3. CASE TestFlag(t)
  <2>1. PICK to \in {"poll", "drain"} : pc' = [pc EXCEPT ![t] = to]
      BY <1>3 DEF TestFlag, Goto
  <2>2. /\ pc[t] = "loop" /\ registered' = registered /\ eventfd' = eventfd
        /\ UNCHANGED <<mode, ticketsReady, exited, handler, sig, signals, shutdown_requested, ivars, pvars>>
      BY <1>3 DEF TestFlag, Runs, svars
  <2> QED BY <1>0, <1>2, <2>1, <2>2 DEF Types
<1>4. CASE PollNotified(t)
  <2>1. /\ pc[t] = "poll" /\ pc' = [pc EXCEPT ![t] = "loop"] /\ registered' = registered
        /\ eventfd' = eventfd \ {t}
        /\ UNCHANGED <<mode, ticketsReady, exited, handler, sig, signals, shutdown_requested, ivars, pvars>>
      BY <1>4 DEF PollNotified, Runs, Goto
  <2> QED BY <1>0, <1>2, <2>1 DEF Types
<1>5. CASE PollOther(t)
  <2>1. /\ pc[t] = "poll" /\ pc' = [pc EXCEPT ![t] = "loop"] /\ registered' = registered
        /\ eventfd' = eventfd
        /\ UNCHANGED <<mode, ticketsReady, exited, handler, sig, signals, shutdown_requested, ivars, pvars>>
      BY <1>5 DEF PollOther, Runs, Goto, svars
  <2> QED BY <1>0, <1>2, <2>1 DEF Types
<1> QED BY <1>1, <1>3, <1>4, <1>5

(* What vhttp_barrier_wait does to the threads at a barrier, seen from outside. *)
LEMMA InitWaitEffect ==
  ASSUME initWaiter \in [Workers -> WaiterStates], NEW t \in Workers, IB!Wait(t)
  PROVE  /\ initWaiter[t] = "before" /\ initCount' = initCount - 1
         /\ initWaiter' \in [Workers -> WaiterStates]
         /\ initWaiter'[t] = IF initCount' = 0 THEN "released" ELSE "blocked"
         /\ \A u \in Workers \ {t} : initWaiter'[u] = initWaiter[u]
                \/ (initWaiter[u] = "blocked" /\ initWaiter'[u] = "awake")
BY DEF IB!Wait, IB!Broadcast, WaiterStates

LEMMA PostWaitEffect ==
  ASSUME postWaiter \in [Threads -> WaiterStates], NEW t \in Threads, PB!Wait(t)
  PROVE  /\ postWaiter[t] = "before" /\ postCount' = postCount - 1
         /\ postWaiter' \in [Threads -> WaiterStates]
         /\ postWaiter'[t] = IF postCount' = 0 THEN "released" ELSE "blocked"
         /\ \A u \in Threads \ {t} : postWaiter'[u] = postWaiter[u]
                \/ (postWaiter[u] = "blocked" /\ postWaiter'[u] = "awake")
BY DEF PB!Wait, PB!Broadcast, WaiterStates

(* A step at the first barrier: t enters it, moves inside or leaves. *)
LEMMA AtInitBarrier ==
  ASSUME Inv, NEW t \in Workers, pc[t] \in {"ready", "init_wait"}, NEW to, pc' = [pc EXCEPT ![t] = to],
         UNCHANGED <<mode, registered, ticketsReady, exited, svars, pvars>>,
         initWaiter' \in [Workers -> WaiterStates],
         \A u \in Workers \ {t} : initWaiter'[u] = initWaiter[u]
                \/ (initWaiter[u] = "blocked" /\ initWaiter'[u] = "awake"),
         Barrier(Workers, initCount', initWaiter'),
         \/ to = "init_wait" /\ initWaiter'[t] \in Inside
         \/ to \in {"install", "post"} /\ initWaiter'[t] = "out" /\ (to = "install" => t = Main)
  PROVE  Inv'
<1>1. /\ mode' = mode /\ registered' = registered /\ ticketsReady' = ticketsReady /\ exited' = exited
      /\ handler' = handler /\ sig' = sig /\ signals' = signals /\ eventfd' = eventfd
      /\ shutdown_requested' = shutdown_requested /\ postCount' = postCount /\ postWaiter' = postWaiter
    BY DEF svars, pvars
<1>2. /\ pc'[t] = to /\ pc'[Updater] = pc[Updater]
      /\ \A u \in Workers \ {t} : pc'[u] = pc[u]
    BY Members DEF Inv, Types
<1>3. Types'
    BY <1>1 DEF Inv, Types
<1>4. WorkerAt(t)'
    BY <1>1, <1>2 DEF Inv, WorkerAt, Inside
<1>5. ASSUME NEW u \in Workers, u # t PROVE WorkerAt(u)'
  <2>1. /\ pc'[u] = pc[u] /\ postWaiter'[u] = postWaiter[u] /\ registered' = registered
        /\ WorkerAt(u)
      BY <1>1, <1>2, <1>5 DEF Inv
  <2>2. initWaiter'[u] = initWaiter[u] \/ (initWaiter[u] = "blocked" /\ initWaiter'[u] = "awake")
      BY <1>5
  <2> QED BY <2>1, <2>2 DEF WorkerAt, Inside
<1>6. UpdaterAt' /\ Handlers'
    BY <1>1, <1>2 DEF Inv, UpdaterAt, Handlers
<1>7. Begin'
    BY <1>2, Members DEF Inv, Begin
<1>8. Barriers'
  <2>1. Participants' = Participants
      BY <1>1, <1>2, Members DEF Participants
  <2> QED BY <1>1, <2>1 DEF Inv, Barriers
<1> QED BY <1>3, <1>4, <1>5, <1>6, <1>7, <1>8 DEF Inv

LEMMA InitBarrierInv == ASSUME Inv, NEW t \in Workers, WaitInit(t) \/ LeaveInit(t) PROVE Inv'
<1>0. /\ Types /\ WorkerAt(t) /\ initWaiter \in [Workers -> WaiterStates] /\ Workers \in SUBSET Threads
      /\ Barrier(Workers, initCount, initWaiter) /\ t \in Threads
    BY Members DEF Inv, Types, Barriers
<1>1. CASE WaitInit(t)
  <2>1. /\ pc[t] = "ready" /\ IB!Wait(t) /\ pc' = [pc EXCEPT ![t] = "init_wait"]
        /\ UNCHANGED <<mode, registered, ticketsReady, exited, svars, pvars>>
      BY <1>1 DEF WaitInit, Runs, Goto
  <2>2. /\ initWaiter[t] = "before" /\ initCount' = initCount - 1
        /\ initWaiter' \in [Workers -> WaiterStates]
        /\ initWaiter'[t] = IF initCount' = 0 THEN "released" ELSE "blocked"
        /\ \A u \in Workers \ {t} : initWaiter'[u] = initWaiter[u]
                \/ (initWaiter[u] = "blocked" /\ initWaiter'[u] = "awake")
      BY <1>0, <2>1, InitWaitEffect
  <2>3. Barrier(Workers, initCount', initWaiter')
    <3>1. /\ initWaiter'[t] # "before" /\ initWaiter'[t] # "out"
          /\ initWaiter'[t] = "released" => initCount' = 0
        BY <2>2
    <3> QED BY <1>0, <2>2, <3>1, BarrierWait
  <2>4. initWaiter'[t] \in Inside
      BY <2>2 DEF Inside
  <2> QED BY <2>1, <2>2, <2>3, <2>4, AtInitBarrier
<1>2. CASE LeaveInit(t)
  <2>0. /\ pc[t] = "init_wait" /\ UNCHANGED <<mode, registered, ticketsReady, exited, svars, pvars>>
      BY <1>2 DEF LeaveInit, Runs
  <2>1. CASE IB!Recheck(t) /\ UNCHANGED pc
    <3>1. /\ initWaiter[t] = "awake" /\ initCount' = initCount
          /\ initWaiter' = [initWaiter EXCEPT ![t] = IF initCount # 0 THEN "blocked" ELSE "released"]
        BY <2>1 DEF IB!Recheck
    <3>2. /\ initWaiter' \in [Workers -> WaiterStates] /\ initWaiter'[t] \in Inside
          /\ initWaiter'[t] = IF initCount # 0 THEN "blocked" ELSE "released"
          /\ \A u \in Workers \ {t} : initWaiter'[u] = initWaiter[u]
        BY <1>0, <3>1 DEF WaiterStates, Inside
    <3>3. Barrier(Workers, initCount', initWaiter')
        BY <1>0, <3>1, <3>2, BarrierMove
    <3>4. pc' = [pc EXCEPT ![t] = "init_wait"]
        BY <1>0, <2>0, <2>1 DEF Types
    <3> QED BY <2>0, <3>2, <3>3, <3>4, AtInitBarrier
  <2>2. CASE IB!Leave(t) /\ Goto(t, IF t = Main THEN "install" ELSE "post")
    <3>1. /\ initWaiter[t] = "released" /\ initCount' = initCount
          /\ initWaiter' = [initWaiter EXCEPT ![t] = "out"]
        BY <2>2 DEF IB!Leave
    <3>2. /\ initWaiter' \in [Workers -> WaiterStates] /\ initWaiter'[t] = "out"
          /\ \A u \in Workers \ {t} : initWaiter'[u] = initWaiter[u]
        BY <1>0, <3>1 DEF WaiterStates
    <3>3. initCount = 0
        BY <1>0, <3>1 DEF Barrier
    <3>4. Barrier(Workers, initCount', initWaiter')
        BY <1>0, <3>1, <3>2, <3>3, BarrierMove
    <3>5. PICK to \in {"install", "post"} : pc' = [pc EXCEPT ![t] = to] /\ (to = "install" => t = Main)
      <4>1. CASE t = Main
          BY <2>2, <4>1 DEF Goto
      <4>2. CASE t # Main
          BY <2>2, <4>2 DEF Goto
      <4> QED BY <4>1, <4>2
    <3> QED BY <2>0, <3>2, <3>4, <3>5, AtInitBarrier
  <2> QED BY <1>2, <2>1, <2>2 DEF LeaveInit
<1> QED BY <1>1, <1>2

(* A step at the second barrier, of a worker or of the updater. *)
LEMMA AtPostBarrier ==
  ASSUME Inv, NEW t \in Participants, pc[t] \in {"post", "post_wait", "load"},
         NEW to, pc' = [pc EXCEPT ![t] = to],
         UNCHANGED <<mode, registered, exited, svars, ivars>>, ticketsReady' \in BOOLEAN,
         ticketsReady => ticketsReady', t = Updater => ticketsReady',
         postWaiter' \in [Threads -> WaiterStates],
         \A u \in Threads \ {t} : postWaiter'[u] = postWaiter[u]
                \/ (postWaiter[u] = "blocked" /\ postWaiter'[u] = "awake"),
         Barrier(Participants, postCount', postWaiter'),
         \/ to = "post_wait" /\ postWaiter'[t] \in Inside
         \/ to = (IF t = Updater THEN "asleep" ELSE "loop") /\ postWaiter'[t] = "out"
  PROVE  Inv'
<1>1. /\ mode' = mode /\ registered' = registered /\ exited' = exited
      /\ handler' = handler /\ sig' = sig /\ signals' = signals /\ eventfd' = eventfd
      /\ shutdown_requested' = shutdown_requested /\ initCount' = initCount /\ initWaiter' = initWaiter
    BY DEF svars, ivars
<1>2. t \in Threads /\ pc'[t] = to /\ \A u \in Threads \ {t} : pc'[u] = pc[u]
    BY Members DEF Inv, Types, Participants
<1>3. t = Updater => mode = "quic" /\ pc[Main] # "setup"
    BY Members DEF Participants
<1>4. t # Updater => t \in Workers
    BY <1>2 DEF Threads
<1>5. Types'
    BY <1>1, <1>2 DEF Inv, Types
<1>6. ASSUME NEW u \in Workers PROVE WorkerAt(u)'
  <2>1. CASE u = t
    <3>1. WorkerAt(u) /\ t # Updater /\ pc[t] \in {"post", "post_wait"}
        BY <2>1, Members DEF Inv, WorkerAt
    <3>2. pc'[u] = to /\ initWaiter'[u] = "out" /\ u \in registered'
        BY <1>1, <1>2, <2>1, <3>1 DEF WorkerAt
    <3>3. (to = "post_wait" /\ postWaiter'[u] \in Inside) \/ (to = "loop" /\ postWaiter'[u] = "out")
        BY <2>1, <3>1
    <3> QED BY <3>2, <3>3 DEF WorkerAt
  <2>2. CASE u # t
    <3>1. pc'[u] = pc[u] /\ WorkerAt(u) /\ initWaiter'[u] = initWaiter[u]
        BY <1>1, <1>2, <2>2, Members DEF Inv
    <3>2. postWaiter'[u] = postWaiter[u] \/ (postWaiter[u] = "blocked" /\ postWaiter'[u] = "awake")
        BY <2>2, Members
    <3> QED BY <1>1, <3>1, <3>2 DEF WorkerAt, Inside
  <2> QED BY <2>1, <2>2
<1>7. UpdaterAt'
  <2>1. CASE t = Updater
      BY <1>1, <1>2, <1>3, <2>1 DEF UpdaterAt, Inside
  <2>2. CASE t # Updater
    <3>1. pc'[Updater] = pc[Updater] /\ UpdaterAt
        BY <1>2, <2>2, Members DEF Inv
    <3>2. postWaiter'[Updater] = postWaiter[Updater]
              \/ (postWaiter[Updater] = "blocked" /\ postWaiter'[Updater] = "awake")
        BY <2>2, Members
    <3> QED BY <1>1, <3>1, <3>2 DEF UpdaterAt, Inside
  <2> QED BY <2>1, <2>2
<1>8. pc'[Main] = "setup" <=> pc[Main] = "setup"
  <2>1. CASE t = Main
    <3>1. pc[Main] # "setup" /\ t # Updater
        BY <2>1, Members
    <3> QED BY <1>2, <2>1, <3>1
  <2> QED BY <1>2, <2>1, Members
<1>9. Begin'
  <2>1. pc'[Main] \in {"setup", "start"} => pc[Main] = pc'[Main]
    <3>1. CASE t = Main
        BY <1>2, <3>1, Members
    <3> QED BY <1>2, <3>1, Members
  <2>2. pc[Main] \in {"setup", "start"} /\ t \in Workers => FALSE
    <3>1. ASSUME pc[Main] \in {"setup", "start"}, t \in Workers PROVE FALSE
        BY <3>1 DEF Inv, Begin
    <3> QED BY <3>1
  <2>3. pc'[Main] \in {"setup", "start"} => \A u \in Workers : pc'[u] = pc[u]
      BY <1>2, <2>1, <2>2, Members
  <2>4. pc'[Main] = "setup" => pc'[Updater] = pc[Updater]
      BY <1>2, <1>3, <1>8, Members
  <2> QED BY <1>8, <2>1, <2>3, <2>4 DEF Inv, Begin
<1>10. Handlers'
    BY <1>1 DEF Inv, Handlers
<1>11. Barriers'
  <2>1. Participants' = Participants
      BY <1>1, <1>8 DEF Participants
  <2> QED BY <1>1, <2>1 DEF Inv, Barriers
<1> QED BY <1>5, <1>6, <1>7, <1>9, <1>10, <1>11 DEF Inv

(* Updater and workers are participants by the time they get to the barrier. *)
LEMMA TakesPart ==
  ASSUME Inv, NEW t \in Threads, pc[t] \in {"post", "post_wait", "load"},
         pc[t] = "load" => mode = "quic"
  PROVE  t \in Participants /\ Participants \in SUBSET Threads
<1>1. CASE t = Updater
  <2>1. mode = "quic" /\ pc[Main] # "setup"
      BY <1>1 DEF Inv, UpdaterAt, Begin
  <2> QED BY <1>1, <2>1, Members DEF Participants
<1>2. CASE t # Updater
    BY <1>2, Members DEF Participants, Threads
<1> QED BY <1>1, <1>2

LEMMA PostBarrierInv ==
  ASSUME Inv, \/ \E t \in Workers : WaitPost(t)
              \/ \E t \in Threads : LeavePost(t)
              \/ RegisterTickets
  PROVE  Inv'
<1>0. /\ Types /\ postWaiter \in [Threads -> WaiterStates] /\ ticketsReady \in BOOLEAN
      /\ Barrier(Participants, postCount, postWaiter)
    BY DEF Inv, Types, Barriers
<1>1. ASSUME NEW t \in Threads, pc[t] = "post" \/ (t = Updater /\ pc[t] = "load" /\ mode = "quic"),
             PB!Wait(t), pc' = [pc EXCEPT ![t] = "post_wait"], ticketsReady' \in BOOLEAN,
             UNCHANGED <<mode, registered, exited, svars, ivars>>,
             ticketsReady => ticketsReady', t = Updater => ticketsReady'
      PROVE  Inv'
  <2>1. t \in Participants /\ Participants \in SUBSET Threads
      BY <1>1, TakesPart
  <2>2. /\ postWaiter[t] = "before" /\ postCount' = postCount - 1
        /\ postWaiter' \in [Threads -> WaiterStates]
        /\ postWaiter'[t] = IF postCount' = 0 THEN "released" ELSE "blocked"
        /\ \A u \in Threads \ {t} : postWaiter'[u] = postWaiter[u]
                \/ (postWaiter[u] = "blocked" /\ postWaiter'[u] = "awake")
      BY <1>0, <1>1, PostWaitEffect
  <2>3. Barrier(Participants, postCount', postWaiter')
    <3>1. \A u \in Participants \ {t} : postWaiter'[u] = postWaiter[u]
                \/ (postWaiter[u] = "blocked" /\ postWaiter'[u] = "awake")
        BY <2>1, <2>2
    <3>2. /\ postWaiter'[t] # "before" /\ postWaiter'[t] # "out"
          /\ postWaiter'[t] = "released" => postCount' = 0
        BY <2>2
    <3> QED BY <1>0, <2>1, <2>2, <3>1, <3>2, BarrierWait
  <2>4. postWaiter'[t] \in Inside
      BY <2>2 DEF Inside
  <2> QED BY <1>1, <2>1, <2>2, <2>3, <2>4, AtPostBarrier
<1>2. ASSUME NEW t \in Workers, WaitPost(t) PROVE Inv'
  <2>1. /\ pc[t] = "post" /\ PB!Wait(t) /\ pc' = [pc EXCEPT ![t] = "post_wait"]
        /\ UNCHANGED <<mode, registered, exited, svars, ivars>> /\ ticketsReady' = ticketsReady
      BY <1>2 DEF WaitPost, Runs, Goto
  <2> QED BY <1>0, <1>1, <2>1, Members
<1>3. CASE RegisterTickets
  <2>0. /\ pc[Updater] = "load" /\ ticketsReady' = TRUE
        /\ UNCHANGED <<mode, registered, exited, svars, ivars>>
      BY <1>3 DEF RegisterTickets, Runs
  <2>1. CASE mode = "quic"
    <3>1. PB!Wait(Updater) /\ pc' = [pc EXCEPT ![Updater] = "post_wait"]
        BY <1>3, <2>1 DEF RegisterTickets, Goto
    <3> QED BY <1>1, <2>0, <2>1, <3>1, Members
  <2>2. CASE mode # "quic"
    <3>1. UNCHANGED pvars /\ pc' = [pc EXCEPT ![Updater] = "asleep"]
        BY <1>3, <2>2 DEF RegisterTickets, Goto
    <3>2. /\ mode' = mode /\ registered' = registered /\ exited' = exited
          /\ handler' = handler /\ sig' = sig /\ signals' = signals /\ eventfd' = eventfd
          /\ shutdown_requested' = shutdown_requested
          /\ initWaiter' = initWaiter /\ postWaiter' = postWaiter
        BY <2>0, <3>1 DEF svars, ivars, pvars
    <3>3. pc'[Updater] = "asleep" /\ \A u \in Workers : pc'[u] = pc[u]
        BY <1>0, <3>1, Members DEF Types
    <3>4. Types'
        BY <1>0, <2>0, <3>1, <3>2 DEF Types
    <3>5. \A u \in Workers : WorkerAt(u)'
        BY <3>2, <3>3 DEF Inv, WorkerAt
    <3>6. UpdaterAt' /\ Handlers'
        BY <2>0, <2>2, <3>2, <3>3 DEF Inv, UpdaterAt, Handlers
    <3>7. Begin'
        BY <2>0, <3>3, Members DEF Inv, Begin
    <3>8. Barriers'
        BY <2>0, <3>1, <3>3, Members, QuietBarriers DEF Inv
    <3> QED BY <3>4, <3>5, <3>6, <3>7, <3>8 DEF Inv
  <2> QED BY <2>1, <2>2
<1>4. ASSUME NEW t \in Threads, LeavePost(t) PROVE Inv'
  <2>0. /\ pc[t] = "post_wait" /\ UNCHANGED <<mode, registered, exited, svars, ivars>>
        /\ ticketsReady' = ticketsReady
      BY <1>4 DEF LeavePost, Runs
  <2>1. t \in Participants /\ Participants \in SUBSET Threads
      BY <2>0, TakesPart
  <2>2. t = Updater => ticketsReady'
      BY <2>0 DEF Inv, UpdaterAt, Inside
  <2>3. CASE PB!Recheck(t) /\ UNCHANGED pc
    <3>1. /\ postWaiter[t] = "awake" /\ postCount' = postCount
          /\ postWaiter' = [postWaiter EXCEPT ![t] = IF postCount # 0 THEN "blocked" ELSE "released"]
        BY <2>3 DEF PB!Recheck
    <3>2. /\ postWaiter' \in [Threads -> WaiterStates] /\ postWaiter'[t] \in Inside
          /\ postWaiter'[t] = IF postCount # 0 THEN "blocked" ELSE "released"
          /\ \A u \in Threads \ {t} : postWaiter'[u] = postWaiter[u]
        BY <1>0, <3>1 DEF WaiterStates, Inside
    <3>3. Barrier(Participants, postCount', postWaiter')
        BY <1>0, <2>1, <3>1, <3>2, BarrierMove
    <3>4. pc' = [pc EXCEPT ![t] = "post_wait"]
        BY <1>0, <2>0, <2>3 DEF Types
    <3> QED BY <1>0, <2>0, <2>1, <2>2, <3>2, <3>3, <3>4, AtPostBarrier
  <2>4. CASE PB!Leave(t) /\ Goto(t, IF t = Updater THEN "asleep" ELSE "loop")
    <3>1. /\ postWaiter[t] = "released" /\ postCount' = postCount
          /\ postWaiter' = [postWaiter EXCEPT ![t] = "out"]
        BY <2>4 DEF PB!Leave
    <3>2. /\ postWaiter' \in [Threads -> WaiterStates] /\ postWaiter'[t] = "out"
          /\ \A u \in Threads \ {t} : postWaiter'[u] = postWaiter[u]
        BY <1>0, <3>1 DEF WaiterStates
    <3>3. postCount = 0
        BY <1>0, <2>1, <3>1 DEF Barrier
    <3>4. Barrier(Participants, postCount', postWaiter')
        BY <1>0, <2>1, <3>1, <3>2, <3>3, BarrierMove
    <3>5. pc' = [pc EXCEPT ![t] = IF t = Updater THEN "asleep" ELSE "loop"]
        BY <2>4 DEF Goto
    <3> QED BY <1>0, <2>0, <2>1, <2>2, <3>2, <3>4, <3>5, AtPostBarrier
  <2> QED BY <1>4, <2>3, <2>4 DEF LeavePost
<1> QED BY <1>2, <1>3, <1>4

LEMMA SpuriousWakeupInv == ASSUME Inv, NEW t \in Threads, SpuriousWakeup(t) PROVE Inv'
<1>0. /\ Types /\ postWaiter \in [Threads -> WaiterStates] /\ initWaiter \in [Workers -> WaiterStates]
      /\ ticketsReady \in BOOLEAN
      /\ Barrier(Participants, postCount, postWaiter) /\ Barrier(Workers, initCount, initWaiter)
      /\ UNCHANGED <<mode, pc, registered, ticketsReady, exited, svars>>
      /\ Workers \in SUBSET Threads
    BY Members DEF Inv, Types, Barriers, SpuriousWakeup
<1>1. CASE Runs(t, "init_wait") /\ IB!SpuriousWakeup(t) /\ UNCHANGED pvars
  <2>1. t \in Workers /\ pc[t] = "init_wait"
      BY <1>1 DEF Runs, Inv, UpdaterAt, Threads
  <2>2. /\ initWaiter[t] = "blocked" /\ initCount' = initCount
        /\ initWaiter' = [initWaiter EXCEPT ![t] = "awake"]
      BY <1>1 DEF IB!SpuriousWakeup
  <2>3. /\ initWaiter' \in [Workers -> WaiterStates] /\ initWaiter'[t] = "awake"
        /\ \A u \in Workers \ {t} : initWaiter'[u] = initWaiter[u]
      BY <1>0, <2>1, <2>2 DEF WaiterStates
  <2>4. Barrier(Workers, initCount', initWaiter')
      BY <1>0, <2>1, <2>2, <2>3, BarrierMove
  <2>5. pc' = [pc EXCEPT ![t] = "init_wait"] /\ initWaiter'[t] \in Inside
      BY <1>0, <2>1, <2>3 DEF Types, Inside
  <2>6. UNCHANGED <<mode, registered, ticketsReady, exited, svars, pvars>>
      BY <1>0, <1>1
  <2> QED BY <2>1, <2>3, <2>4, <2>5, <2>6, AtInitBarrier
<1>2. CASE Runs(t, "post_wait") /\ PB!SpuriousWakeup(t) /\ UNCHANGED ivars
  <2>1. pc[t] = "post_wait" /\ t \in Participants /\ Participants \in SUBSET Threads
      BY <1>2, TakesPart DEF Runs
  <2>2. /\ postWaiter[t] = "blocked" /\ postCount' = postCount
        /\ postWaiter' = [postWaiter EXCEPT ![t] = "awake"]
      BY <1>2 DEF PB!SpuriousWakeup
  <2>3. /\ postWaiter' \in [Threads -> WaiterStates] /\ postWaiter'[t] = "awake"
        /\ \A u \in Threads \ {t} : postWaiter'[u] = postWaiter[u]
      BY <1>0, <2>2 DEF WaiterStates
  <2>4. Barrier(Participants, postCount', postWaiter')
      BY <1>0, <2>1, <2>2, <2>3, BarrierMove
  <2>5. pc' = [pc EXCEPT ![t] = "post_wait"] /\ postWaiter'[t] \in Inside
      BY <1>0, <2>1, <2>3 DEF Types, Inside
  <2>6. UNCHANGED <<mode, registered, exited, svars, ivars>> /\ ticketsReady' = ticketsReady
      BY <1>0, <1>2
  <2>7. t = Updater => ticketsReady'
      BY <2>2, <2>6 DEF Inv, UpdaterAt
  <2>8. ticketsReady' \in BOOLEAN /\ (ticketsReady => ticketsReady')
      BY <1>0, <2>6
  <2> QED BY <2>1, <2>3, <2>4, <2>5, <2>6, <2>7, <2>8, AtPostBarrier
<1> QED BY <1>1, <1>2 DEF SpuriousWakeup

(* The first barrier has let Main through: all receivers are registered. *)
LEMMA AllRegistered ==
  ASSUME Inv, NEW t \in Workers, initWaiter[t] = "out"
  PROVE  registered = Workers
<1>1. Barrier(Workers, initCount, initWaiter) /\ initCount = 0 /\ Workers \in SUBSET Threads
    BY Members DEF Inv, Barriers, Barrier
<1>2. \A u \in Workers : initWaiter[u] # "before"
    BY <1>1, BarrierPassed
<1>3. \A u \in Workers : u \in registered
    BY <1>2 DEF Inv, WorkerAt
<1> QED BY <1>3 DEF Inv, Types

LEMMA InstallHandlerInv == ASSUME Inv, InstallHandler \/ CheckShutdown PROVE Inv'
<1>0. Types /\ WorkerAt(Main) /\ Main \in Workers /\ Main \in Threads
    BY Members DEF Inv
<1>1. CASE InstallHandler
  <2>1. /\ pc[Main] = "install" /\ handler' = "notify" /\ pc' = [pc EXCEPT ![Main] = "check"]
        /\ mode' = mode /\ registered' = registered /\ ticketsReady' = ticketsReady /\ exited' = exited
        /\ sig' = sig /\ signals' = signals /\ eventfd' = eventfd
        /\ shutdown_requested' = shutdown_requested
        /\ UNCHANGED <<ivars, pvars, mode>> /\ initWaiter' = initWaiter /\ postWaiter' = postWaiter
      BY <1>1 DEF InstallHandler, Runs, Goto, ivars, pvars
  <2>2. pc'[Main] = "check" /\ \A u \in Threads \ {Main} : pc'[u] = pc[u]
      BY <1>0, <2>1 DEF Types
  <2>3. registered = Workers
    <3>1. initWaiter[Main] = "out"
        BY <1>0, <2>1 DEF WorkerAt
    <3> QED BY <1>0, <3>1, AllRegistered
  <2>4. Types'
      BY <1>0, <2>1 DEF Types
  <2>5. \A u \in Workers : WorkerAt(u)'
      BY <2>1, <2>2, Members DEF Inv, WorkerAt
  <2>6. UpdaterAt' /\ Begin'
      BY <2>1, <2>2, Members DEF Inv, UpdaterAt, Begin
  <2>7. Handlers'
      BY <2>1, <2>3 DEF Handlers
  <2>8. Barriers'
      BY <2>1, <2>2, QuietBarriers DEF Inv
  <2> QED BY <2>4, <2>5, <2>6, <2>7, <2>8 DEF Inv
<1>2. CASE CheckShutdown
  <2>1. /\ pc[Main] = "check" /\ exited' \in BOOLEAN
        /\ pc' = pc \/ (pc' = [pc EXCEPT ![Main] = "post"] /\ exited' = exited)
        /\ mode' = mode /\ registered' = registered /\ ticketsReady' = ticketsReady
        /\ handler' = handler /\ sig' = sig /\ signals' = signals /\ eventfd' = eventfd
        /\ shutdown_requested' = shutdown_requested
        /\ UNCHANGED <<ivars, pvars, mode>> /\ initWaiter' = initWaiter /\ postWaiter' = postWaiter
      BY <1>0, <1>2 DEF CheckShutdown, Runs, Goto, svars, ivars, pvars, Types
  <2>2. /\ pc'[Main] \in {"check", "post"} /\ \A u \in Threads \ {Main} : pc'[u] = pc[u]
      BY <1>0, <2>1 DEF Types
  <2>3. Types'
      BY <1>0, <2>1 DEF Types
  <2>4. \A u \in Workers : WorkerAt(u)'
      BY <2>1, <2>2, Members DEF Inv, WorkerAt
  <2>5. UpdaterAt' /\ Begin'
      BY <2>1, <2>2, Members DEF Inv, UpdaterAt, Begin
  <2>6. Handlers'
      BY <2>1 DEF Inv, Handlers
  <2>7. Barriers'
      BY <2>1, <2>2, QuietBarriers DEF Inv
  <2> QED BY <2>3, <2>4, <2>5, <2>6, <2>7 DEF Inv
<1> QED BY <1>1, <1>2

(* The signal handler, on top of any thread *)
LEMMA SignalInv == ASSUME Inv, NEW t \in Threads, Deliver(t) \/ HandlerStep(t) PROVE Inv'
<1>0. Types /\ Handlers
    BY DEF Inv
<1>1. /\ mode' = mode /\ registered' = registered /\ ticketsReady' = ticketsReady /\ exited' = exited
      /\ UNCHANGED <<ivars, pvars, mode>> /\ initWaiter' = initWaiter /\ postWaiter' = postWaiter
    BY DEF Deliver, HandlerStep, SetFlag, NotifyAll, IgnoreSigterm, ivars, pvars
<1>2. /\ pc' \in [Threads -> {"none", "setup", "start", "init", "ready", "init_wait",
                           "install", "check", "post", "post_wait", "loop", "poll",
                           "drain", "load", "asleep"}]
      /\ \A u \in Threads : pc'[u] = pc[u] \/ (pc[u] = "poll" /\ pc'[u] = "loop")
    BY <1>0 DEF Deliver, HandlerStep, SetFlag, NotifyAll, IgnoreSigterm, Types
<1>3. /\ sig' \in [Threads -> {"none", "flag", "notify", "send", "mask"}]
      /\ handler' \in {"flag", "notify", "ignore"} /\ signals' \in 0 .. MaxSignals
      /\ shutdown_requested' \in BOOLEAN /\ eventfd' \subseteq Workers /\ Handlers'
  <2>1. CASE Deliver(t)
    <3>1. /\ sig' = [sig EXCEPT ![t] = handler] /\ handler # "ignore" /\ signals < MaxSignals
          /\ signals' = signals + 1 /\ handler' = handler /\ eventfd' = eventfd
          /\ shutdown_requested' = shutdown_requested
        BY <2>1 DEF Deliver
    <3>2. signals' \in 0 .. MaxSignals
        BY <1>0, <3>1, StartupAssumption DEF Types
    <3> QED BY <1>0, <1>1, <3>1, <3>2 DEF Types, Handlers
  <2>2. CASE SetFlag(t)
    <3>1. /\ sig[t] \in {"flag", "notify"} /\ shutdown_requested' = TRUE
          /\ sig' = [sig EXCEPT ![t] = IF sig[t] = "notify" THEN "send" ELSE "mask"]
          /\ handler' = handler /\ signals' = signals /\ eventfd' = eventfd
        BY <2>2 DEF SetFlag
    <3> QED BY <1>0, <1>1, <3>1 DEF Types, Handlers
  <2>3. CASE NotifyAll(t)
    <3>1. /\ eventfd' = eventfd \cup Workers /\ sig' = [sig EXCEPT ![t] = "mask"]
          /\ handler' = handler /\ signals' = signals /\ shutdown_requested' = shutdown_requested
        BY <2>3 DEF NotifyAll
    <3> QED BY <1>0, <1>1, <3>1 DEF Types, Handlers
  <2>4. CASE IgnoreSigterm(t)
    <3>1. /\ handler' = "ignore" /\ sig' = [sig EXCEPT ![t] = "none"]
          /\ signals' = signals /\ eventfd' = eventfd /\ shutdown_requested' = shutdown_requested
        BY <2>4 DEF IgnoreSigterm
    <3> QED BY <1>0, <1>1, <3>1 DEF Types, Handlers
  <2> QED BY <2>1, <2>2, <2>3, <2>4 DEF HandlerStep
<1>4. Types'
    BY <1>0, <1>1, <1>2, <1>3 DEF Types
<1>5. \A u \in Workers : WorkerAt(u)'
    BY <1>1, <1>2, Members DEF Inv, WorkerAt
<1>6. pc'[Updater] = pc[Updater]
    BY <1>2, Members DEF Inv, UpdaterAt
<1>7. UpdaterAt'
    BY <1>1, <1>6 DEF Inv, UpdaterAt
<1>8. Begin'
    BY <1>2, <1>6, Members DEF Inv, Begin
<1>9. Barriers'
    BY <1>1, <1>2, Members, QuietBarriers DEF Inv
<1> QED BY <1>3, <1>4, <1>5, <1>7, <1>8, <1>9 DEF Inv

-----------------------------------------------------------------------------
LEMMA NextInv == Inv /\ [Next]_vars => Inv'
<1> SUFFICES ASSUME Inv, [Next]_vars PROVE Inv'
    OBVIOUS
<1>1. CASE MainStep
    BY <1>1, SetupTicketsInv, StartThreadsInv, InstallHandlerInv DEF MainStep
<1>2. CASE UpdaterStep
    BY <1>2, PostBarrierInv, Members DEF UpdaterStep
<1>3. ASSUME NEW t \in Workers, WorkerStep(t) \/ PollOther(t) PROVE Inv'
    BY <1>3, QuietWorkerInv, InitBarrierInv, PostBarrierInv, Members DEF WorkerStep
<1>4. ASSUME NEW t \in Threads, Deliver(t) \/ HandlerStep(t) \/ SpuriousWakeup(t) PROVE Inv'
    BY <1>4, SignalInv, SpuriousWakeupInv
<1>5. CASE UNCHANGED vars
  <2>1. /\ mode' = mode /\ pc' = pc /\ registered' = registered /\ ticketsReady' = ticketsReady
        /\ exited' = exited /\ handler' = handler /\ sig' = sig /\ signals' = signals
        /\ shutdown_requested' = shutdown_requested /\ eventfd' = eventfd
        /\ UNCHANGED <<ivars, pvars, mode>> /\ initWaiter' = initWaiter /\ postWaiter' = postWaiter
      BY <1>5 DEF vars, svars, ivars, pvars
  <2>2. Types' /\ Handlers' /\ UpdaterAt' /\ Begin'
      BY <2>1 DEF Inv, Types, Handlers, UpdaterAt, Begin
  <2>3. \A u \in Workers : WorkerAt(u)'
      BY <2>1 DEF Inv, WorkerAt
  <2>4. Barriers'
      BY <2>1, QuietBarriers DEF Inv
  <2> QED BY <2>2, <2>3, <2>4 DEF Inv
<1> QED BY <1>1, <1>2, <1>3, <1>4, <1>5 DEF Next

(* No thread of run_loop serves before all threads are registered and, with   *)
(* QUIC, tickets are there, and the handler that notifies all threads never   *)
(* finds one that is not registered, at whatever point SIGTERM arrives; the   *)
(* counters of the barriers do not wrap around.                               *)
THEOREM StartupOrdered == SafeSpec => []StartupOrder
<1>1. Inv => StartupOrder
  <2> SUFFICES ASSUME Inv PROVE StartupOrder
      OBVIOUS
  <2>1. /\ Barrier(Workers, initCount, initWaiter) /\ Workers \in SUBSET Threads
        /\ Barrier(Participants, postCount, postWaiter) /\ Participants \in SUBSET Threads
      BY Members DEF Inv, Barriers, Participants
  <2>2. initCount \in 0 .. Cardinality(Workers) /\ Cardinality(Workers) \in Nat
      BY <2>1, BarrierCount
  <2>3. postCount \in 0 .. Cardinality(Workers) + 1
    <3>1. postCount \in 0 .. Cardinality(Participants)
        BY <2>1, BarrierCount
    <3>2. Cardinality(Participants) \in {Cardinality(Workers), Cardinality(Workers) + 1}
      <4>1. Cardinality(Workers \cup {Updater}) = Cardinality(Workers) + 1
          BY StartupAssumption, FS_AddElement
      <4>2. Participants = Workers \/ Participants = Workers \cup {Updater}
          BY DEF Participants
      <4> QED BY <4>1, <4>2
    <3> QED BY <2>2, <3>1, <3>2
  <2>4. TypeOK
      BY <2>2, <2>3 DEF Inv, Types, TypeOK
  <2>5. NotifyOnlyRegistered
      BY DEF Inv, Handlers, NotifyOnlyRegistered
  <2>6. ASSUME NEW t \in Workers, Serving(t)
        PROVE  registered = Workers /\ (mode = "quic" => ticketsReady)
    <3>1. initWaiter[t] = "out" /\ postWaiter[t] = "out"
        BY <2>6 DEF Inv, WorkerAt, Serving
    <3>2. registered = Workers
        BY <3>1, AllRegistered
    <3>3. postCount = 0
        BY <2>1, <3>1 DEF Barrier, Participants
    <3>4. \A u \in Participants : postWaiter[u] # "before"
        BY <2>1, <3>3, BarrierPassed
    <3>5. pc[Main] # "setup"
        BY <3>4, Members DEF Inv, WorkerAt, Participants
    <3>6. mode = "quic" => Updater \in Participants
        BY <3>5 DEF Participants
    <3> QED BY <3>2, <3>4, <3>6 DEF Inv, UpdaterAt
  <2>7. ReadyBeforeServing
      BY <2>6 DEF ReadyBeforeServing
  <2> QED BY <2>4, <2>5, <2>7 DEF StartupOrder
<1> QED BY <1>1, InitInv, NextInv, PTL DEF SafeSpec
==============================================================================
