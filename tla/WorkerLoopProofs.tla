-------------------------- MODULE WorkerLoopProofs --------------------------
(***************************************************************************)
(* Proofs about the connection limits of the worker loop, for every number *)
(* of threads, clients and connections.                                    *)
(*                                                                         *)
(* The limit is not inductive: threads test the value that a counter had   *)
(* before they incremented it, and refused ones are counted until they     *)
(* give back. What is: each counter is exact, and the connections together *)
(* with the threads that were granted one do not exceed the limit.         *)
(***************************************************************************)
EXTENDS WorkerLoop, Counting

(* Threads whose reservation counts against max_connections, or against      *)
(* max_quic_connections.                                                     *)
Holding == {w \in Workers : pc[w] \in {"granted", "quic", "quic_granted", "quic_undo"}}
HoldingQuic == {w \in Workers : pc[w] = "quic_granted"}

(* TypeOK, but for the upper bounds of the counters, which follow. *)
Types ==
    /\ num \in Nat /\ numQuic \in Nat /\ initials \in 0 .. MaxInitials
    /\ client \in [All -> Workers \cup {"new", "backlog", "closed"}]
    /\ pc \in [Workers -> {"loop", "update", "poll", "run", "notify", "stop", "close", "drain",
                           "accept", "refused", "granted", "quic", "quic_granted",
                           "quic_undo", "quic_undo2"}]
    /\ after \in [Workers -> {"loop", "run", "accept", "quic_undo2"}]
    /\ accepts \in [Workers -> 0 .. NumAccepts]
    /\ reading \subseteq Workers /\ stopped \subseteq stopping /\ stopping \subseteq Workers
    /\ eventfd \subseteq Workers
    /\ sigterm \in {"no", "flag", "sent"} /\ exited \in BOOLEAN

(* What a thread knows by where it is. *)
Places ==
    \A w \in Workers :
        /\ pc[w] \in {"accept", "granted"} \/ (pc[w] = "notify" /\ after[w] = "accept")
              => accepts[w] >= 1
        /\ pc[w] = "close" => w \in stopping
        /\ pc[w] = "drain" => w \in stopped

(* Grants and connections, within the limits. *)
Limits ==
    /\ Cardinality(Established) + Cardinality(Holding) <= MaxConnections
    /\ Cardinality(Established \cap QuicClients) + Cardinality(HoldingQuic) <= MaxQuic

(* The inductive invariant. *)
Inv == Types /\ Places /\ CountExact /\ Limits /\ ListenerResumes

(* A step of one thread changes the sets of threads in that thread only. *)
LEMMA WorkerMoves ==
  ASSUME Types, NEW w \in Workers,
         \A v \in Workers \ {w} : pc'[v] = pc[v] /\ after'[v] = after[v]
  PROVE  /\ Cardinality(Reserving') \in Nat /\ Cardinality(ReservingQuic') \in Nat
         /\ Cardinality(Holding') \in Nat /\ Cardinality(HoldingQuic') \in Nat
         /\ Cardinality(Reserving') = Cardinality(Reserving) + Ind(w \in Reserving') - Ind(w \in Reserving)
         /\ Cardinality(ReservingQuic')
              = Cardinality(ReservingQuic) + Ind(w \in ReservingQuic') - Ind(w \in ReservingQuic)
         /\ Cardinality(Holding') = Cardinality(Holding) + Ind(w \in Holding') - Ind(w \in Holding)
         /\ Cardinality(HoldingQuic')
              = Cardinality(HoldingQuic) + Ind(w \in HoldingQuic') - Ind(w \in HoldingQuic)
<1>1. IsFiniteSet(Workers)
    BY WorkerLoopAssumption
<1>2. /\ Reserving \subseteq Workers /\ Reserving' \subseteq Workers
      /\ \A v \in Workers \ {w} : v \in Reserving <=> v \in Reserving'
    BY DEF Reserving
<1>3. /\ ReservingQuic \subseteq Workers /\ ReservingQuic' \subseteq Workers
      /\ \A v \in Workers \ {w} : v \in ReservingQuic <=> v \in ReservingQuic'
    BY DEF ReservingQuic
<1>4. /\ Holding \subseteq Workers /\ Holding' \subseteq Workers
      /\ \A v \in Workers \ {w} : v \in Holding <=> v \in Holding'
    BY DEF Holding
<1>5. /\ HoldingQuic \subseteq Workers /\ HoldingQuic' \subseteq Workers
      /\ \A v \in Workers \ {w} : v \in HoldingQuic <=> v \in HoldingQuic'
    BY DEF HoldingQuic
<1>6. /\ Cardinality(Reserving') \in Nat
      /\ Cardinality(Reserving') = Cardinality(Reserving) + Ind(w \in Reserving') - Ind(w \in Reserving)
    BY <1>1, <1>2, OneChange
<1>7. /\ Cardinality(ReservingQuic') \in Nat
      /\ Cardinality(ReservingQuic')
              = Cardinality(ReservingQuic) + Ind(w \in ReservingQuic') - Ind(w \in ReservingQuic)
    BY <1>1, <1>3, OneChange
<1>8. /\ Cardinality(Holding') \in Nat
      /\ Cardinality(Holding') = Cardinality(Holding) + Ind(w \in Holding') - Ind(w \in Holding)
    BY <1>1, <1>4, OneChange
<1>9. /\ Cardinality(HoldingQuic') \in Nat
      /\ Cardinality(HoldingQuic')
              = Cardinality(HoldingQuic) + Ind(w \in HoldingQuic') - Ind(w \in HoldingQuic)
    BY <1>1, <1>5, OneChange
<1> QED BY <1>6, <1>7, <1>8, <1>9

(* There are finitely many clients. *)
LEMMA AllFinite == IsFiniteSet(All)
BY WorkerLoopAssumption, FS_Union DEF All

(* ... and a step of one client the sets of clients in that client only. *)
LEMMA ClientMoves ==
  ASSUME Types, NEW c \in All, \A d \in All \ {c} : client'[d] = client[d]
  PROVE  /\ Cardinality(Established') \in Nat
         /\ Cardinality((Established \cap QuicClients)') \in Nat
         /\ Cardinality(Established')
              = Cardinality(Established) + Ind(c \in Established') - Ind(c \in Established)
         /\ Cardinality((Established \cap QuicClients)')
              = Cardinality(Established \cap QuicClients)
                + Ind(c \in Established' \cap QuicClients) - Ind(c \in Established \cap QuicClients)
<1>1. IsFiniteSet(All)
    BY AllFinite
<1>2. /\ Established \subseteq All /\ Established' \subseteq All
      /\ \A d \in All \ {c} : d \in Established <=> d \in Established'
    BY DEF Established
<1>3. /\ (Established \cap QuicClients) \subseteq All /\ (Established \cap QuicClients)' \subseteq All
      /\ \A d \in All \ {c} : d \in Established \cap QuicClients <=> d \in (Established \cap QuicClients)'
    BY <1>2
<1> QED BY <1>1, <1>2, <1>3, OneChange

(* The sets that are counted are finite, and who holds reserves. *)
LEMMA Sizes ==
  ASSUME Types
  PROVE  /\ Cardinality(Established) \in Nat /\ Cardinality(Established \cap QuicClients) \in Nat
         /\ Cardinality(Reserving) \in Nat /\ Cardinality(Holding) \in Nat
         /\ Cardinality(ReservingQuic) \in Nat /\ Cardinality(HoldingQuic) \in Nat
         /\ Cardinality(Holding) <= Cardinality(Reserving)
         /\ Cardinality(HoldingQuic) <= Cardinality(ReservingQuic)
         /\ Cardinality(ReservingQuic) <= Cardinality(Workers)
         /\ Cardinality(Reserving) <= Cardinality(Workers)
         /\ Cardinality(Workers) \in Nat
<1>1. IsFiniteSet(Workers) /\ IsFiniteSet(All)
    BY WorkerLoopAssumption, AllFinite
<1>2. /\ Reserving \in SUBSET Workers /\ ReservingQuic \in SUBSET Workers
      /\ Holding \in SUBSET Reserving /\ HoldingQuic \in SUBSET ReservingQuic
      /\ Established \in SUBSET All /\ (Established \cap QuicClients) \in SUBSET All
    BY DEF Reserving, ReservingQuic, Holding, HoldingQuic, Established
<1>3. /\ IsFiniteSet(Reserving) /\ IsFiniteSet(ReservingQuic)
      /\ IsFiniteSet(Established) /\ IsFiniteSet(Established \cap QuicClients)
      /\ Cardinality(Reserving) <= Cardinality(Workers)
      /\ Cardinality(ReservingQuic) <= Cardinality(Workers)
    BY <1>1, <1>2, FS_Subset
<1>4. /\ IsFiniteSet(Holding) /\ IsFiniteSet(HoldingQuic)
      /\ Cardinality(Holding) <= Cardinality(Reserving)
      /\ Cardinality(HoldingQuic) <= Cardinality(ReservingQuic)
    BY <1>2, <1>3, FS_Subset
<1> QED BY <1>1, <1>3, <1>4, FS_CardinalityType

(* Only the thread w moves. *)
Alone(w) == \A v \in Workers \ {w} : pc'[v] = pc[v] /\ after'[v] = after[v]

(* The counters follow a thread that reserves and releases: the limit is     *)
(* tested on the value that the counter had before.                          *)
LEMMA ThreadCounts ==
  ASSUME Inv, NEW w \in Workers, Alone(w), client' = client,
         num' = num + Ind(w \in Reserving') - Ind(w \in Reserving),
         numQuic' = numQuic + Ind(w \in ReservingQuic') - Ind(w \in ReservingQuic),
         w \in Holding' => w \in Holding \/ num < MaxConnections,
         w \in HoldingQuic' => w \in HoldingQuic \/ numQuic < MaxQuic
  PROVE  CountExact' /\ Limits' /\ num' \in Nat /\ numQuic' \in Nat
<1> DEFINE E == Cardinality(Established)  Q == Cardinality(Established \cap QuicClients)
           R == Cardinality(Reserving)  RQ == Cardinality(ReservingQuic)
           H == Cardinality(Holding)  HQ == Cardinality(HoldingQuic)
<1>1. E' = E /\ Q' = Q
    BY DEF Established
<1>2. /\ R' = R + Ind(w \in Reserving') - Ind(w \in Reserving)
      /\ RQ' = RQ + Ind(w \in ReservingQuic') - Ind(w \in ReservingQuic)
      /\ H' = H + Ind(w \in Holding') - Ind(w \in Holding)
      /\ HQ' = HQ + Ind(w \in HoldingQuic') - Ind(w \in HoldingQuic)
      /\ R' \in Nat /\ RQ' \in Nat
    BY WorkerMoves DEF Inv, Alone
<1>3. /\ E \in Nat /\ Q \in Nat /\ R \in Nat /\ RQ \in Nat /\ H \in Nat /\ HQ \in Nat
      /\ H <= R /\ HQ <= RQ /\ num \in Nat /\ numQuic \in Nat
    BY Sizes DEF Inv, Types
<1>4. num = E + R /\ numQuic = Q + RQ /\ E + H <= MaxConnections /\ Q + HQ <= MaxQuic
    BY DEF Inv, CountExact, Limits
<1>5. MaxConnections \in Nat /\ MaxQuic \in Nat
    BY WorkerLoopAssumption
<1>6. num' = E' + R' /\ numQuic' = Q' + RQ'
  <2> HIDE DEF E, Q, R, RQ, H, HQ
  <2> QED BY <1>1, <1>2, <1>3, <1>4 DEF Ind
<1>7. E' + H' <= MaxConnections /\ Q' + HQ' <= MaxQuic
  <2> HIDE DEF E, Q, R, RQ, H, HQ
  <2> QED BY <1>1, <1>2, <1>3, <1>4, <1>5 DEF Ind
<1> QED BY <1>1, <1>2, <1>3, <1>6, <1>7 DEF CountExact, Limits

(* ... and one that takes or loses a connection. *)
LEMMA ClientCounts ==
  ASSUME Inv, NEW w \in Workers, Alone(w),
         NEW c \in All, \A d \in All \ {c} : client'[d] = client[d],
         num' = num + Ind(w \in Reserving') - Ind(w \in Reserving)
                    + Ind(c \in Established') - Ind(c \in Established),
         numQuic' = numQuic + Ind(w \in ReservingQuic') - Ind(w \in ReservingQuic)
                            + Ind(c \in Established' \cap QuicClients)
                            - Ind(c \in Established \cap QuicClients),
         Ind(w \in Holding') + Ind(c \in Established') <= Ind(w \in Holding) + Ind(c \in Established),
         Ind(w \in HoldingQuic') + Ind(c \in Established' \cap QuicClients)
             <= Ind(w \in HoldingQuic) + Ind(c \in Established \cap QuicClients)
  PROVE  CountExact' /\ Limits' /\ num' \in Nat /\ numQuic' \in Nat
<1> DEFINE E == Cardinality(Established)  Q == Cardinality(Established \cap QuicClients)
           R == Cardinality(Reserving)  RQ == Cardinality(ReservingQuic)
           H == Cardinality(Holding)  HQ == Cardinality(HoldingQuic)
<1>1. /\ E' = E + Ind(c \in Established') - Ind(c \in Established)
      /\ Q' = Q + Ind(c \in Established' \cap QuicClients) - Ind(c \in Established \cap QuicClients)
      /\ E' \in Nat /\ Q' \in Nat
    BY ClientMoves DEF Inv
<1>2. /\ R' = R + Ind(w \in Reserving') - Ind(w \in Reserving)
      /\ RQ' = RQ + Ind(w \in ReservingQuic') - Ind(w \in ReservingQuic)
      /\ H' = H + Ind(w \in Holding') - Ind(w \in Holding)
      /\ HQ' = HQ + Ind(w \in HoldingQuic') - Ind(w \in HoldingQuic)
      /\ R' \in Nat /\ RQ' \in Nat
    BY WorkerMoves DEF Inv, Alone
<1>3. /\ E \in Nat /\ Q \in Nat /\ R \in Nat /\ RQ \in Nat /\ H \in Nat /\ HQ \in Nat
      /\ num \in Nat /\ numQuic \in Nat
    BY Sizes DEF Inv, Types
<1>4. num = E + R /\ numQuic = Q + RQ /\ E + H <= MaxConnections /\ Q + HQ <= MaxQuic
    BY DEF Inv, CountExact, Limits
<1>5. MaxConnections \in Nat /\ MaxQuic \in Nat
    BY WorkerLoopAssumption
<1> HIDE DEF E, Q, R, RQ, H, HQ
<1>6. num' = E' + R' /\ numQuic' = Q' + RQ'
    BY <1>1, <1>2, <1>3, <1>4 DEF Ind
<1>7. E' + H' <= MaxConnections /\ Q' + HQ' <= MaxQuic
    BY <1>1, <1>2, <1>3, <1>4, <1>5 DEF Ind
<1> QED BY <1>1, <1>2, <1>3, <1>6, <1>7 DEF CountExact, Limits, E, Q, R, RQ, H, HQ

(* Steps of the loop itself leave the counters alone. *)
LEMMA LoopInv ==
  ASSUME Inv, NEW w \in Workers,
         \/ TestShutdown(w) \/ UpdateListenerState(w) \/ OnNotification(w) \/ EvloopReturn(w)
         \/ StopListening(w) \/ CloseListeners(w) \/ TestDrained(w) \/ OnAccept(w)
         \/ NotifyAllThreads(w)
  PROVE  Inv'
<1> USE DEF Inv, cvars, lvars, At, Goto
<1>1. CountExact' /\ Limits' /\ num' \in Nat /\ numQuic' \in Nat
  <2>1. /\ Alone(w) /\ client' = client /\ num' = num /\ numQuic' = numQuic
        /\ w \in Reserving' <=> w \in Reserving
        /\ w \in ReservingQuic' <=> w \in ReservingQuic
        /\ w \in Holding' <=> w \in Holding
        /\ w \in HoldingQuic' <=> w \in HoldingQuic
      BY DEF Types, Alone, Reserving, ReservingQuic, Holding, HoldingQuic,
             TestShutdown, UpdateListenerState, OnNotification, EvloopReturn, StopListening,
             CloseListeners, TestDrained, OnAccept, NotifyAllThreads
  <2> QED BY <2>1, ThreadCounts DEF Ind, Types
<1>2. Types'
  <2>1. CASE TestShutdown(w)
      BY <1>1, <2>1, WorkerLoopAssumption DEF TestShutdown, Types, Places
  <2>2. CASE UpdateListenerState(w)
      BY <1>1, <2>2, WorkerLoopAssumption DEF UpdateListenerState, Types, Places
  <2>3. CASE OnNotification(w)
      BY <1>1, <2>3, WorkerLoopAssumption DEF OnNotification, Types, Places
  <2>4. CASE EvloopReturn(w)
      BY <1>1, <2>4, WorkerLoopAssumption DEF EvloopReturn, Types, Places
  <2>5. CASE StopListening(w)
      BY <1>1, <2>5, WorkerLoopAssumption DEF StopListening, Types, Places
  <2>6. CASE CloseListeners(w)
      BY <1>1, <2>6, WorkerLoopAssumption DEF CloseListeners, Types, Places
  <2>7. CASE TestDrained(w)
      BY <1>1, <2>7, WorkerLoopAssumption DEF TestDrained, Types, Places
  <2>8. CASE OnAccept(w)
      BY <1>1, <2>8, WorkerLoopAssumption DEF OnAccept, Types, Places
  <2>9. CASE NotifyAllThreads(w)
      BY <1>1, <2>9, WorkerLoopAssumption DEF NotifyAllThreads, Types, Places
  <2> QED BY <2>1, <2>2, <2>3, <2>4, <2>5, <2>6, <2>7, <2>8, <2>9
<1>3. Places'
    BY WorkerLoopAssumption DEF Types, Places,
             TestShutdown, UpdateListenerState, OnNotification, EvloopReturn, StopListening,
             CloseListeners, TestDrained, OnAccept, NotifyAllThreads
<1>4. ListenerResumes'
  <2>1. CASE TestShutdown(w)
      BY <2>1 DEF TestShutdown, Types, Places, ListenerResumes
  <2>2. CASE UpdateListenerState(w)
      BY <2>2, WorkerLoopAssumption DEF UpdateListenerState, Types, ListenerResumes
  <2>3. CASE OnNotification(w)
      BY <2>3 DEF OnNotification, Types, Places, ListenerResumes
  <2>4. CASE EvloopReturn(w)
      BY <2>4 DEF EvloopReturn, Types, Places, ListenerResumes
  <2>5. CASE StopListening(w)
      BY <2>5 DEF StopListening, Types, Places, ListenerResumes
  <2>6. CASE CloseListeners(w)
      BY <2>6 DEF CloseListeners, Types, Places, ListenerResumes
  <2>7. CASE TestDrained(w)
      BY <2>7 DEF TestDrained, Types, Places, ListenerResumes
  <2>8. CASE OnAccept(w)
      BY <2>8 DEF OnAccept, Types, Places, ListenerResumes
  <2>9. CASE NotifyAllThreads(w)
      BY <2>9 DEF NotifyAllThreads, Types, Places, ListenerResumes
  <2> QED BY <2>1, <2>2, <2>3, <2>4, <2>5, <2>6, <2>7, <2>8, <2>9
<1> QED BY <1>1, <1>2, <1>3, <1>4

(* Reserving and giving back, of threads without a connection. *)
LEMMA ReserveInv ==
  ASSUME Inv, NEW w \in Workers,
         \/ Reserve(w) \/ Refused(w) \/ AcceptNothing(w)
         \/ QuicReserve(w) \/ QuicReserveQuic(w) \/ QuicReject(w) \/ QuicUndo(w) \/ QuicUndoQuic(w)
  PROVE  Inv'
<1> USE DEF Inv, cvars, lvars, At, Goto, Release
<1>1. CountExact' /\ Limits' /\ num' \in Nat /\ numQuic' \in Nat
  <2>1. /\ Alone(w) /\ client' = client
        /\ num' = num + Ind(w \in Reserving') - Ind(w \in Reserving)
        /\ numQuic' = numQuic + Ind(w \in ReservingQuic') - Ind(w \in ReservingQuic)
        /\ w \in Holding' => w \in Holding \/ num < MaxConnections
        /\ w \in HoldingQuic' => w \in HoldingQuic \/ numQuic < MaxQuic
    <3>1. CASE Reserve(w)
        BY <3>1, WorkerLoopAssumption DEF Reserve, Types, Alone,
               Reserving, ReservingQuic, Holding, HoldingQuic, Ind
    <3>2. CASE Refused(w)
        BY <3>2, WorkerLoopAssumption DEF Refused, Types, Alone,
               Reserving, ReservingQuic, Holding, HoldingQuic, Ind
    <3>3. CASE AcceptNothing(w)
        BY <3>3, WorkerLoopAssumption DEF AcceptNothing, Types, Alone,
               Reserving, ReservingQuic, Holding, HoldingQuic, Ind
    <3>4. CASE QuicReserve(w)
        BY <3>4, WorkerLoopAssumption DEF QuicReserve, Types, Alone,
               Reserving, ReservingQuic, Holding, HoldingQuic, Ind
    <3>5. CASE QuicReserveQuic(w)
        BY <3>5, WorkerLoopAssumption DEF QuicReserveQuic, Types, Alone,
               Reserving, ReservingQuic, Holding, HoldingQuic, Ind
    <3>6. CASE QuicReject(w)
        BY <3>6, WorkerLoopAssumption DEF QuicReject, Types, Alone,
               Reserving, ReservingQuic, Holding, HoldingQuic, Ind
    <3>7. CASE QuicUndo(w)
        BY <3>7, WorkerLoopAssumption DEF QuicUndo, Types, Alone,
               Reserving, ReservingQuic, Holding, HoldingQuic, Ind
    <3>8. CASE QuicUndoQuic(w)
        BY <3>8, WorkerLoopAssumption DEF QuicUndoQuic, Types, Alone,
               Reserving, ReservingQuic, Holding, HoldingQuic, Ind
    <3> QED BY <3>1, <3>2, <3>3, <3>4, <3>5, <3>6, <3>7, <3>8
  <2> QED BY <2>1, ThreadCounts
<1>2. Types'
  <2>1. CASE Reserve(w)
      BY <1>1, <2>1, WorkerLoopAssumption DEF Reserve, Types, Places
  <2>2. CASE Refused(w)
      BY <1>1, <2>2, WorkerLoopAssumption DEF Refused, Types, Places
  <2>3. CASE AcceptNothing(w)
      BY <1>1, <2>3, WorkerLoopAssumption DEF AcceptNothing, Types, Places
  <2>4. CASE QuicReserve(w)
      BY <1>1, <2>4, WorkerLoopAssumption DEF QuicReserve, Types, Places
  <2>5. CASE QuicReserveQuic(w)
      BY <1>1, <2>5, WorkerLoopAssumption DEF QuicReserveQuic, Types, Places
  <2>6. CASE QuicReject(w)
      BY <1>1, <2>6, WorkerLoopAssumption DEF QuicReject, Types, Places
  <2>7. CASE QuicUndo(w)
      BY <1>1, <2>7, WorkerLoopAssumption DEF QuicUndo, Types, Places
  <2>8. CASE QuicUndoQuic(w)
      BY <1>1, <2>8, WorkerLoopAssumption DEF QuicUndoQuic, Types, Places
  <2> QED BY <2>1, <2>2, <2>3, <2>4, <2>5, <2>6, <2>7, <2>8
<1>3. Places'
  <2>1. CASE Reserve(w)
      BY <2>1, WorkerLoopAssumption DEF Reserve, Types, Places
  <2>2. CASE Refused(w)
      BY <2>2, WorkerLoopAssumption DEF Refused, Types, Places
  <2>3. CASE AcceptNothing(w)
      BY <2>3, WorkerLoopAssumption DEF AcceptNothing, Types, Places
  <2>4. CASE QuicReserve(w)
      BY <2>4, WorkerLoopAssumption DEF QuicReserve, Types, Places
  <2>5. CASE QuicReserveQuic(w)
      BY <2>5, WorkerLoopAssumption DEF QuicReserveQuic, Types, Places
  <2>6. CASE QuicReject(w)
      BY <2>6, WorkerLoopAssumption DEF QuicReject, Types, Places
  <2>7. CASE QuicUndo(w)
      BY <2>7, WorkerLoopAssumption DEF QuicUndo, Types, Places
  <2>8. CASE QuicUndoQuic(w)
      BY <2>8, WorkerLoopAssumption DEF QuicUndoQuic, Types, Places
  <2> QED BY <2>1, <2>2, <2>3, <2>4, <2>5, <2>6, <2>7, <2>8
<1>4. ListenerResumes'
  <2>1. CASE Reserve(w)
      BY <1>1, <2>1, WorkerLoopAssumption DEF Reserve, Types, Places, ListenerResumes
  <2>2. CASE Refused(w)
      BY <1>1, <2>2, WorkerLoopAssumption DEF Refused, Types, Places, ListenerResumes
  <2>3. CASE AcceptNothing(w)
      BY <1>1, <2>3, WorkerLoopAssumption DEF AcceptNothing, Types, Places, ListenerResumes
  <2>4. CASE QuicReserve(w)
      BY <1>1, <2>4, WorkerLoopAssumption DEF QuicReserve, Types, Places, ListenerResumes
  <2>5. CASE QuicReserveQuic(w)
      BY <1>1, <2>5, WorkerLoopAssumption DEF QuicReserveQuic, Types, Places, ListenerResumes
  <2>6. CASE QuicReject(w)
      BY <1>1, <2>6, WorkerLoopAssumption DEF QuicReject, Types, Places, ListenerResumes
  <2>7. CASE QuicUndo(w)
      BY <1>1, <2>7, WorkerLoopAssumption DEF QuicUndo, Types, Places, ListenerResumes
  <2>8. CASE QuicUndoQuic(w)
      BY <1>1, <2>8, WorkerLoopAssumption DEF QuicUndoQuic, Types, Places, ListenerResumes
  <2> QED BY <2>1, <2>2, <2>3, <2>4, <2>5, <2>6, <2>7, <2>8
<1> QED BY <1>1, <1>2, <1>3, <1>4

(* A connection is taken, or ends. *)
LEMMA ConnectionInv ==
  ASSUME Inv, NEW w \in Workers, NEW c \in All,
         \/ c \in Clients /\ (AcceptSocket(w, c) \/ SocketClose(w, c))
         \/ c \in QuicClients /\ (QuicEstablish(w, c) \/ QuicClose(w, c))
  PROVE  Inv'
<1> USE DEF Inv, cvars, lvars, At, Goto, Release
<1>1. CountExact' /\ Limits' /\ num' \in Nat /\ numQuic' \in Nat
  <2>1. /\ Alone(w) /\ \A d \in All \ {c} : client'[d] = client[d]
        /\ num' = num + Ind(w \in Reserving') - Ind(w \in Reserving)
                      + Ind(c \in Established') - Ind(c \in Established)
        /\ numQuic' = numQuic + Ind(w \in ReservingQuic') - Ind(w \in ReservingQuic)
                              + Ind(c \in Established' \cap QuicClients)
                              - Ind(c \in Established \cap QuicClients)
        /\ Ind(w \in Holding') + Ind(c \in Established') <= Ind(w \in Holding) + Ind(c \in Established)
        /\ Ind(w \in HoldingQuic') + Ind(c \in Established' \cap QuicClients)
               <= Ind(w \in HoldingQuic) + Ind(c \in Established \cap QuicClients)
    <3>1. CASE c \in Clients /\ AcceptSocket(w, c)
        BY <3>1, WorkerLoopAssumption DEF AcceptSocket, Types, Alone, Established,
               Reserving, ReservingQuic, Holding, HoldingQuic, Ind
    <3>2. CASE c \in Clients /\ SocketClose(w, c)
        BY <3>2, WorkerLoopAssumption DEF SocketClose, Types, Alone, Established,
               Reserving, ReservingQuic, Holding, HoldingQuic, Ind
    <3>3. CASE c \in QuicClients /\ QuicEstablish(w, c)
        BY <3>3, WorkerLoopAssumption DEF QuicEstablish, Types, Alone, Established,
               Reserving, ReservingQuic, Holding, HoldingQuic, Ind
    <3>4. CASE c \in QuicClients /\ QuicClose(w, c)
        BY <3>4, WorkerLoopAssumption DEF QuicClose, Types, Alone, Established,
               Reserving, ReservingQuic, Holding, HoldingQuic, Ind
    <3> QED BY <3>1, <3>2, <3>3, <3>4
  <2> QED BY <2>1, ClientCounts
<1>2. Types'
  <2>1. CASE c \in Clients /\ AcceptSocket(w, c)
      BY <1>1, <2>1, WorkerLoopAssumption DEF AcceptSocket, Types, Places
  <2>2. CASE c \in Clients /\ SocketClose(w, c)
      BY <1>1, <2>2, WorkerLoopAssumption DEF SocketClose, Types, Places
  <2>3. CASE c \in QuicClients /\ QuicEstablish(w, c)
      BY <1>1, <2>3, WorkerLoopAssumption DEF QuicEstablish, Types, Places
  <2>4. CASE c \in QuicClients /\ QuicClose(w, c)
      BY <1>1, <2>4, WorkerLoopAssumption DEF QuicClose, Types, Places
  <2> QED BY <2>1, <2>2, <2>3, <2>4
<1>3. Places'
  <2>1. CASE c \in Clients /\ AcceptSocket(w, c)
      BY <2>1, WorkerLoopAssumption DEF AcceptSocket, Types, Places
  <2>2. CASE c \in Clients /\ SocketClose(w, c)
      BY <2>2, WorkerLoopAssumption DEF SocketClose, Types, Places
  <2>3. CASE c \in QuicClients /\ QuicEstablish(w, c)
      BY <2>3, WorkerLoopAssumption DEF QuicEstablish, Types, Places
  <2>4. CASE c \in QuicClients /\ QuicClose(w, c)
      BY <2>4, WorkerLoopAssumption DEF QuicClose, Types, Places
  <2> QED BY <2>1, <2>2, <2>3, <2>4
<1>4. ListenerResumes'
  <2>1. CASE c \in Clients /\ AcceptSocket(w, c)
      BY <1>1, <2>1, WorkerLoopAssumption DEF AcceptSocket, Types, Places, ListenerResumes
  <2>2. CASE c \in Clients /\ SocketClose(w, c)
      BY <1>1, <2>2, WorkerLoopAssumption DEF SocketClose, Types, Places, ListenerResumes
  <2>3. CASE c \in QuicClients /\ QuicEstablish(w, c)
      BY <1>1, <2>3, WorkerLoopAssumption DEF QuicEstablish, Types, Places, ListenerResumes
  <2>4. CASE c \in QuicClients /\ QuicClose(w, c)
      BY <1>1, <2>4, WorkerLoopAssumption DEF QuicClose, Types, Places, ListenerResumes
  <2> QED BY <2>1, <2>2, <2>3, <2>4
<1> QED BY <1>1, <1>2, <1>3, <1>4

(* What happens outside of the threads. *)
LEMMA OutsideInv ==
  ASSUME Inv,
         \/ \E c \in Clients : Connect(c)
         \/ SetShutdownRequested \/ NotifyShutdown \/ UNCHANGED vars
  PROVE  Inv'
<1>1. /\ num' = num /\ numQuic' = numQuic /\ pc' = pc /\ after' = after /\ accepts' = accepts
      /\ stopping' = stopping /\ stopped' = stopped /\ reading' = reading
      /\ eventfd \subseteq eventfd'
    BY DEF Inv, Types, Connect, SetShutdownRequested, NotifyShutdown, vars, cvars, lvars
<1>2. Established' = Established
  <2>1. CASE client' = client
      BY <2>1 DEF Established
  <2>2. ASSUME NEW c \in Clients, Connect(c)
        PROVE  Established' = Established
      BY <2>2, WorkerLoopAssumption DEF Connect, Established, Inv, Types, All
  <2> QED BY <2>1, <2>2 DEF SetShutdownRequested, NotifyShutdown, vars, cvars
<1>3. CountExact' /\ Limits'
    BY <1>1, <1>2 DEF Inv, CountExact, Limits, Reserving, ReservingQuic, Holding, HoldingQuic
<1>4. Types'
    BY DEF Inv, Types, Connect, SetShutdownRequested, NotifyShutdown, vars, cvars, lvars, All
<1>5. Places' /\ ListenerResumes'
    BY <1>1 DEF Inv, Places, ListenerResumes
<1> QED BY <1>3, <1>4, <1>5 DEF Inv

(* Nobody is connected at first. *)
LEMMA InitInv == Init => Inv
<1> SUFFICES ASSUME Init PROVE Inv
    OBVIOUS
<1>1. Types /\ Places /\ ListenerResumes
  <2>1. 0 \in 0 .. MaxInitials /\ 0 \in 0 .. NumAccepts
      BY WorkerLoopAssumption
  <2>2. Types
      BY <2>1 DEF Init, Types
  <2>3. Places /\ ListenerResumes
      BY DEF Init, Places, ListenerResumes
  <2> QED BY <2>2, <2>3
<1>2. /\ Established = {} /\ Established \cap QuicClients = {} /\ Reserving = {}
      /\ ReservingQuic = {} /\ Holding = {} /\ HoldingQuic = {}
    BY WorkerLoopAssumption
    DEF Init, Established, Reserving, ReservingQuic, Holding, HoldingQuic
<1>3. CountExact /\ Limits
    BY <1>2, WorkerLoopAssumption, FS_EmptySet DEF Init, CountExact, Limits
<1> QED BY <1>1, <1>3 DEF Inv

(* Every step keeps the invariant. *)
LEMMA NextInv == Inv /\ [Next]_vars => Inv'
<1> SUFFICES ASSUME Inv, [Next]_vars PROVE Inv'
    OBVIOUS
<1>1. ASSUME NEW w \in Workers, ThreadStep(w)
      PROVE  Inv'
    BY <1>1, LoopInv, ReserveInv, ConnectionInv DEF ThreadStep, All
<1>2. ASSUME NEW w \in Workers, CloseSome(w)
      PROVE  Inv'
    BY <1>2, ConnectionInv DEF CloseSome, All
<1>3. ASSUME NEW w \in Workers, QuicReserve(w) \/ \E c \in QuicClients : QuicEstablish(w, c)
      PROVE  Inv'
    BY <1>3, ReserveInv, ConnectionInv DEF All
<1>4. CASE \/ \E c \in Clients : Connect(c)
           \/ SetShutdownRequested \/ NotifyShutdown \/ Exited \/ UNCHANGED vars
    BY <1>4, OutsideInv DEF Exited
<1> QED BY <1>1, <1>2, <1>3, <1>4 DEF Next

(* Whatever the number of threads, clients and connections, both counters    *)
(* stay exact and have their types: no interleaving of accepts, refusals and *)
(* closes makes num_connections drift (src/main.c, num_connections).         *)
THEOREM WorkerAccounting == SafeSpec => []WorkerInv
<1>1. Inv => WorkerInv
  <2> SUFFICES ASSUME Inv PROVE WorkerInv
      OBVIOUS
  <2>1. num <= MaxConnections + Cardinality(Workers) /\ numQuic <= MaxQuic + Cardinality(Workers)
    <3>1. MaxConnections \in Nat /\ MaxQuic \in Nat
        BY WorkerLoopAssumption
    <3> QED BY <3>1, Sizes DEF Inv, CountExact, Limits
  <2> QED BY <2>1, Sizes, WorkerLoopAssumption DEF Inv, Types, WorkerInv, TypeOK
<1> QED BY <1>1, InitInv, NextInv, PTL DEF SafeSpec

(* No interleaving of the threads exceeds max_connections or                 *)
(* max_quic_connections, although test and increment of the two counters are *)
(* not one step.                                                             *)
THEOREM LimitsKept == SafeSpec => []ConnectionLimit
<1>1. Inv => ConnectionLimit
  <2>1. MaxConnections \in Nat /\ MaxQuic \in Nat
      BY WorkerLoopAssumption
  <2> QED BY <2>1, Sizes DEF Inv, Limits, ConnectionLimit
<1> QED BY <1>1, InitInv, NextInv, PTL DEF SafeSpec

(* A thread that turned its listeners off and sleeps is woken when there is  *)
(* room, although only one decrement of num_connections notifies.            *)
THEOREM NoLostSlot == SafeSpec => []ListenerResumes
BY InitInv, NextInv, PTL DEF SafeSpec, Inv
=============================================================================
