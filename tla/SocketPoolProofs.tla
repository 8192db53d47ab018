--------------------------- MODULE SocketPoolProofs ---------------------------
(***************************************************************************)
(* Proofs about SocketPool.  Most steps are those of one connection: Local *)
(* says what they have in common, and what it means for the lists, the     *)
(* counters and the tries is argued once.  The steps that link or unlink   *)
(* entries come after that, then the balancers.                            *)
(***************************************************************************)
EXTENDS SocketPool, Counting

ConnRecord == [state : States, owner : Threads \cup {"none"},
               target : Targets \cup {"none"}, tried : SUBSET Targets,
               left : 0 .. Cardinality(Targets), stale : BOOLEAN]

Counted == {"pooled", "testing", "returning"}
Out == {"resolve", "socket", "connect", "handshake", "leased"}
Trying == {"try", "selected", "resolve", "socket", "connect", "handshake"}

(* The states of a connection that a thread has at hand. *)
Handled == {"testing", "try", "selected", "socket", "returning"}

(* A connection is at hand of one thread at most, and only as long as the  *)
(* thread is in the pool's code for it.                                    *)
Held ==
    /\ \A th \in Threads : busy[th] \in Conns => conn[busy[th]].state \in Handled
    /\ \A x, y \in Threads : busy[x] \in Conns /\ busy[x] = busy[y] => x = y

(* What has been selected is a target; a retry has a try left; in a global *)
(* pool the target is known from the URL on.                               *)
TargetKnown ==
    /\ \A c \in Conns : conn[c].state \notin {"free", "try"} => conn[c].target \in Targets
    /\ \A c \in Conns : conn[c].state = "try" => conn[c].left > 0
    /\ global => \A c \in Conns : conn[c].state = "try" => conn[c].target \in Targets
    /\ global => \A th \in Threads : busy[th] \in {"connect", "lookup"} => want[th] \in Targets
    /\ global => \A th \in Threads :
            busy[th] \in Conns /\ conn[busy[th]].state = "testing" => want[th] \in Targets

(* The thread that holds the mutex is in one of the critical sections. *)
MutexHeld ==
    mutex # "none" => /\ mutex \in setup.threads
                      /\ busy[mutex] \in {"connect", "return", "lookup"}

(* IdleTimerLinked, with the states of the thread in between.  Between its *)
(* insertion and the check that follows an entry may be without a timer.   *)
TimerLinked ==
    setup.threads = {TimerThread} /\ busy[TimerThread] # "return" /\ all # <<>> => timer

Core == TypeOK /\ Held /\ TargetKnown /\ MutexHeld /\ TimerLinked

(* The inductive invariant. *)
IInv == Core /\ ListsAgree /\ PooledExact /\ CountersExact /\ BalancerInv

------------------------------------------------------------------------------
(* What the steps of one connection have in common *)

(* Its record changes, to one that fits the state it is in. *)
ConnMoves(c) ==
    /\ conn' \in [Conns -> ConnRecord] /\ \A d \in Conns \ {c} : conn'[d] = conn[d]
    /\ conn'[c].state \notin {"free", "try"} => conn'[c].target \in Targets
    /\ conn'[c].state = "try" => conn'[c].left > 0 /\ (global => conn'[c].target \in Targets)

(* The tries that are left are those of the targets that were not tried. *)
TriesMove(c) ==
    ~global /\ NumTargets > 1 /\ conn'[c].state \in Trying =>
        conn'[c].left = Cardinality(Targets \ conn'[c].tried)

(* The counters change as the sets that they count do. *)
CountsMove(c) ==
    /\ pooled_count' = pooled_count + Ind(conn'[c].state \in Counted) - Ind(conn[c].state \in Counted)
    /\ count' \in Int /\ leased_count' \in [Targets -> Int]
    /\ setup.failures \cap Drifting = {} =>
        /\ count' = count + Ind(conn'[c].state # "free") - Ind(conn[c].state # "free")
        /\ \A t \in Targets :
            leased_count'[t] = leased_count[t] + Ind(conn'[c].state \in Out /\ conn'[c].target = t)
                                               - Ind(conn[c].state \in Out /\ conn[c].target = t)

(* The thread th had the connection at hand, or nobody; it goes on with it *)
(* or with none.                                                           *)
ThreadMoves(th, c) ==
    /\ busy' \in [Threads -> {"no", "connect", "return", "lookup"} \cup Conns]
    /\ want' \in [Threads -> Targets \cup {"none"}] /\ mutex' \in Threads \cup {"none"}
    /\ \A x \in Threads \ {th} : busy'[x] = busy[x] /\ want'[x] = want[x]
    /\ busy[th] = c \/ (busy[th] \in {"no", "lookup"} /\ conn[c].state \notin Handled)
    /\ (busy'[th] = c /\ conn'[c].state \in Handled) \/ busy'[th] \in {"no", "lookup"}
    /\ busy'[th] = "lookup" => want'[th] = want[th] /\ busy[th] = c /\ conn[c].state = "testing"
    /\ mutex' = "none" \/ (mutex' = mutex /\ busy[th] # "lookup")

Local(th, c) ==
    /\ ConnMoves(c) /\ TriesMove(c) /\ CountsMove(c) /\ ThreadMoves(th, c)
    /\ conn[c].state # "pooled" /\ conn'[c].state \notin {"pooled", "testing"}
    /\ UNCHANGED <<setup, all, sockets, old, timer, disposed>>

LEMMA ConnAssumption == Conns \cap {"no", "connect", "return", "lookup"} = {} /\ "none" \notin Targets
BY SocketPoolAssumption

(* The sets that are counted change at c only. *)
LEMMA MovesCount ==
  ASSUME TypeOK, NEW c \in Conns, ConnMoves(c), CountsMove(c), setup' = setup
  PROVE  /\ PooledExact => PooledExact'
         /\ CountersExact => CountersExact'
<1>1. IsFiniteSet(Conns) /\ conn \in [Conns -> ConnRecord]
    BY SocketPoolAssumption DEF TypeOK, ConnRecord
<1>2. conn' \in [Conns -> ConnRecord] /\ \A d \in Conns \ {c} : conn'[d] = conn[d]
    BY DEF ConnMoves
<1>3. ASSUME PooledExact PROVE PooledExact'
  <2> DEFINE A == {d \in Conns : conn[d].state \in Counted}
             B == {d \in Conns : conn'[d].state \in Counted}
  <2>1. A \in SUBSET Conns /\ B \in SUBSET Conns /\ \A d \in Conns \ {c} : d \in A <=> d \in B
      BY <1>2
  <2>2. Cardinality(B) = Cardinality(A) + Ind(c \in B) - Ind(c \in A)
    <3> HIDE DEF A, B
    <3> QED BY <1>1, <2>1, OneChange
  <2>3. (c \in A <=> conn[c].state \in Counted) /\ (c \in B <=> conn'[c].state \in Counted)
      OBVIOUS
  <2>4. pooled_count = Cardinality(A)
      BY <1>3 DEF PooledExact, Is, Counted
  <2>5. pooled_count' = Cardinality(B)
      BY <2>2, <2>3, <2>4 DEF CountsMove
  <2> QED BY <2>5 DEF PooledExact, Is, Counted
<1>4. ASSUME CountersExact, setup.failures \cap Drifting = {} PROVE GovernedExact'
  <2> DEFINE A == {d \in Conns : conn[d].state # "free"}
             B == {d \in Conns : conn'[d].state # "free"}
  <2>1. A \in SUBSET Conns /\ B \in SUBSET Conns /\ \A d \in Conns \ {c} : d \in A <=> d \in B
      BY <1>2
  <2>2. Cardinality(B) = Cardinality(A) + Ind(c \in B) - Ind(c \in A)
    <3> HIDE DEF A, B
    <3> QED BY <1>1, <2>1, OneChange
  <2>3. (c \in A <=> conn[c].state # "free") /\ (c \in B <=> conn'[c].state # "free")
      OBVIOUS
  <2>4. A = Conns \ Free /\ B = Conns \ Free'
      BY DEF Free, Is
  <2>5. count = Cardinality(A)
      BY <1>4, <2>4 DEF CountersExact, GovernedExact
  <2>6. count' = Cardinality(B)
      BY <1>4, <2>2, <2>3, <2>5 DEF CountsMove
  <2> QED BY <2>4, <2>6 DEF GovernedExact
<1>5. ASSUME CountersExact, setup.failures \cap Drifting = {}, NEW t \in Targets
      PROVE  leased_count'[t] = Cardinality({d \in Is(Out)' : conn'[d].target = t})
  <2> DEFINE A == {d \in Conns : conn[d].state \in Out /\ conn[d].target = t}
             B == {d \in Conns : conn'[d].state \in Out /\ conn'[d].target = t}
  <2>1. A \in SUBSET Conns /\ B \in SUBSET Conns /\ \A d \in Conns \ {c} : d \in A <=> d \in B
      BY <1>2
  <2>2. Cardinality(B) = Cardinality(A) + Ind(c \in B) - Ind(c \in A)
    <3> HIDE DEF A, B
    <3> QED BY <1>1, <2>1, OneChange
  <2>3. /\ c \in A <=> conn[c].state \in Out /\ conn[c].target = t
        /\ c \in B <=> conn'[c].state \in Out /\ conn'[c].target = t
      OBVIOUS
  <2>4. A = {d \in Is(Out) : conn[d].target = t} /\ B = {d \in Is(Out)' : conn'[d].target = t}
      BY DEF Is
  <2>5. leased_count[t] = Cardinality(A)
      BY <1>5, <2>4 DEF CountersExact, LeasedExact, Out
  <2>6. leased_count'[t] = Cardinality(B)
      BY <1>5, <2>2, <2>3, <2>5 DEF CountsMove
  <2> QED BY <2>4, <2>6
<1> QED BY <1>3, <1>4, <1>5 DEF CountersExact, LeasedExact, Out

(* Such a step keeps everything but the balancer's part. *)
LEMMA LocalPreserves ==
  ASSUME IInv, NEW th \in Threads, NEW c \in Conns, Local(th, c), th \in setup.threads,
         lb' \in [pos : 0 .. NumTargets - 1, consumed : 0 .. 255]
  PROVE  Core' /\ ListsAgree' /\ PooledExact' /\ CountersExact' /\ TriesLeft'
<1> USE DEF IInv, Core
<1>1. PooledExact' /\ CountersExact'
    BY MovesCount DEF Local
<1>2. TypeOK'
  <2>1. pooled_count' \in Nat
    <3>1. IsFiniteSet({d \in Conns : conn'[d].state \in Counted})
        BY SocketPoolAssumption, FS_Subset
    <3> QED BY <1>1, <3>1, FS_CardinalityType DEF PooledExact, Is, Counted
  <2> QED BY <2>1 DEF TypeOK, Local, ConnMoves, CountsMove, ThreadMoves, ConnRecord
<1>3. Held'
  <2>1. ASSUME NEW x \in Threads, busy'[x] \in Conns PROVE conn'[busy'[x]].state \in Handled
    <3>1. CASE x = th
        BY <2>1, <3>1, ConnAssumption DEF Local, ThreadMoves
    <3>2. CASE x # th
      <4>1. busy'[x] = busy[x]
          BY <3>2 DEF Local, ThreadMoves
      <4>2. busy[x] # c
          BY <2>1, <3>2, <4>1 DEF Local, ThreadMoves, Held
      <4> QED BY <2>1, <4>1, <4>2 DEF Local, ConnMoves, Held
    <3> QED BY <3>1, <3>2
  <2>2. ASSUME NEW x \in Threads, NEW y \in Threads, busy'[x] \in Conns, busy'[x] = busy'[y]
        PROVE  x = y
    <3>1. ASSUME NEW z \in Threads, z # th, busy'[z] \in Conns PROVE busy'[z] = busy[z] /\ busy'[z] # c
        BY <3>1 DEF Local, ThreadMoves, Held
    <3>2. busy'[th] \in Conns => busy'[th] = c
        BY ConnAssumption DEF Local, ThreadMoves
    <3> QED BY <2>2, <3>1, <3>2 DEF Held
  <2> QED BY <2>1, <2>2 DEF Held
<1>4. TargetKnown'
  <2>1. ASSUME NEW d \in Conns
        PROVE  /\ conn'[d].state \notin {"free", "try"} => conn'[d].target \in Targets
               /\ conn'[d].state = "try" => conn'[d].left > 0
               /\ global /\ conn'[d].state = "try" => conn'[d].target \in Targets
      BY DEF Local, ConnMoves, TargetKnown
  <2>2. ASSUME global, NEW x \in Threads, busy'[x] \in {"connect", "lookup"} PROVE want'[x] \in Targets
    <3>1. CASE x = th
        BY <2>2, <3>1, ConnAssumption DEF Local, ThreadMoves, TargetKnown
    <3>2. CASE x # th
        BY <2>2, <3>2 DEF Local, ThreadMoves, TargetKnown
    <3> QED BY <3>1, <3>2
  <2>3. ASSUME global, NEW x \in Threads, busy'[x] \in Conns, conn'[busy'[x]].state = "testing"
        PROVE  want'[x] \in Targets
    <3>1. x # th /\ busy'[x] # c
        BY <2>3, ConnAssumption DEF Local, ThreadMoves
    <3> QED BY <2>3, <3>1 DEF Local, ThreadMoves, ConnMoves, TargetKnown
  <2>4. global' = global
      BY DEF Local, global
  <2> QED BY <2>1, <2>2, <2>3, <2>4 DEF TargetKnown
<1>5. MutexHeld'
  <2>1. ASSUME mutex' # "none" PROVE mutex' = mutex /\ mutex # th /\ mutex \in Threads
      BY <2>1, ConnAssumption DEF Local, ThreadMoves, MutexHeld, TypeOK
  <2> QED BY <2>1 DEF Local, ThreadMoves, MutexHeld
<1>6. TimerLinked'
  <2>1. busy[th] # "return"
      BY ConnAssumption DEF Local, ThreadMoves
  <2> QED BY <2>1 DEF Local, ThreadMoves, TimerLinked
<1>7. ListsAgree'
  <2>1. Is({"pooled"})' = Is({"pooled"})
      BY DEF Local, ConnMoves, Is
  <2>2. \A d \in Is({"pooled"}) : conn'[d] = conn[d]
      BY DEF Local, ConnMoves, Is
  <2>3. ASSUME NEW t \in Targets
        PROVE  {d \in Is({"pooled"})' : conn'[d].target = t} = {d \in Is({"pooled"}) : conn[d].target = t}
      BY <2>1, <2>2
  <2> QED BY <2>1, <2>3 DEF ListsAgree, Local
<1>8. TriesLeft'
  <2> SUFFICES ASSUME ~global, NumTargets > 1, NEW d \in Conns, conn'[d].state \in Trying
               PROVE  conn'[d].left = Cardinality(Targets \ conn'[d].tried)
      BY DEF TriesLeft, Is, Local, global, Trying
  <2>1. CASE d = c
      BY <2>1 DEF Local, TriesMove
  <2>2. CASE d # c
    <3>1. conn'[d] = conn[d]
        BY <2>2 DEF Local, ConnMoves
    <3> QED BY <3>1 DEF TriesLeft, BalancerInv, Is, Trying
  <2> QED BY <2>1, <2>2
<1> QED BY <1>1, <1>2, <1>3, <1>4, <1>5, <1>6, <1>7, <1>8

------------------------------------------------------------------------------
(* The steps of one connection *)

LEMMA Numbers ==
    /\ Cardinality(Targets) \in Nat /\ Cardinality(Targets) # 0 /\ NumTargets = Cardinality(Targets)
    /\ NoConn \in ConnRecord
<1>1. Cardinality(Targets) \in Nat /\ Cardinality(Targets) # 0
    BY SocketPoolAssumption, FS_CardinalityType, FS_EmptySet
<1> QED BY <1>1 DEF NoConn, ConnRecord, States, NumTargets

(* The record of c alone changes: to a new state, or to none. *)
Becomes(c, s) ==
    /\ conn' \in [Conns -> ConnRecord] /\ \A d \in Conns \ {c} : conn'[d] = conn[d]
    /\ conn'[c].state = s

LEMMA SetBecomes ==
  ASSUME conn \in [Conns -> ConnRecord], NEW c \in Conns, NEW s \in States, Set(c, s)
  PROVE  /\ Becomes(c, s) /\ conn'[c].target = conn[c].target
         /\ conn'[c].tried = conn[c].tried /\ conn'[c].left = conn[c].left
BY DEF Set, Becomes, ConnRecord

LEMMA DropBecomes ==
  ASSUME conn \in [Conns -> ConnRecord], NEW c \in Conns, Drop(c)
  PROVE  Becomes(c, "free")
<1>1. NoConn.state = "free"
    BY DEF NoConn
<1> QED BY <1>1, Numbers DEF Drop, Becomes

LEMMA RetryBecomes ==
  ASSUME conn \in [Conns -> ConnRecord], NEW c \in Conns, NEW th \in Threads, NEW b \in BOOLEAN,
         busy \in [Threads -> {"no", "connect", "return", "lookup"} \cup Conns],
         TryNextOrFail(th, c, b)
  PROVE  /\ conn[c].left > 0 =>
               /\ Becomes(c, "try") /\ conn'[c].target = conn[c].target
               /\ conn'[c].tried = conn[c].tried /\ conn'[c].left = conn[c].left
               /\ busy' = [busy EXCEPT ![th] = c]
         /\ ~ (conn[c].left > 0) => Becomes(c, "free") /\ busy' = [busy EXCEPT ![th] = "no"]
<1>1. CASE conn[c].left > 0
  <2>1. conn' = [conn EXCEPT ![c].state = "try", ![c].stale = b] /\ busy' = [busy EXCEPT ![th] = c]
      BY <1>1 DEF TryNextOrFail, Goto
  <2>2. [conn[c] EXCEPT !.state = "try", !.stale = b] \in ConnRecord
      BY DEF ConnRecord, States
  <2>3. conn' = [conn EXCEPT ![c] = [conn[c] EXCEPT !.state = "try", !.stale = b]]
      BY <2>1
  <2>4. conn[c] \in ConnRecord
      OBVIOUS
  <2>5. conn'[c] = [conn[c] EXCEPT !.state = "try", !.stale = b]
      BY <2>3
  <2>6. /\ conn'[c].state = "try" /\ conn'[c].target = conn[c].target
        /\ conn'[c].tried = conn[c].tried /\ conn'[c].left = conn[c].left
      BY <2>4, <2>5 DEF ConnRecord
  <2> QED BY <1>1, <2>1, <2>2, <2>3, <2>6 DEF Becomes
<1>2. CASE ~ (conn[c].left > 0)
    BY <1>2, DropBecomes DEF TryNextOrFail, Goto
<1> QED BY <1>1, <1>2

LEMMA LeaseMoves ==
  ASSUME leased_count \in [Targets -> Int], NEW u \in Targets, NEW n \in Int, Lease(u, n)
  PROVE  /\ leased_count' \in [Targets -> Int]
         /\ \A t \in Targets : leased_count'[t] = leased_count[t] + (IF t = u THEN n ELSE 0)
BY DEF Lease

(* The leased connections of its target are counted as its state says. *)
LEMMA LeaseCounts ==
  ASSUME leased_count \in [Targets -> Int], NEW c \in Conns, conn[c].target \in Targets,
         NEW n \in Int, Lease(conn[c].target, n),
         conn'[c].state \in Out => conn'[c].target = conn[c].target,
         n = Ind(conn'[c].state \in Out) - Ind(conn[c].state \in Out)
  PROVE  /\ leased_count' \in [Targets -> Int]
         /\ \A t \in Targets :
               leased_count'[t] = leased_count[t] + Ind(conn'[c].state \in Out /\ conn'[c].target = t)
                                                  - Ind(conn[c].state \in Out /\ conn[c].target = t)
<1>1. /\ leased_count' \in [Targets -> Int]
      /\ \A t \in Targets : leased_count'[t] = leased_count[t] + (IF t = conn[c].target THEN n ELSE 0)
    BY LeaseMoves
<1> SUFFICES ASSUME NEW t \in Targets
             PROVE  leased_count'[t] = leased_count[t] + Ind(conn'[c].state \in Out /\ conn'[c].target = t)
                                                       - Ind(conn[c].state \in Out /\ conn[c].target = t)
    BY <1>1
<1>2. leased_count[t] \in Int
    OBVIOUS
<1> QED BY <1>1, <1>2 DEF Ind

LEMMA TestAliveLocal ==
  ASSUME IInv, NEW th \in Threads, NEW c \in Conns, TestAlive(th, c)
  PROVE  Local(th, c)
<1> USE DEF IInv, Core
<1>0. conn \in [Conns -> ConnRecord] /\ conn[c] \in ConnRecord
    BY DEF TypeOK, ConnRecord
<1>1. conn[c].state = "testing"
    BY DEF TestAlive, Busy, Goto
<1>2. /\ Becomes(c, "leased") /\ conn'[c].target = conn[c].target
      /\ conn'[c].tried = conn[c].tried /\ conn'[c].left = conn[c].left
    BY <1>0 DEF TestAlive, Becomes, ConnRecord, States
<1>3. ConnMoves(c)
    BY <1>0, <1>1, <1>2, Numbers DEF ConnMoves, Becomes, TargetKnown
<1>4. TriesMove(c)
    BY <1>1, <1>2, Numbers DEF TriesMove, Becomes, BalancerInv, TriesLeft, Is, Trying
<1>5. CountsMove(c)
  <2>1. Lease(conn[c].target, 1) /\ conn[c].target \in Targets
      BY <1>1 DEF TestAlive, TargetKnown
  <2>2. 1 = Ind(conn'[c].state \in Out) - Ind(conn[c].state \in Out)
      BY <1>1, <1>2 DEF Ind, Out, Becomes
  <2>3. /\ leased_count' \in [Targets -> Int]
        /\ \A t \in Targets :
              leased_count'[t] = leased_count[t] + Ind(conn'[c].state \in Out /\ conn'[c].target = t)
                                                 - Ind(conn[c].state \in Out /\ conn[c].target = t)
    <3>1. conn'[c].state \in Out => conn'[c].target = conn[c].target
        BY <1>2 DEF Out, Becomes
    <3> QED BY <2>1, <2>2, <3>1, LeaseCounts DEF TypeOK
  <2> QED BY <1>1, <1>2, <2>3 DEF CountsMove, Becomes, TestAlive, Busy, Goto, counters, lists, TypeOK, Counted, Ind
<1>6. ThreadMoves(th, c)
    BY <1>1, <1>2, ConnAssumption DEF ThreadMoves, Becomes, TypeOK, Held, Handled, TestAlive, Busy, Goto, counters, lists
<1> QED BY <1>1, <1>2, <1>3, <1>4, <1>5, <1>6 DEF Local, Becomes, TestAlive, Busy, Goto, counters, lists

LEMMA TestDeadLocal ==
  ASSUME IInv, NEW th \in Threads, NEW c \in Conns, TestDead(th, c)
  PROVE  Local(th, c)
<1> USE DEF IInv, Core
<1>0. conn \in [Conns -> ConnRecord] /\ conn[c] \in ConnRecord
    BY DEF TypeOK, ConnRecord
<1>1. conn[c].state = "testing"
    BY DEF TestDead, Busy, Goto
<1>2. Becomes(c, "free")
    BY <1>0, DropBecomes DEF TestDead
<1>3. ConnMoves(c)
    BY <1>0, <1>1, <1>2, Numbers DEF ConnMoves, Becomes, TargetKnown
<1>4. TriesMove(c)
    BY <1>1, <1>2, Numbers DEF TriesMove, Becomes, BalancerInv, TriesLeft, Is, Trying
<1>5. CountsMove(c)
    BY <1>1, <1>2 DEF CountsMove, Becomes, TestDead, Busy, Goto, counters, lists, TypeOK, Counted, Out, Ind, Drifting
<1>6. ThreadMoves(th, c)
    BY <1>1, <1>2, ConnAssumption DEF ThreadMoves, Becomes, TypeOK, Held, Handled, TestDead, Busy, Goto, counters, lists
<1> QED BY <1>1, <1>2, <1>3, <1>4, <1>5, <1>6 DEF Local, Becomes, TestDead, Busy, Goto, counters, lists

LEMMA ResolvedLocal ==
  ASSUME IInv, NEW th \in Threads, NEW c \in Conns, Resolved(th, c)
  PROVE  Local(th, c)
<1> USE DEF IInv, Core
<1>0. conn \in [Conns -> ConnRecord] /\ conn[c] \in ConnRecord
    BY DEF TypeOK, ConnRecord
<1>1. conn[c].state = "resolve"
    BY DEF Resolved, Owns, Idle, Goto
<1>2. /\ Becomes(c, "socket") /\ conn'[c].target = conn[c].target
      /\ conn'[c].tried = conn[c].tried /\ conn'[c].left = conn[c].left
    BY <1>0, SetBecomes DEF Resolved, States
<1>3. ConnMoves(c)
    BY <1>0, <1>1, <1>2, Numbers DEF ConnMoves, Becomes, TargetKnown
<1>4. TriesMove(c)
    BY <1>1, <1>2, Numbers DEF TriesMove, Becomes, BalancerInv, TriesLeft, Is, Trying
<1>5. CountsMove(c)
    BY <1>1, <1>2 DEF CountsMove, Becomes, Resolved, Owns, Idle, Goto, counters, lists, TypeOK, Counted, Out, Ind, Drifting
<1>6. ThreadMoves(th, c)
    BY <1>1, <1>2, ConnAssumption DEF ThreadMoves, Becomes, TypeOK, Held, Handled, Resolved, Owns, Idle, Goto, counters, lists
<1> QED BY <1>1, <1>2, <1>3, <1>4, <1>5, <1>6 DEF Local, Becomes, Resolved, Owns, Idle, Goto, counters, lists

LEMMA StartConnectLocal ==
  ASSUME IInv, NEW th \in Threads, NEW c \in Conns, StartConnect(th, c)
  PROVE  Local(th, c)
<1> USE DEF IInv, Core
<1>0. conn \in [Conns -> ConnRecord] /\ conn[c] \in ConnRecord
    BY DEF TypeOK, ConnRecord
<1>1. conn[c].state = "socket"
    BY DEF StartConnect, Busy, Goto
<1>2. /\ Becomes(c, "connect") /\ conn'[c].target = conn[c].target
      /\ conn'[c].tried = conn[c].tried /\ conn'[c].left = conn[c].left
    BY <1>0 DEF StartConnect, Becomes, ConnRecord, States
<1>3. ConnMoves(c)
    BY <1>0, <1>1, <1>2, Numbers DEF ConnMoves, Becomes, TargetKnown
<1>4. TriesMove(c)
    BY <1>1, <1>2, Numbers DEF TriesMove, Becomes, BalancerInv, TriesLeft, Is, Trying
<1>5. CountsMove(c)
    BY <1>1, <1>2 DEF CountsMove, Becomes, StartConnect, Busy, Goto, counters, lists, TypeOK, Counted, Out, Ind, Drifting
<1>6. ThreadMoves(th, c)
    BY <1>1, <1>2, ConnAssumption DEF ThreadMoves, Becomes, TypeOK, Held, Handled, StartConnect, Busy, Goto, counters, lists
<1> QED BY <1>1, <1>2, <1>3, <1>4, <1>5, <1>6 DEF Local, Becomes, StartConnect, Busy, Goto, counters, lists

LEMMA HandshakeDoneLocal ==
  ASSUME IInv, NEW th \in Threads, NEW c \in Conns, HandshakeDone(th, c)
  PROVE  Local(th, c)
<1> USE DEF IInv, Core
<1>0. conn \in [Conns -> ConnRecord] /\ conn[c] \in ConnRecord
    BY DEF TypeOK, ConnRecord
<1>1. conn[c].state = "handshake"
    BY DEF HandshakeDone, Owns, Idle
<1>2. /\ Becomes(c, "leased") /\ conn'[c].target = conn[c].target
      /\ conn'[c].tried = conn[c].tried /\ conn'[c].left = conn[c].left
    BY <1>0, SetBecomes DEF HandshakeDone, States
<1>3. ConnMoves(c)
    BY <1>0, <1>1, <1>2, Numbers DEF ConnMoves, Becomes, TargetKnown
<1>4. TriesMove(c)
    BY <1>1, <1>2, Numbers DEF TriesMove, Becomes, BalancerInv, TriesLeft, Is, Trying
<1>5. CountsMove(c)
    BY <1>1, <1>2 DEF CountsMove, Becomes, HandshakeDone, Owns, Idle, counters, lists, TypeOK, Counted, Out, Ind, Drifting
<1>6. ThreadMoves(th, c)
    BY <1>1, <1>2, ConnAssumption DEF ThreadMoves, Becomes, TypeOK, Held, Handled, HandshakeDone, Owns, Idle, counters, lists
<1> QED BY <1>1, <1>2, <1>3, <1>4, <1>5, <1>6 DEF Local, Becomes, HandshakeDone, Owns, Idle, counters, lists

LEMMA HandshakeFailedLocal ==
  ASSUME IInv, NEW th \in Threads, NEW c \in Conns, HandshakeFailed(th, c)
  PROVE  Local(th, c)
<1> USE DEF IInv, Core
<1>0. conn \in [Conns -> ConnRecord] /\ conn[c] \in ConnRecord
    BY DEF TypeOK, ConnRecord
<1>1. conn[c].state = "handshake"
    BY DEF HandshakeFailed, Owns, Idle, OnClose
<1>2. Becomes(c, "free")
    BY <1>0, DropBecomes DEF HandshakeFailed
<1>3. ConnMoves(c)
    BY <1>0, <1>1, <1>2, Numbers DEF ConnMoves, Becomes, TargetKnown
<1>4. TriesMove(c)
    BY <1>1, <1>2, Numbers DEF TriesMove, Becomes, BalancerInv, TriesLeft, Is, Trying
<1>5. CountsMove(c)
  <2>1. Lease(conn[c].target, -1) /\ conn[c].target \in Targets
      BY <1>1 DEF HandshakeFailed, OnClose, TargetKnown
  <2>2. -1 = Ind(conn'[c].state \in Out) - Ind(conn[c].state \in Out)
      BY <1>1, <1>2 DEF Ind, Out, Becomes
  <2>3. /\ leased_count' \in [Targets -> Int]
        /\ \A t \in Targets :
              leased_count'[t] = leased_count[t] + Ind(conn'[c].state \in Out /\ conn'[c].target = t)
                                                 - Ind(conn[c].state \in Out /\ conn[c].target = t)
    <3>1. conn'[c].state \in Out => conn'[c].target = conn[c].target
        BY <1>2 DEF Out, Becomes
    <3> QED BY <2>1, <2>2, <3>1, LeaseCounts DEF TypeOK
  <2> QED BY <1>1, <1>2, <2>3 DEF CountsMove, Becomes, HandshakeFailed, Owns, Idle, OnClose, counters, lists, TypeOK, Counted, Ind
<1>6. ThreadMoves(th, c)
    BY <1>1, <1>2, ConnAssumption DEF ThreadMoves, Becomes, TypeOK, Held, Handled, HandshakeFailed, Owns, Idle, OnClose, counters, lists
<1> QED BY <1>1, <1>2, <1>3, <1>4, <1>5, <1>6 DEF Local, Becomes, HandshakeFailed, Owns, Idle, OnClose, counters, lists

LEMMA ReturnLocal ==
  ASSUME IInv, NEW th \in Threads, NEW c \in Conns, Return(th, c)
  PROVE  Local(th, c)
<1> USE DEF IInv, Core
<1>0. conn \in [Conns -> ConnRecord] /\ conn[c] \in ConnRecord
    BY DEF TypeOK, ConnRecord
<1>1. conn[c].state = "leased"
    BY DEF Return, Owns, Idle, Goto
<1>2. /\ Becomes(c, "returning") /\ conn'[c].target = conn[c].target
      /\ conn'[c].tried = conn[c].tried /\ conn'[c].left = conn[c].left
    BY <1>0, SetBecomes DEF Return, States
<1>3. ConnMoves(c)
    BY <1>0, <1>1, <1>2, Numbers DEF ConnMoves, Becomes, TargetKnown
<1>4. TriesMove(c)
    BY <1>1, <1>2, Numbers DEF TriesMove, Becomes, BalancerInv, TriesLeft, Is, Trying
<1>5. CountsMove(c)
  <2>1. Lease(conn[c].target, -1) /\ conn[c].target \in Targets
      BY <1>1 DEF Return, TargetKnown
  <2>2. -1 = Ind(conn'[c].state \in Out) - Ind(conn[c].state \in Out)
      BY <1>1, <1>2 DEF Ind, Out, Becomes
  <2>3. /\ leased_count' \in [Targets -> Int]
        /\ \A t \in Targets :
              leased_count'[t] = leased_count[t] + Ind(conn'[c].state \in Out /\ conn'[c].target = t)
                                                 - Ind(conn[c].state \in Out /\ conn[c].target = t)
    <3>1. conn'[c].state \in Out => conn'[c].target = conn[c].target
        BY <1>2 DEF Out, Becomes
    <3> QED BY <2>1, <2>2, <3>1, LeaseCounts DEF TypeOK
  <2> QED BY <1>1, <1>2, <2>3 DEF CountsMove, Becomes, Return, Owns, Idle, Goto, counters, lists, TypeOK, Counted, Ind
<1>6. ThreadMoves(th, c)
    BY <1>1, <1>2, ConnAssumption DEF ThreadMoves, Becomes, TypeOK, Held, Handled, Return, Owns, Idle, Goto, counters, lists
<1> QED BY <1>1, <1>2, <1>3, <1>4, <1>5, <1>6 DEF Local, Becomes, Return, Owns, Idle, Goto, counters, lists

LEMMA ReturnFailedLocal ==
  ASSUME IInv, NEW th \in Threads, NEW c \in Conns, ReturnFailed(th, c)
  PROVE  Local(th, c)
<1> USE DEF IInv, Core
<1>0. conn \in [Conns -> ConnRecord] /\ conn[c] \in ConnRecord
    BY DEF TypeOK, ConnRecord
<1>1. conn[c].state = "leased"
    BY DEF ReturnFailed, Owns, Idle, OnClose
<1>2. Becomes(c, "free")
    BY <1>0, DropBecomes DEF ReturnFailed
<1>3. ConnMoves(c)
    BY <1>0, <1>1, <1>2, Numbers DEF ConnMoves, Becomes, TargetKnown
<1>4. TriesMove(c)
    BY <1>1, <1>2, Numbers DEF TriesMove, Becomes, BalancerInv, TriesLeft, Is, Trying
<1>5. CountsMove(c)
  <2>1. Lease(conn[c].target, -1) /\ conn[c].target \in Targets
      BY <1>1 DEF ReturnFailed, OnClose, TargetKnown
  <2>2. -1 = Ind(conn'[c].state \in Out) - Ind(conn[c].state \in Out)
      BY <1>1, <1>2 DEF Ind, Out, Becomes
  <2>3. /\ leased_count' \in [Targets -> Int]
        /\ \A t \in Targets :
              leased_count'[t] = leased_count[t] + Ind(conn'[c].state \in Out /\ conn'[c].target = t)
                                                 - Ind(conn[c].state \in Out /\ conn[c].target = t)
    <3>1. conn'[c].state \in Out => conn'[c].target = conn[c].target
        BY <1>2 DEF Out, Becomes
    <3> QED BY <2>1, <2>2, <3>1, LeaseCounts DEF TypeOK
  <2> QED BY <1>1, <1>2, <2>3 DEF CountsMove, Becomes, ReturnFailed, Owns, Idle, OnClose, counters, lists, TypeOK, Counted, Ind
<1>6. ThreadMoves(th, c)
    BY <1>1, <1>2, ConnAssumption DEF ThreadMoves, Becomes, TypeOK, Held, Handled, ReturnFailed, Owns, Idle, OnClose, counters, lists
<1> QED BY <1>1, <1>2, <1>3, <1>4, <1>5, <1>6 DEF Local, Becomes, ReturnFailed, Owns, Idle, OnClose, counters, lists

LEMMA DetachOrCloseLocal ==
  ASSUME IInv, NEW th \in Threads, NEW c \in Conns, DetachOrClose(th, c)
  PROVE  Local(th, c)
<1> USE DEF IInv, Core
<1>0. conn \in [Conns -> ConnRecord] /\ conn[c] \in ConnRecord
    BY DEF TypeOK, ConnRecord
<1>1. conn[c].state = "leased"
    BY DEF DetachOrClose, Owns, Idle, OnClose
<1>2. Becomes(c, "free")
    BY <1>0, DropBecomes DEF DetachOrClose
<1>3. ConnMoves(c)
    BY <1>0, <1>1, <1>2, Numbers DEF ConnMoves, Becomes, TargetKnown
<1>4. TriesMove(c)
    BY <1>1, <1>2, Numbers DEF TriesMove, Becomes, BalancerInv, TriesLeft, Is, Trying
<1>5. CountsMove(c)
  <2>1. Lease(conn[c].target, -1) /\ conn[c].target \in Targets
      BY <1>1 DEF DetachOrClose, OnClose, TargetKnown
  <2>2. -1 = Ind(conn'[c].state \in Out) - Ind(conn[c].state \in Out)
      BY <1>1, <1>2 DEF Ind, Out, Becomes
  <2>3. /\ leased_count' \in [Targets -> Int]
        /\ \A t \in Targets :
              leased_count'[t] = leased_count[t] + Ind(conn'[c].state \in Out /\ conn'[c].target = t)
                                                 - Ind(conn[c].state \in Out /\ conn[c].target = t)
    <3>1. conn'[c].state \in Out => conn'[c].target = conn[c].target
        BY <1>2 DEF Out, Becomes
    <3> QED BY <2>1, <2>2, <3>1, LeaseCounts DEF TypeOK
  <2> QED BY <1>1, <1>2, <2>3 DEF CountsMove, Becomes, DetachOrClose, Owns, Idle, OnClose, counters, lists, TypeOK, Counted, Ind
<1>6. ThreadMoves(th, c)
    BY <1>1, <1>2, ConnAssumption DEF ThreadMoves, Becomes, TypeOK, Held, Handled, DetachOrClose, Owns, Idle, OnClose, counters, lists
<1> QED BY <1>1, <1>2, <1>3, <1>4, <1>5, <1>6 DEF Local, Becomes, DetachOrClose, Owns, Idle, OnClose, counters, lists

LEMMA ResolveFailedLocal ==
  ASSUME IInv, NEW th \in Threads, NEW c \in Conns, ResolveFailed(th, c)
  PROVE  Local(th, c)
<1> USE DEF IInv, Core
<1>0. conn \in [Conns -> ConnRecord] /\ conn[c] \in ConnRecord
    BY DEF TypeOK, ConnRecord
<1>1. conn[c].state = "resolve"
    BY DEF ResolveFailed, Owns, Idle
<1>2. PICK b \in BOOLEAN : TryNextOrFail(th, c, b)
    BY <1>0 DEF ResolveFailed, ConnRecord
<1>3. CASE conn[c].left > 0
  <2>1. conn[c].left > 0
      BY <1>3
  <2>2. /\ Becomes(c, "try") /\ conn'[c].target = conn[c].target
        /\ conn'[c].tried = conn[c].tried /\ conn'[c].left = conn[c].left
        /\ busy' = [busy EXCEPT ![th] = c]
      BY <1>0, <1>2, <1>3, RetryBecomes DEF TypeOK
  <2>3. ConnMoves(c)
      BY <1>0, <1>1, <2>1, <2>2 DEF ConnMoves, Becomes, TargetKnown
  <2>4. TriesMove(c)
      BY <1>1, <2>2 DEF TriesMove, Becomes, BalancerInv, TriesLeft, Is, Trying
  <2>5. CountsMove(c)
    <3>1. Lease(conn[c].target, -1) /\ conn[c].target \in Targets
        BY <1>1 DEF ResolveFailed, TargetKnown
    <3>2. -1 = Ind(conn'[c].state \in Out) - Ind(conn[c].state \in Out)
        BY <1>1, <2>2 DEF Ind, Out, Becomes
    <3>3. conn'[c].state \notin Out
        BY <2>2 DEF Out, Becomes
    <3>4. /\ leased_count' \in [Targets -> Int]
          /\ \A t \in Targets :
                leased_count'[t] = leased_count[t] + Ind(conn'[c].state \in Out /\ conn'[c].target = t)
                                                   - Ind(conn[c].state \in Out /\ conn[c].target = t)
        BY <3>1, <3>2, <3>3, LeaseCounts DEF TypeOK
    <3> QED BY <1>1, <2>1, <2>2, <3>4 DEF CountsMove, Becomes, ResolveFailed, GiveUp, TypeOK, Counted, Ind
  <2>6. ThreadMoves(th, c)
      BY <1>1, <2>2, ConnAssumption DEF ThreadMoves, Becomes, TypeOK, Held, Handled, ResolveFailed, TryNextOrFail, Owns, Idle, lists
  <2> QED BY <1>1, <2>2, <2>3, <2>4, <2>5, <2>6 DEF Local, Becomes, ResolveFailed, TryNextOrFail, Owns, Idle, lists
<1>4. CASE ~ (conn[c].left > 0)
  <2>1. ~ (conn[c].left > 0)
      BY <1>4
  <2>2. Becomes(c, "free") /\ busy' = [busy EXCEPT ![th] = "no"]
      BY <1>0, <1>2, <1>4, RetryBecomes DEF TypeOK
  <2>3. ConnMoves(c)
      BY <2>2 DEF ConnMoves, Becomes
  <2>4. TriesMove(c)
      BY <2>2 DEF TriesMove, Becomes, Trying
  <2>5. CountsMove(c)
    <3>1. Lease(conn[c].target, -1) /\ conn[c].target \in Targets
        BY <1>1 DEF ResolveFailed, TargetKnown
    <3>2. -1 = Ind(conn'[c].state \in Out) - Ind(conn[c].state \in Out)
        BY <1>1, <2>2 DEF Ind, Out, Becomes
    <3>3. conn'[c].state \notin Out
        BY <2>2 DEF Out, Becomes
    <3>4. /\ leased_count' \in [Targets -> Int]
          /\ \A t \in Targets :
                leased_count'[t] = leased_count[t] + Ind(conn'[c].state \in Out /\ conn'[c].target = t)
                                                   - Ind(conn[c].state \in Out /\ conn[c].target = t)
        BY <3>1, <3>2, <3>3, LeaseCounts DEF TypeOK
    <3> QED BY <1>1, <2>1, <2>2, <3>4 DEF CountsMove, Becomes, ResolveFailed, GiveUp, TypeOK, Counted, Ind
  <2>6. ThreadMoves(th, c)
      BY <1>1, <2>2, ConnAssumption DEF ThreadMoves, Becomes, TypeOK, Held, Handled, ResolveFailed, TryNextOrFail, Owns, Idle, lists
  <2> QED BY <1>1, <2>2, <2>3, <2>4, <2>5, <2>6 DEF Local, Becomes, ResolveFailed, TryNextOrFail, Owns, Idle, lists
<1> QED BY <1>3, <1>4

LEMMA SocketFailedLocal ==
  ASSUME IInv, NEW th \in Threads, NEW c \in Conns, SocketFailed(th, c)
  PROVE  Local(th, c)
<1> USE DEF IInv, Core
<1>0. conn \in [Conns -> ConnRecord] /\ conn[c] \in ConnRecord
    BY DEF TypeOK, ConnRecord
<1>1. conn[c].state = "socket"
    BY DEF SocketFailed, Busy
<1>2. PICK b \in BOOLEAN : TryNextOrFail(th, c, b)
    BY <1>0 DEF SocketFailed, ConnRecord
<1>3. CASE conn[c].left > 0
  <2>1. conn[c].left > 0
      BY <1>3
  <2>2. /\ Becomes(c, "try") /\ conn'[c].target = conn[c].target
        /\ conn'[c].tried = conn[c].tried /\ conn'[c].left = conn[c].left
        /\ busy' = [busy EXCEPT ![th] = c]
      BY <1>0, <1>2, <1>3, RetryBecomes DEF TypeOK
  <2>3. ConnMoves(c)
      BY <1>0, <1>1, <2>1, <2>2 DEF ConnMoves, Becomes, TargetKnown
  <2>4. TriesMove(c)
      BY <1>1, <2>2 DEF TriesMove, Becomes, BalancerInv, TriesLeft, Is, Trying
  <2>5. CountsMove(c)
    <3>1. Lease(conn[c].target, -1) /\ conn[c].target \in Targets
        BY <1>1 DEF SocketFailed, TargetKnown
    <3>2. -1 = Ind(conn'[c].state \in Out) - Ind(conn[c].state \in Out)
        BY <1>1, <2>2 DEF Ind, Out, Becomes
    <3>3. conn'[c].state \notin Out
        BY <2>2 DEF Out, Becomes
    <3>4. /\ leased_count' \in [Targets -> Int]
          /\ \A t \in Targets :
                leased_count'[t] = leased_count[t] + Ind(conn'[c].state \in Out /\ conn'[c].target = t)
                                                   - Ind(conn[c].state \in Out /\ conn[c].target = t)
        BY <3>1, <3>2, <3>3, LeaseCounts DEF TypeOK
    <3> QED BY <1>1, <2>1, <2>2, <3>4 DEF CountsMove, Becomes, SocketFailed, GiveUp, TypeOK, Counted, Ind
  <2>6. ThreadMoves(th, c)
      BY <1>1, <2>2, ConnAssumption DEF ThreadMoves, Becomes, TypeOK, Held, Handled, SocketFailed, TryNextOrFail, Busy, lists
  <2> QED BY <1>1, <2>2, <2>3, <2>4, <2>5, <2>6 DEF Local, Becomes, SocketFailed, TryNextOrFail, Busy, lists
<1>4. CASE ~ (conn[c].left > 0)
  <2>1. ~ (conn[c].left > 0)
      BY <1>4
  <2>2. Becomes(c, "free") /\ busy' = [busy EXCEPT ![th] = "no"]
      BY <1>0, <1>2, <1>4, RetryBecomes DEF TypeOK
  <2>3. ConnMoves(c)
      BY <2>2 DEF ConnMoves, Becomes
  <2>4. TriesMove(c)
      BY <2>2 DEF TriesMove, Becomes, Trying
  <2>5. CountsMove(c)
    <3>1. Lease(conn[c].target, -1) /\ conn[c].target \in Targets
        BY <1>1 DEF SocketFailed, TargetKnown
    <3>2. -1 = Ind(conn'[c].state \in Out) - Ind(conn[c].state \in Out)
        BY <1>1, <2>2 DEF Ind, Out, Becomes
    <3>3. conn'[c].state \notin Out
        BY <2>2 DEF Out, Becomes
    <3>4. /\ leased_count' \in [Targets -> Int]
          /\ \A t \in Targets :
                leased_count'[t] = leased_count[t] + Ind(conn'[c].state \in Out /\ conn'[c].target = t)
                                                   - Ind(conn[c].state \in Out /\ conn[c].target = t)
        BY <3>1, <3>2, <3>3, LeaseCounts DEF TypeOK
    <3> QED BY <1>1, <2>1, <2>2, <3>4 DEF CountsMove, Becomes, SocketFailed, GiveUp, TypeOK, Counted, Ind
  <2>6. ThreadMoves(th, c)
      BY <1>1, <2>2, ConnAssumption DEF ThreadMoves, Becomes, TypeOK, Held, Handled, SocketFailed, TryNextOrFail, Busy, lists
  <2> QED BY <1>1, <2>2, <2>3, <2>4, <2>5, <2>6 DEF Local, Becomes, SocketFailed, TryNextOrFail, Busy, lists
<1> QED BY <1>3, <1>4

LEMMA ConnectFailedLocal ==
  ASSUME IInv, NEW th \in Threads, NEW c \in Conns, ConnectFailed(th, c)
  PROVE  Local(th, c)
<1> USE DEF IInv, Core
<1>0. conn \in [Conns -> ConnRecord] /\ conn[c] \in ConnRecord
    BY DEF TypeOK, ConnRecord
<1>1. conn[c].state = "connect"
    BY DEF ConnectFailed, Owns, Idle
<1>2. PICK b \in BOOLEAN : TryNextOrFail(th, c, b)
    BY <1>0 DEF ConnectFailed, ConnRecord
<1>3. CASE conn[c].left > 0
  <2>1. conn[c].left > 0
      BY <1>3
  <2>2. /\ Becomes(c, "try") /\ conn'[c].target = conn[c].target
        /\ conn'[c].tried = conn[c].tried /\ conn'[c].left = conn[c].left
        /\ busy' = [busy EXCEPT ![th] = c]
      BY <1>0, <1>2, <1>3, RetryBecomes DEF TypeOK
  <2>3. ConnMoves(c)
      BY <1>0, <1>1, <2>1, <2>2 DEF ConnMoves, Becomes, TargetKnown
  <2>4. TriesMove(c)
      BY <1>1, <2>2 DEF TriesMove, Becomes, BalancerInv, TriesLeft, Is, Trying
  <2>5. CountsMove(c)
    <3>1. conn[c].target \in Targets /\ leased_count \in [Targets -> Int] /\ Lease(conn[c].target, -2)
        BY <1>1 DEF TargetKnown, TypeOK, ConnectFailed
    <3>2. leased_count' \in [Targets -> Int]
        BY <3>1, LeaseMoves
    <3> QED BY <1>1, <2>2, <3>2 DEF CountsMove, Becomes, ConnectFailed, GiveUp, TypeOK, Counted, Ind, Drifting
  <2>6. ThreadMoves(th, c)
      BY <1>1, <2>2, ConnAssumption DEF ThreadMoves, Becomes, TypeOK, Held, Handled, ConnectFailed, TryNextOrFail, Owns, Idle, lists
  <2> QED BY <1>1, <2>2, <2>3, <2>4, <2>5, <2>6 DEF Local, Becomes, ConnectFailed, TryNextOrFail, Owns, Idle, lists
<1>4. CASE ~ (conn[c].left > 0)
  <2>1. ~ (conn[c].left > 0)
      BY <1>4
  <2>2. Becomes(c, "free") /\ busy' = [busy EXCEPT ![th] = "no"]
      BY <1>0, <1>2, <1>4, RetryBecomes DEF TypeOK
  <2>3. ConnMoves(c)
      BY <2>2 DEF ConnMoves, Becomes
  <2>4. TriesMove(c)
      BY <2>2 DEF TriesMove, Becomes, Trying
  <2>5. CountsMove(c)
    <3>1. conn[c].target \in Targets /\ leased_count \in [Targets -> Int] /\ Lease(conn[c].target, -2)
        BY <1>1 DEF TargetKnown, TypeOK, ConnectFailed
    <3>2. leased_count' \in [Targets -> Int]
        BY <3>1, LeaseMoves
    <3> QED BY <1>1, <2>2, <3>2 DEF CountsMove, Becomes, ConnectFailed, GiveUp, TypeOK, Counted, Ind, Drifting
  <2>6. ThreadMoves(th, c)
      BY <1>1, <2>2, ConnAssumption DEF ThreadMoves, Becomes, TypeOK, Held, Handled, ConnectFailed, TryNextOrFail, Owns, Idle, lists
  <2> QED BY <1>1, <2>2, <2>3, <2>4, <2>5, <2>6 DEF Local, Becomes, ConnectFailed, TryNextOrFail, Owns, Idle, lists
<1> QED BY <1>3, <1>4

LEMMA ConnectedLocal ==
  ASSUME IInv, NEW th \in Threads, NEW c \in Conns, Connected(th, c)
  PROVE  Local(th, c)
<1> USE DEF IInv, Core
<1>0. conn \in [Conns -> ConnRecord]
    BY DEF TypeOK, ConnRecord
<1>1. conn[c].state = "connect"
    BY DEF Connected, Owns
<1>2. PICK s \in {"handshake", "leased"} :
        /\ Becomes(c, s) /\ conn'[c].target = conn[c].target
        /\ conn'[c].tried = conn[c].tried /\ conn'[c].left = conn[c].left
    BY <1>0, SetBecomes DEF Connected, States
<1>3. ConnMoves(c)
    BY <1>1, <1>2 DEF ConnMoves, Becomes, TargetKnown
<1>4. TriesMove(c)
    BY <1>1, <1>2 DEF TriesMove, Becomes, BalancerInv, TriesLeft, Is, Trying
<1>5. CountsMove(c)
  <2>1. conn'[c].state \in Out \ Counted /\ conn[c].state \in Out \ Counted
      BY <1>1, <1>2 DEF Becomes, Out, Counted
  <2>2. conn'[c].state # "free" /\ conn[c].state # "free"
      BY <2>1 DEF Out
  <2> QED BY <1>2, <2>1, <2>2 DEF CountsMove, Connected, counters, TypeOK, Ind
<1>6. ThreadMoves(th, c)
    BY <1>1, <1>2, ConnAssumption DEF ThreadMoves, Becomes, TypeOK, Handled, Connected, Owns, Idle
<1> QED BY <1>1, <1>2, <1>3, <1>4, <1>5, <1>6 DEF Local, Becomes, Connected, lists

LEMMA TryConnectLocal ==
  ASSUME IInv, NEW th \in Threads, NEW c \in Conns, TryConnect(th, c)
  PROVE  Local(th, c)
<1> USE DEF IInv, Core
<1>0. conn \in [Conns -> ConnRecord]
    BY DEF TypeOK, ConnRecord
<1>1. conn[c].state = "selected" /\ busy[th] = c
    BY DEF TryConnect, Busy
<1>2. PICK s \in {"resolve", "socket"} :
        /\ Becomes(c, s) /\ conn'[c].target = conn[c].target
        /\ conn'[c].tried = conn[c].tried /\ conn'[c].left = conn[c].left
        /\ (s = "socket" /\ busy' = [busy EXCEPT ![th] = c]) \/ busy' = [busy EXCEPT ![th] = "no"]
  <2>1. CASE conn[c].target \in Named
      BY <1>0, <2>1, SetBecomes DEF TryConnect, States, Goto
  <2>2. CASE conn[c].target \notin Named
      BY <1>0, <2>2, SetBecomes DEF TryConnect, States, Goto
  <2> QED BY <2>1, <2>2
<1>3. ConnMoves(c)
    BY <1>1, <1>2 DEF ConnMoves, Becomes, TargetKnown
<1>4. TriesMove(c)
    BY <1>1, <1>2 DEF TriesMove, Becomes, BalancerInv, TriesLeft, Is, Trying
<1>5. CountsMove(c)
  <2>1. Lease(conn[c].target, 1) /\ conn[c].target \in Targets
      BY <1>1 DEF TryConnect, TargetKnown
  <2>2. 1 = Ind(conn'[c].state \in Out) - Ind(conn[c].state \in Out)
      BY <1>1, <1>2 DEF Ind, Out, Becomes
  <2>3. /\ leased_count' \in [Targets -> Int]
        /\ \A t \in Targets :
              leased_count'[t] = leased_count[t] + Ind(conn'[c].state \in Out /\ conn'[c].target = t)
                                                 - Ind(conn[c].state \in Out /\ conn[c].target = t)
    <3>1. conn'[c].state \in Out => conn'[c].target = conn[c].target
        BY <1>2 DEF Out, Becomes
    <3> QED BY <2>1, <2>2, <3>1, LeaseCounts DEF TypeOK
  <2> QED BY <1>1, <1>2, <2>3 DEF CountsMove, Becomes, TryConnect, TypeOK, Counted, Ind
<1>6. ThreadMoves(th, c)
    BY <1>1, <1>2, ConnAssumption DEF ThreadMoves, Becomes, TypeOK, Handled, TryConnect
<1> QED BY <1>1, <1>2, <1>3, <1>4, <1>5, <1>6 DEF Local, Becomes, TryConnect, lists

LEMMA CancelLocal ==
  ASSUME IInv, NEW th \in Threads, NEW c \in Conns, Cancel(th, c)
  PROVE  Local(th, c)
<1> USE DEF IInv, Core
<1>0. conn \in [Conns -> ConnRecord]
    BY DEF TypeOK, ConnRecord
<1>1. conn[c].state \in {"resolve", "connect", "handshake"} /\ busy[th] = "no"
    BY DEF Cancel, Owns, Idle
<1>2. Becomes(c, "free")
    BY <1>0, DropBecomes DEF Cancel
<1>3. ConnMoves(c)
    BY <1>2 DEF ConnMoves, Becomes
<1>4. TriesMove(c)
    BY <1>2 DEF TriesMove, Becomes, Trying
<1>5. CountsMove(c)
  <2>1. PICK n \in {-2, -1, 0} : Lease(conn[c].target, n)
      BY DEF Cancel
  <2>2. conn[c].target \in Targets /\ leased_count \in [Targets -> Int]
      BY <1>1 DEF TargetKnown, TypeOK
  <2>3. leased_count' \in [Targets -> Int]
      BY <2>1, <2>2, LeaseMoves
  <2>4. count' \in Int
      BY DEF Cancel, TypeOK
  <2> QED BY <1>1, <1>2, <2>3, <2>4 DEF CountsMove, Becomes, Cancel, TypeOK, Counted, Ind, Drifting
<1>6. ThreadMoves(th, c)
    BY <1>1, <1>2, ConnAssumption DEF ThreadMoves, Becomes, TypeOK, Handled, Cancel
<1> QED BY <1>1, <1>2, <1>3, <1>4, <1>5, <1>6 DEF Local, Becomes, Cancel, lists

LEMMA MissLocal ==
  ASSUME IInv, NEW th \in Threads, NEW c \in Conns, Miss(th, c)
  PROVE  Local(th, c)
<1> USE DEF IInv, Core
<1> DEFINE n == IF global THEN 1 ELSE Cardinality(Targets)
           r == [NoConn EXCEPT !.state = "try", !.owner = th, !.target = want[th], !.left = n]
<1>0. conn \in [Conns -> ConnRecord] /\ want[th] \in Targets \cup {"none"}
    BY DEF TypeOK, ConnRecord
<1>1. conn[c].state = "free" /\ busy[th] = "lookup"
    BY DEF Miss, Free, Is
<1>2. /\ r \in ConnRecord /\ r.state = "try" /\ r.target = want[th]
      /\ r.tried = {} /\ r.left = n /\ n \in 1 .. Cardinality(Targets)
  <2>1. n \in 1 .. Cardinality(Targets) /\ n \in 0 .. Cardinality(Targets)
      BY Numbers
  <2> HIDE DEF n
  <2>2. NoConn.tried = {}
      BY DEF NoConn
  <2>3. /\ r \in ConnRecord /\ r.state = "try" /\ r.target = want[th]
        /\ r.tried = NoConn.tried /\ r.left = n
      BY <1>0, <2>1, Numbers DEF ConnRecord, States
  <2> QED BY <2>1, <2>2, <2>3
<1>3. conn' = [conn EXCEPT ![c] = r]
    BY DEF Miss
<1> HIDE DEF r
<1>4. conn'[c] = r
    BY <1>0, <1>3
<1>5. ConnMoves(c)
    BY <1>0, <1>1, <1>2, <1>3, <1>4, Numbers DEF ConnMoves, TargetKnown
<1>6. TriesMove(c)
  <2>1. Targets \ {} = Targets
      OBVIOUS
  <2> QED BY <1>2, <1>4, <2>1 DEF TriesMove
<1>7. CountsMove(c)
    BY <1>1, <1>2, <1>4 DEF CountsMove, Miss, TypeOK, Counted, Out, Ind
<1>8. ThreadMoves(th, c)
    BY <1>1, <1>2, <1>4, ConnAssumption DEF ThreadMoves, TypeOK, Handled, Miss, Goto
<1> QED BY <1>1, <1>2, <1>4, <1>5, <1>6, <1>7, <1>8 DEF Local, Miss, lists

------------------------------------------------------------------------------
(* The lists *)

(* Unlinking the same entries from all lists they are in keeps them in     *)
(* agreement.                                                              *)
LEMMA UnlinkLists ==
  ASSUME TypeOK, ListsAgree, NEW gone, gone \subseteq Is({"pooled"}),
         all' = Without(all, gone), sockets' \in [Targets -> Seq(Conns)],
         \A t \in Targets :
             \/ sockets'[t] = Without(sockets[t], gone)
             \/ sockets'[t] = sockets[t] /\ \A c \in gone : conn[c].target # t,
         Is({"pooled"})' = Is({"pooled"}) \ gone,
         \A c \in Is({"pooled"})' : conn'[c].target = conn[c].target,
         old' = old \ gone
  PROVE  ListsAgree' /\ all' \in Seq(Conns)
<1>1. all \in Seq(Conns) /\ \A t \in Targets : sockets[t] \in Seq(Conns)
    BY DEF TypeOK
<1>2. /\ all' \in Seq(Conns) /\ Distinct(all') /\ Elements(all') = Elements(all) \ gone
      /\ \A x, y \in Elements(all') : Before(all', x, y) <=> Before(all, x, y)
    BY <1>1, WithoutFacts DEF ListsAgree
<1>3. ASSUME NEW t \in Targets
      PROVE  /\ Distinct(sockets'[t])
             /\ Elements(sockets'[t]) = {c \in Is({"pooled"})' : conn'[c].target = t}
             /\ \A x, y \in Elements(sockets'[t]) : Before(sockets'[t], x, y) <=> Before(all', x, y)
  <2>1. /\ Distinct(sockets[t]) /\ Elements(sockets[t]) = {c \in Is({"pooled"}) : conn[c].target = t}
        /\ \A x, y \in Elements(sockets[t]) : Before(sockets[t], x, y) <=> Before(all, x, y)
      BY DEF ListsAgree
  <2>2. /\ Distinct(sockets'[t]) /\ Elements(sockets'[t]) = Elements(sockets[t]) \ gone
        /\ \A x, y \in Elements(sockets'[t]) : Before(sockets'[t], x, y) <=> Before(sockets[t], x, y)
    <3>1. CASE sockets'[t] = Without(sockets[t], gone)
        BY <1>1, <2>1, <3>1, WithoutFacts
    <3>2. CASE sockets'[t] = sockets[t] /\ \A c \in gone : conn[c].target # t
        BY <2>1, <3>2
    <3> QED BY <3>1, <3>2
  <2>3. Elements(sockets'[t]) = {c \in Is({"pooled"})' : conn'[c].target = t}
      BY <2>1, <2>2
  <2>4. Elements(sockets'[t]) \subseteq Elements(all')
      BY <2>1, <2>2, <1>2 DEF ListsAgree
  <2> QED BY <1>2, <2>1, <2>2, <2>3, <2>4
<1>4. Elements(all') = Is({"pooled"})' /\ old' \subseteq Is({"pooled"})'
    BY <1>2 DEF ListsAgree
<1> QED BY <1>2, <1>3, <1>4 DEF ListsAgree

(* What the steps of connections that are idle keep. *)
LEMMA IdleConns ==
  ASSUME TypeOK, Held, TargetKnown, TriesLeft, setup' = setup, conn' \in [Conns -> ConnRecord],
         \A c \in Conns : \/ conn'[c] = conn[c]
                          \/ conn[c].state \in {"free", "pooled"} /\ conn'[c].state = "free",
         \A x \in Threads :
             \/ busy'[x] = busy[x] /\ want'[x] = want[x]
             \/ /\ busy'[x] \in {"no", "connect", "return", "lookup"}
                /\ global /\ busy'[x] \in {"connect", "lookup"} => want'[x] \in Targets
  PROVE  Held' /\ TargetKnown' /\ TriesLeft'
<1>0. global' = global
    BY DEF global
<1>1. ASSUME NEW x \in Threads, busy'[x] \in Conns
      PROVE  /\ busy'[x] = busy[x] /\ want'[x] = want[x] /\ conn[busy[x]].state \in Handled
             /\ conn'[busy[x]] = conn[busy[x]]
  <2>1. busy'[x] = busy[x] /\ want'[x] = want[x]
      BY <1>1, ConnAssumption
  <2>2. conn[busy[x]].state \in Handled
      BY <1>1, <2>1 DEF Held
  <2>3. conn[busy[x]].state \notin {"free", "pooled"}
      BY <2>2 DEF Handled
  <2> QED BY <1>1, <2>1, <2>2, <2>3
<1>2. Held'
    BY <1>1 DEF Held
<1>3. \A c \in Conns : conn'[c].state \notin {"free", "pooled"} => conn'[c] = conn[c]
    OBVIOUS
<1>4. TargetKnown'
  <2>1. ASSUME NEW c \in Conns
        PROVE  /\ conn'[c].state \notin {"free", "try"} => conn'[c].target \in Targets
               /\ conn'[c].state = "try" => conn'[c].left > 0
               /\ global /\ conn'[c].state = "try" => conn'[c].target \in Targets
      BY DEF TargetKnown
  <2>2. ASSUME global, NEW x \in Threads, busy'[x] \in {"connect", "lookup"} PROVE want'[x] \in Targets
      BY <2>2 DEF TargetKnown
  <2>3. ASSUME global, NEW x \in Threads, busy'[x] \in Conns, conn'[busy'[x]].state = "testing"
        PROVE  want'[x] \in Targets
      BY <1>1, <2>3 DEF TargetKnown
  <2> QED BY <1>0, <2>1, <2>2, <2>3 DEF TargetKnown
<1>5. TriesLeft'
  <2> SUFFICES ASSUME ~global, NumTargets > 1, NEW d \in Conns, conn'[d].state \in Trying
               PROVE  conn'[d].left = Cardinality(Targets \ conn'[d].tried)
      BY <1>0 DEF TriesLeft, Is, Trying
  <2>1. conn'[d] = conn[d]
      BY <1>3 DEF Trying
  <2> QED BY <2>1 DEF TriesLeft, Is, Trying
<1> QED BY <1>2, <1>4, <1>5

(* The entries that expire are pooled, and every counter of what is not    *)
(* counts those that stay.                                                 *)
LEMMA Expires ==
  ASSUME IInv, NEW th \in Threads, NEW linked \in BOOLEAN, CheckExpired(th, linked), setup' = setup
  PROVE  /\ conn' \in [Conns -> ConnRecord] /\ timer' \in BOOLEAN
         /\ \A c \in Conns : \/ conn'[c] = conn[c]
                             \/ conn[c].state \in {"free", "pooled"} /\ conn'[c].state = "free"
         /\ all' \in Seq(Conns) /\ sockets' \in [Targets -> Seq(Conns)] /\ old' \subseteq Conns
         /\ count' \in Int /\ pooled_count' \in Nat /\ leased_count' \in [Targets -> Int]
         /\ ListsAgree' /\ PooledExact' /\ CountersExact'
<1> USE DEF IInv, Core
<1>1. Expired \subseteq Is({"pooled"}) /\ Expired \subseteq Conns
    BY DEF Expired, ListsAgree, Elements, Is
<1>2. NoConn \in ConnRecord /\ NoConn.state = "free"
    BY Numbers DEF NoConn
<1>3. /\ conn \in [Conns -> ConnRecord]
      /\ conn' = [c \in Conns |-> IF c \in Expired THEN NoConn ELSE conn[c]]
    BY DEF CheckExpired, TypeOK, ConnRecord
<1>4. /\ conn' \in [Conns -> ConnRecord]
      /\ \A c \in Conns \ Expired : conn'[c] = conn[c]
      /\ \A c \in Expired : conn[c].state = "pooled" /\ conn'[c].state = "free"
    BY <1>1, <1>2, <1>3 DEF Is
<1>5. Is({"pooled"})' = Is({"pooled"}) \ Expired
    BY <1>4 DEF Is
<1>6. sockets' \in [Targets -> Seq(Conns)] /\ \A t \in Targets : sockets'[t] = Without(sockets[t], Expired)
    BY WithoutFacts DEF CheckExpired, TypeOK, ListsAgree
<1>7. ListsAgree' /\ all' \in Seq(Conns)
  <2>1. all' = Without(all, Expired) /\ old' = old \ Expired
      BY DEF CheckExpired
  <2>2. \A c \in Is({"pooled"})' : conn'[c].target = conn[c].target
      BY <1>4, <1>5 DEF Is
  <2> HIDE DEF IInv, Core
  <2>3. TypeOK /\ ListsAgree
      BY DEF IInv, Core
  <2> QED BY <1>1, <1>5, <1>6, <2>1, <2>2, <2>3, UnlinkLists
<1>8. IsFiniteSet(Conns) /\ IsFiniteSet(Expired) /\ Cardinality(Expired) \in Nat
    BY <1>1, SocketPoolAssumption, FS_Subset, FS_CardinalityType
<1>9. ASSUME NEW A \in SUBSET Conns, Expired \subseteq A
      PROVE  Cardinality(A \ Expired) = Cardinality(A) - Cardinality(Expired)
  <2>1. A \cap Expired = Expired
      BY <1>9
  <2>2. IsFiniteSet(A)
      BY <1>8, FS_Subset
  <2> QED BY <2>1, <2>2, FS_Difference
<1>10. PooledExact' /\ pooled_count' \in Nat
  <2>1. Is(Counted)' = Is(Counted) \ Expired /\ Expired \subseteq Is(Counted) /\ Is(Counted) \subseteq Conns
      BY <1>4, <1>1 DEF Is, Counted
  <2>2. Cardinality(Is(Counted)') = Cardinality(Is(Counted)) - Cardinality(Expired)
      BY <1>9, <2>1
  <2>3. pooled_count' = Cardinality(Is(Counted)')
      BY <2>2 DEF PooledExact, Counted, CheckExpired
  <2>4. IsFiniteSet(Is(Counted)')
      BY <1>8, <2>1, FS_Subset
  <2> QED BY <2>3, <2>4, FS_CardinalityType DEF PooledExact, Counted
<1>11. CountersExact'
  <2> SUFFICES ASSUME setup.failures \cap Drifting = {} PROVE GovernedExact' /\ LeasedExact'
      BY DEF CountersExact
  <2>1. (Conns \ Free)' = (Conns \ Free) \ Expired /\ Expired \subseteq Conns \ Free
      BY <1>4, <1>1 DEF Is, Free
  <2>2. Cardinality((Conns \ Free)') = Cardinality(Conns \ Free) - Cardinality(Expired)
      BY <1>9, <2>1
  <2>3. GovernedExact'
      BY <2>2 DEF GovernedExact, CountersExact, CheckExpired
  <2>4. ASSUME NEW t \in Targets
        PROVE  {c \in Is(Out)' : conn'[c].target = t} = {c \in Is(Out) : conn[c].target = t}
      BY <1>4 DEF Is, Out
  <2>5. LeasedExact'
      BY <2>4 DEF LeasedExact, CountersExact, CheckExpired, Out
  <2> QED BY <2>3, <2>5
<1>12. timer' \in BOOLEAN /\ count' \in Int /\ leased_count' \in [Targets -> Int] /\ old' \subseteq Conns
    BY <1>8 DEF CheckExpired, TypeOK
<1> QED BY <1>4, <1>6, <1>7, <1>10, <1>11, <1>12

(* The critical sections that expire entries *)
LEMMA ExpirySteps ==
  ASSUME IInv, UNCHANGED lb, NEW th \in Threads, th \in setup.threads,
         CheckInConnect(th) \/ CheckInReturn(th) \/ (OnTimeout /\ th = TimerThread)
  PROVE  IInv'
<1>0. IInv /\ Core /\ TypeOK /\ Held /\ TargetKnown /\ TriesLeft /\ setup' = setup
    BY DEF IInv, Core, BalancerInv, CheckInConnect, CheckInReturn, OnTimeout
<1>1. PICK linked \in BOOLEAN :
        CheckExpired(th, linked) /\ (linked = timer \/ (linked = FALSE /\ busy[TimerThread] = "no"))
    BY <1>0 DEF CheckInConnect, CheckInReturn, OnTimeout, TypeOK, Idle
<1>2. /\ conn' \in [Conns -> ConnRecord] /\ timer' \in BOOLEAN
      /\ \A c \in Conns : \/ conn'[c] = conn[c]
                          \/ conn[c].state \in {"free", "pooled"} /\ conn'[c].state = "free"
      /\ all' \in Seq(Conns) /\ sockets' \in [Targets -> Seq(Conns)] /\ old' \subseteq Conns
      /\ count' \in Int /\ pooled_count' \in Nat /\ leased_count' \in [Targets -> Int]
      /\ ListsAgree' /\ PooledExact' /\ CountersExact'
    BY <1>0, <1>1, Expires
<1>3. /\ timer' = (linked \/ (th = TimerThread /\ all' # <<>>))
    BY <1>1 DEF CheckExpired
<1>4. /\ want' = want /\ disposed' = disposed
      /\ \A x \in Threads \ {th} : busy'[x] = busy[x]
      /\ \/ busy[th] = "connect" /\ busy'[th] = "lookup" /\ mutex' = mutex
         \/ busy[th] = "return" /\ busy'[th] = "no" /\ mutex' = "none"
         \/ busy[th] = "no" /\ busy'[th] = "no" /\ mutex' = mutex
      /\ busy' \in [Threads -> {"no", "connect", "return", "lookup"} \cup Conns]
    BY <1>0 DEF CheckInConnect, CheckInReturn, OnTimeout, Idle, Goto, TypeOK
<1>5. Held' /\ TargetKnown' /\ TriesLeft'
  <2>1. ASSUME NEW x \in Threads
        PROVE  \/ busy'[x] = busy[x] /\ want'[x] = want[x]
               \/ /\ busy'[x] \in {"no", "connect", "return", "lookup"}
                  /\ global /\ busy'[x] \in {"connect", "lookup"} => want'[x] \in Targets
    <3>1. CASE x # th
        BY <1>4, <3>1
    <3>2. CASE x = th
        BY <1>0, <1>4, <3>2 DEF TargetKnown
    <3> QED BY <3>1, <3>2
  <2> QED BY <1>0, <1>2, <2>1, IdleConns
<1>6. TypeOK'
    BY <1>0, <1>2, <1>4 DEF TypeOK, ConnRecord
<1>7. MutexHeld'
    BY <1>0, <1>4 DEF Core, MutexHeld, TypeOK
<1>8. TimerLinked'
  <2> SUFFICES ASSUME setup.threads = {TimerThread}, all' # <<>> PROVE timer'
      BY <1>0 DEF TimerLinked
  <2>1. th = TimerThread
      OBVIOUS
  <2> QED BY <1>3, <2>1
<1> QED BY <1>2, <1>5, <1>6, <1>7, <1>8 DEF IInv, Core, BalancerInv, TurnWithinWeight

(* The steps that leave the connections alone *)
LEMMA QuietSteps ==
  ASSUME IInv, UNCHANGED lb,
         \/ OnTimeoutLocked
         \/ \E c \in Conns : Age(c)
         \/ \E th \in setup.threads, t \in Targets \cup {"none"} : Connect(th, t)
  PROVE  IInv'
<1>0. TypeOK /\ Held /\ TargetKnown /\ MutexHeld /\ TimerLinked /\ ListsAgree /\ TriesLeft
    BY DEF IInv, Core, BalancerInv
<1>1. /\ setup' = setup /\ conn' = conn /\ all' = all /\ sockets' = sockets /\ disposed' = disposed
      /\ count' = count /\ pooled_count' = pooled_count /\ leased_count' = leased_count
    BY DEF OnTimeoutLocked, Age, Connect, lists, counters
<1>2. old' \subseteq Is({"pooled"})
  <2>1. CASE \E c \in Conns : Age(c)
      BY <1>0, <2>1 DEF Age, ListsAgree, Is
  <2>2. CASE old' = old
      BY <1>0, <2>2 DEF ListsAgree
  <2> QED BY <2>1, <2>2 DEF OnTimeoutLocked, Connect, lists
<1>3. PooledExact' /\ CountersExact'
    BY <1>1 DEF IInv, PooledExact, CountersExact, GovernedExact, LeasedExact, Is, Free
<1>4. ListsAgree'
    BY <1>0, <1>1, <1>2 DEF ListsAgree, Is
<1>5. CASE OnTimeoutLocked
  <2>1. busy' = busy /\ want' = want /\ mutex' = mutex /\ timer' = FALSE /\ mutex # "none"
        /\ busy[TimerThread] = "no" /\ old' = old
      BY <1>5 DEF OnTimeoutLocked, Idle, lists
  <2>2. setup.threads # {TimerThread}
      BY <1>0, <2>1 DEF MutexHeld
  <2>3. TimerLinked'
      BY <1>1, <2>2 DEF TimerLinked
  <2>4. TypeOK' /\ MutexHeld'
      BY <1>0, <1>1, <2>1 DEF TypeOK, MutexHeld
  <2>5. Held' /\ TargetKnown' /\ TriesLeft'
      BY <1>0, <1>1, <2>1 DEF Held, TargetKnown, TriesLeft, Is, global
  <2> QED BY <1>3, <1>4, <2>3, <2>4, <2>5 DEF IInv, Core, BalancerInv, TurnWithinWeight
<1>6. CASE \E c \in Conns : Age(c)
  <2>1. busy' = busy /\ want' = want /\ mutex' = mutex /\ timer' = timer
      BY <1>6 DEF Age
  <2>2. TypeOK' /\ MutexHeld' /\ TimerLinked'
      BY <1>0, <1>1, <1>2, <2>1 DEF TypeOK, MutexHeld, TimerLinked, Is
  <2>3. Held' /\ TargetKnown' /\ TriesLeft'
      BY <1>0, <1>1, <2>1 DEF Held, TargetKnown, TriesLeft, Is, global
  <2> QED BY <1>3, <1>4, <2>2, <2>3 DEF IInv, Core, BalancerInv, TurnWithinWeight
<1>7. ASSUME NEW th \in setup.threads, NEW t \in Targets \cup {"none"}, Connect(th, t) PROVE IInv'
  <2>0. th \in Threads
      BY <1>0, SocketPoolAssumption DEF TypeOK
  <2>1. /\ busy[th] = "no" /\ busy' = [busy EXCEPT ![th] = "connect"] /\ mutex' = th
        /\ want' = [want EXCEPT ![th] = t] /\ (global => t \in Targets) /\ timer' = timer /\ old' = old
      BY <1>7 DEF Connect, Idle, Goto, lists
  <2>2. TypeOK' /\ MutexHeld'
      BY <1>0, <1>1, <2>0, <2>1 DEF TypeOK, MutexHeld
  <2>3. TimerLinked'
      BY <1>0, <1>1, <2>0, <2>1 DEF TimerLinked, TypeOK
  <2>4. ASSUME NEW x \in Threads
        PROVE  \/ busy'[x] = busy[x] /\ want'[x] = want[x]
               \/ /\ busy'[x] \in {"no", "connect", "return", "lookup"}
                  /\ global /\ busy'[x] \in {"connect", "lookup"} => want'[x] \in Targets
      BY <1>0, <2>0, <2>1 DEF TypeOK
  <2>5. conn' \in [Conns -> ConnRecord] /\ \A c \in Conns : conn'[c] = conn[c]
      BY <1>0, <1>1 DEF TypeOK, ConnRecord
  <2>6. Held' /\ TargetKnown' /\ TriesLeft'
      BY <1>0, <1>1, <2>4, <2>5, IdleConns
  <2> QED BY <1>3, <1>4, <2>2, <2>3, <2>6 DEF IInv, Core, BalancerInv, TurnWithinWeight
<1> QED BY <1>5, <1>6, <1>7

LEMMA PopStep ==
  ASSUME IInv, UNCHANGED lb, NEW th \in Threads, th \in setup.threads, Pop(th)
  PROVE  IInv'
<1>0. TypeOK /\ Held /\ TargetKnown /\ MutexHeld /\ TimerLinked /\ ListsAgree /\ TriesLeft
    BY DEF IInv, Core, BalancerInv
<1> DEFINE c == Head(Source(th))
<1>1. /\ setup' = setup /\ want' = want /\ timer' = timer /\ disposed' = disposed
      /\ count' = count /\ pooled_count' = pooled_count /\ leased_count' = leased_count
      /\ busy[th] = "lookup" /\ busy' = [busy EXCEPT ![th] = c] /\ mutex' = "none"
      /\ all' = Without(all, {c}) /\ old' = old \ {c}
      /\ sockets' = [sockets EXCEPT ![conn[c].target] = Without(sockets[conn[c].target], {c})]
      /\ Set(c, "testing") /\ Source(th) # <<>>
    BY DEF Pop, Goto, counters
<1>2. c \in Conns /\ conn[c].state = "pooled" /\ conn[c].target \in Targets
  <2>1. \/ Source(th) = all
        \/ global /\ want[th] \in Targets /\ Source(th) = sockets[want[th]]
      BY <1>0, <1>1 DEF Source, TargetKnown
  <2>2. Source(th) \in Seq(Conns) /\ Elements(Source(th)) \subseteq Is({"pooled"})
      BY <1>0, <2>1 DEF TypeOK, ListsAgree
  <2>3. c \in Elements(Source(th))
      BY <1>1, <2>2 DEF Elements
  <2> QED BY <1>0, <2>2, <2>3 DEF Is, TargetKnown
<1> HIDE DEF c
<1>3. conn \in [Conns -> ConnRecord]
    BY <1>0 DEF TypeOK, ConnRecord
<1>4. /\ Becomes(c, "testing") /\ conn'[c].target = conn[c].target
    BY <1>1, <1>2, <1>3, SetBecomes DEF States
<1>5. ConnMoves(c)
    BY <1>2, <1>4 DEF ConnMoves, Becomes
<1>6. CountsMove(c)
    BY <1>0, <1>1, <1>2, <1>4 DEF CountsMove, Becomes, TypeOK, Counted, Out, Ind
<1>7. PooledExact' /\ CountersExact'
    BY <1>0, <1>1, <1>2, <1>5, <1>6, MovesCount DEF IInv
<1>8. /\ Is({"pooled"})' = Is({"pooled"}) \ {c} /\ {c} \subseteq Is({"pooled"})
      /\ \A d \in Is({"pooled"})' : conn'[d].target = conn[d].target
    BY <1>2, <1>4 DEF Is, Becomes
<1>9. /\ sockets' \in [Targets -> Seq(Conns)]
      /\ \A t \in Targets : \/ sockets'[t] = Without(sockets[t], {c})
                            \/ sockets'[t] = sockets[t] /\ conn[c].target # t
  <2>1. Without(sockets[conn[c].target], {c}) \in Seq(Conns)
      BY <1>0, <1>2, WithoutFacts DEF TypeOK, ListsAgree
  <2> QED BY <1>0, <1>1, <1>2, <2>1 DEF TypeOK
<1>10. ListsAgree' /\ all' \in Seq(Conns)
    BY <1>0, <1>1, <1>8, <1>9, UnlinkLists
<1>11. TypeOK' /\ MutexHeld'
    BY <1>0, <1>1, <1>2, <1>4, <1>9, <1>10 DEF TypeOK, MutexHeld, Becomes, ConnRecord
<1>12. TimerLinked'
  <2>1. all # <<>>
    <3> SUFFICES ASSUME all = <<>> PROVE FALSE
        OBVIOUS
    <3>1. Elements(all) = {}
        BY DEF Elements
    <3> QED BY <1>0, <1>8, <3>1 DEF ListsAgree
  <2> QED BY <1>0, <1>1, <2>1 DEF TimerLinked
<1>13. \A x \in Threads : busy[x] # c
    BY <1>0, <1>2 DEF Held, Handled
<1>14. Held'
  <2>1. ASSUME NEW x \in Threads, busy'[x] \in Conns
        PROVE  (x = th /\ busy'[x] = c) \/ (x # th /\ busy'[x] = busy[x] /\ busy[x] # c)
      BY <1>0, <1>1, <1>13 DEF TypeOK
  <2>2. ASSUME NEW x \in Threads, busy'[x] \in Conns PROVE conn'[busy'[x]].state \in Handled
    <3>1. CASE x = th
        BY <2>1, <2>2, <3>1, <1>4 DEF Becomes, Handled
    <3>2. CASE x # th
        BY <2>1, <2>2, <3>2, <1>4, <1>0 DEF Becomes, Held
    <3> QED BY <3>1, <3>2
  <2>3. ASSUME NEW x \in Threads, NEW y \in Threads, busy'[x] \in Conns, busy'[x] = busy'[y]
        PROVE  x = y
      BY <2>1, <2>3, <1>0 DEF Held
  <2> QED BY <2>2, <2>3 DEF Held
<1>15. TargetKnown'
  <2>0. global' = global
      BY <1>1 DEF global
  <2>1. ASSUME NEW d \in Conns
        PROVE  /\ conn'[d].state \notin {"free", "try"} => conn'[d].target \in Targets
               /\ conn'[d].state = "try" => conn'[d].left > 0
               /\ global /\ conn'[d].state = "try" => conn'[d].target \in Targets
      BY <1>0, <1>2, <1>4 DEF Becomes, TargetKnown
  <2>2. ASSUME global, NEW x \in Threads, busy'[x] \in {"connect", "lookup"} PROVE want'[x] \in Targets
      BY <1>0, <1>1, <1>2, <2>2, ConnAssumption DEF TypeOK, TargetKnown
  <2>3. ASSUME global, NEW x \in Threads, busy'[x] \in Conns, conn'[busy'[x]].state = "testing"
        PROVE  want'[x] \in Targets
    <3>1. CASE x = th
        BY <1>0, <1>1, <2>3, <3>1 DEF TargetKnown
    <3>2. CASE x # th
        BY <1>0, <1>1, <1>4, <1>13, <2>3, <3>2 DEF TypeOK, Becomes, TargetKnown
    <3> QED BY <3>1, <3>2
  <2> QED BY <2>0, <2>1, <2>2, <2>3 DEF TargetKnown
<1>16. TriesLeft'
    BY <1>0, <1>1, <1>4 DEF TriesLeft, Is, Becomes, global
<1> QED BY <1>7, <1>10, <1>11, <1>12, <1>14, <1>15, <1>16
        DEF IInv, Core, BalancerInv, TurnWithinWeight

(* An entry is linked at the end of both lists. *)
LEMMA InsertStep ==
  ASSUME IInv, UNCHANGED lb, NEW th \in Threads, th \in setup.threads, NEW c \in Conns, Insert(th, c)
  PROVE  IInv'
<1>0. TypeOK /\ Held /\ TargetKnown /\ MutexHeld /\ TimerLinked /\ ListsAgree /\ TriesLeft
    BY DEF IInv, Core, BalancerInv
<1> DEFINE u == conn[c].target
           r == [NoConn EXCEPT !.state = "pooled", !.target = u]
<1>1. /\ setup' = setup /\ want' = want /\ timer' = timer /\ disposed' = disposed /\ old' = old
      /\ count' = count /\ pooled_count' = pooled_count /\ leased_count' = leased_count
      /\ busy[th] = c /\ busy' = [busy EXCEPT ![th] = "return"] /\ mutex' = th
      /\ conn[c].state = "returning" /\ conn' = [conn EXCEPT ![c] = r]
      /\ all' = Append(all, c) /\ sockets' = [sockets EXCEPT ![u] = Append(sockets[u], c)]
    BY DEF Insert, Busy, Goto, counters
<1>2. u \in Targets /\ conn \in [Conns -> ConnRecord]
    BY <1>0, <1>1 DEF TargetKnown, TypeOK, ConnRecord
<1>3. r \in ConnRecord /\ r.state = "pooled" /\ r.target = u
    BY <1>2, Numbers DEF ConnRecord, States
<1> HIDE DEF r, u
<1>4. Becomes(c, "pooled") /\ conn'[c].target = u
    BY <1>1, <1>2, <1>3 DEF Becomes
<1>5. PooledExact' /\ CountersExact'
  <2>1. ConnMoves(c)
      BY <1>2, <1>4 DEF ConnMoves, Becomes
  <2>2. CountsMove(c)
      BY <1>0, <1>1, <1>4 DEF CountsMove, Becomes, TypeOK, Counted, Out, Ind
  <2> QED BY <1>0, <1>1, <2>1, <2>2, MovesCount DEF IInv
<1>6. Is({"pooled"})' = Is({"pooled"}) \cup {c} /\ c \notin Is({"pooled"})
    BY <1>1, <1>4 DEF Is, Becomes
<1>7. /\ all' \in Seq(Conns) /\ Distinct(all') /\ Elements(all') = Elements(all) \cup {c}
      /\ \A x, y : Before(all', x, y) <=> Before(all, x, y) \/ (x \in Elements(all) /\ y = c)
    BY <1>0, <1>1, <1>6, AppendFacts DEF TypeOK, ListsAgree
<1>8. ASSUME NEW t \in Targets
      PROVE  /\ sockets'[t] \in Seq(Conns) /\ Distinct(sockets'[t])
             /\ Elements(sockets'[t]) = {d \in Is({"pooled"})' : conn'[d].target = t}
             /\ \A x, y \in Elements(sockets'[t]) : Before(sockets'[t], x, y) <=> Before(all', x, y)
  <2> DEFINE s == sockets[t]
  <2>1. /\ s \in Seq(Conns) /\ Distinct(s) /\ Elements(s) = {d \in Is({"pooled"}) : conn[d].target = t}
        /\ \A x, y \in Elements(s) : Before(s, x, y) <=> Before(all, x, y)
        /\ c \notin Elements(s) /\ Elements(all) = Is({"pooled"})
      BY <1>0, <1>6 DEF TypeOK, ListsAgree
  <2>2. \A d \in Is({"pooled"}) : conn'[d].target = conn[d].target
      BY <1>4, <1>6 DEF Becomes, Is
  <2>3. CASE t # u
    <3>1. sockets'[t] = s
        BY <1>0, <1>1, <1>2, <2>3 DEF TypeOK
    <3>2. Elements(s) = {d \in Is({"pooled"})' : conn'[d].target = t}
        BY <1>4, <1>6, <2>1, <2>2, <2>3
    <3> QED BY <1>7, <2>1, <3>1, <3>2
  <2>4. CASE t = u
    <3>1. sockets'[t] = Append(s, c)
        BY <1>0, <1>1, <1>2, <2>4 DEF TypeOK
    <3> HIDE DEF s
    <3>2. /\ sockets'[t] \in Seq(Conns) /\ Distinct(sockets'[t])
          /\ Elements(sockets'[t]) = Elements(s) \cup {c}
          /\ \A x, y : Before(sockets'[t], x, y) <=> Before(s, x, y) \/ (x \in Elements(s) /\ y = c)
        BY <2>1, <3>1, AppendFacts
    <3>3. Elements(sockets'[t]) = {d \in Is({"pooled"})' : conn'[d].target = t}
        BY <1>4, <1>6, <2>1, <2>2, <2>4, <3>2
    <3>4. \A x, y : ~ Before(s, c, y) /\ ~ Before(s, x, c) /\ ~ Before(all, c, y) /\ ~ Before(all, x, c)
        BY <1>6, <2>1 DEF Before, Elements
    <3>5. Elements(s) \subseteq Elements(all)
        BY <2>1
    <3>6. ASSUME NEW x \in Elements(sockets'[t]), NEW y \in Elements(sockets'[t])
          PROVE  Before(sockets'[t], x, y) <=> Before(all', x, y)
      <4>1. CASE x = c
          BY <1>6, <1>7, <2>1, <3>2, <3>4, <4>1
      <4>2. CASE x # c /\ y = c
          BY <1>7, <3>2, <3>5, <4>2
      <4>3. CASE x # c /\ y # c
          BY <1>7, <2>1, <3>2, <4>3
      <4> QED BY <4>1, <4>2, <4>3
    <3> QED BY <3>2, <3>3, <3>6
  <2> QED BY <2>3, <2>4
<1>9. ListsAgree'
    BY <1>0, <1>1, <1>6, <1>7, <1>8 DEF ListsAgree
<1>10. sockets' \in [Targets -> Seq(Conns)]
    BY <1>0, <1>1, <1>8 DEF TypeOK
<1>11. TypeOK' /\ MutexHeld'
    BY <1>0, <1>1, <1>4, <1>7, <1>10 DEF TypeOK, MutexHeld, Becomes, ConnRecord
<1>12. TimerLinked'
    BY <1>0, <1>1, SocketPoolAssumption DEF TimerLinked, TypeOK
<1>13. \A x \in Threads \ {th} : busy[x] # c /\ busy'[x] = busy[x]
    BY <1>0, <1>1 DEF Held, TypeOK
<1>14. busy'[th] = "return"
    BY <1>0, <1>1 DEF TypeOK
<1>15. Held'
    BY <1>0, <1>4, <1>13, <1>14, ConnAssumption DEF Held, Becomes
<1>16. TargetKnown'
  <2>0. global' = global
      BY <1>1 DEF global
  <2>1. ASSUME NEW d \in Conns
        PROVE  /\ conn'[d].state \notin {"free", "try"} => conn'[d].target \in Targets
               /\ conn'[d].state = "try" => conn'[d].left > 0
               /\ global /\ conn'[d].state = "try" => conn'[d].target \in Targets
      BY <1>0, <1>2, <1>4 DEF Becomes, TargetKnown
  <2>2. ASSUME global, NEW x \in Threads, busy'[x] \in {"connect", "lookup"} PROVE want'[x] \in Targets
      BY <1>0, <1>1, <1>13, <1>14, <2>2 DEF TargetKnown
  <2>3. ASSUME global, NEW x \in Threads, busy'[x] \in Conns, conn'[busy'[x]].state = "testing"
        PROVE  want'[x] \in Targets
      BY <1>0, <1>1, <1>4, <1>13, <1>14, <2>3, ConnAssumption DEF Becomes, TargetKnown
  <2> QED BY <2>0, <2>1, <2>2, <2>3 DEF TargetKnown
<1>17. TriesLeft'
    BY <1>0, <1>1, <1>4 DEF TriesLeft, Is, Becomes, global
<1> QED BY <1>5, <1>9, <1>11, <1>12, <1>15, <1>16, <1>17
        DEF IInv, Core, BalancerInv, TurnWithinWeight

LEMMA DisposeStep ==
  ASSUME IInv, UNCHANGED lb, Dispose
  PROVE  IInv'
<1>0. TypeOK /\ Held /\ TargetKnown /\ MutexHeld /\ TimerLinked /\ ListsAgree /\ TriesLeft
    BY DEF IInv, Core, BalancerInv
<1>1. /\ setup' = setup /\ want' = want /\ busy' = busy /\ mutex' = mutex
      /\ leased_count' = leased_count /\ disposed' = TRUE /\ timer' = FALSE
      /\ count' = count - Len(all) /\ pooled_count' = pooled_count - Len(all)
      /\ all' = <<>> /\ sockets' = [t \in Targets |-> <<>>] /\ old' = {}
      /\ conn' = [c \in Conns |-> NoConn]
      /\ \A c \in Conns : conn[c].state \in {"free", "pooled"}
  <2>1. \A c \in Conns : conn[c].state \in States
      BY <1>0 DEF TypeOK
  <2> QED BY <2>1 DEF Dispose, Is
<1>2. conn' \in [Conns -> ConnRecord] /\ \A c \in Conns : conn'[c].state = "free"
  <2>1. NoConn.state = "free"
      BY DEF NoConn
  <2> QED BY <1>1, <2>1, Numbers
<1>3. Held' /\ TargetKnown' /\ TriesLeft'
    BY <1>0, <1>1, <1>2, IdleConns
<1>4. Elements(all) = Is({"pooled"}) /\ Len(all) \in Nat /\ Cardinality(Elements(all)) = Len(all)
    BY <1>0, ListLength DEF TypeOK, ListsAgree
<1>5. Is(Counted) = Is({"pooled"}) /\ Conns \ Free = Is({"pooled"})
    BY <1>1 DEF Is, Free, Counted
<1>6. Is(Counted)' = {} /\ (Conns \ Free)' = {}
    BY <1>2 DEF Is, Free, Counted
<1>7. pooled_count' = 0 /\ PooledExact'
  <2>1. pooled_count = Cardinality(Is(Counted))
      BY DEF IInv, PooledExact, Counted
  <2>2. pooled_count' = 0
      BY <1>1, <1>4, <1>5, <2>1
  <2>3. Cardinality(Is(Counted)') = 0
      BY <1>6, FS_EmptySet
  <2> QED BY <2>2, <2>3 DEF PooledExact, Counted
<1>8. CountersExact'
  <2> SUFFICES ASSUME setup.failures \cap Drifting = {} PROVE GovernedExact' /\ LeasedExact'
      BY <1>1 DEF CountersExact
  <2>1. GovernedExact'
    <3>1. count = Cardinality(Conns \ Free)
        BY DEF IInv, CountersExact, GovernedExact
    <3>2. count' = 0
        BY <1>1, <1>4, <1>5, <3>1
    <3>3. Cardinality((Conns \ Free)') = 0
        BY <1>6, FS_EmptySet
    <3> QED BY <3>2, <3>3 DEF GovernedExact
  <2>2. Is(Out) = {} /\ Is(Out)' = {}
      BY <1>1, <1>2 DEF Is, Out
  <2>3. \A t \in Targets : {c \in Is(Out)' : conn'[c].target = t} = {c \in Is(Out) : conn[c].target = t}
      BY <2>2
  <2>4. LeasedExact'
      BY <1>1, <2>3 DEF IInv, CountersExact, LeasedExact, Out
  <2> QED BY <2>1, <2>4
<1>9. ListsAgree'
  <2>1. Elements(<<>>) = {} /\ Distinct(<<>>)
      BY DEF Elements, Distinct
  <2>2. Is({"pooled"})' = {}
      BY <1>2 DEF Is
  <2> QED BY <1>1, <2>1, <2>2 DEF ListsAgree
<1>10. TypeOK' /\ MutexHeld' /\ TimerLinked'
  <2>1. all' \in Seq(Conns) /\ sockets' \in [Targets -> Seq(Conns)] /\ old' \subseteq Conns
      BY <1>1
  <2>2. count' \in Int /\ pooled_count' \in Nat /\ leased_count' \in [Targets -> Int]
      BY <1>0, <1>1, <1>4, <1>7 DEF TypeOK
  <2>3. TypeOK'
      BY <1>0, <1>1, <1>2, <2>1, <2>2 DEF TypeOK, ConnRecord
  <2>4. MutexHeld' /\ TimerLinked'
      BY <1>0, <1>1 DEF MutexHeld, TimerLinked
  <2> QED BY <2>3, <2>4
<1> QED BY <1>3, <1>7, <1>8, <1>9, <1>10 DEF IInv, Core, BalancerInv, TurnWithinWeight

------------------------------------------------------------------------------
(* The balancers *)

LEMMA ModFacts ==
  ASSUME NEW n \in Nat, n # 0
  PROVE  /\ \A m \in 0 .. n - 1 : m % n = m /\ (m + n) % n = m
         /\ \A m \in Nat : m % n \in 0 .. n - 1
OBVIOUS

(* targets.entries holds every target once. *)
LEMMA TargetFacts ==
  /\ NumTargets \in Nat /\ NumTargets # 0
  /\ Target \in [0 .. NumTargets - 1 -> Targets]
  /\ \A t \in Targets : \E i \in 0 .. NumTargets - 1 : Target[i] = t
<1>1. NumTargets \in Nat /\ NumTargets # 0 /\ NumTargets = Cardinality(Targets) /\ IsFiniteSet(Targets)
    BY Numbers, SocketPoolAssumption
<1> DEFINE Ix == 0 .. NumTargets - 1
           OneOne(f) == \A i, j \in DOMAIN f : f[i] = f[j] => i = j
<1>2. \E f \in [Ix -> Targets] : OneOne(f)
  <2>1. PICK b : b \in Bijection(1 .. NumTargets, Targets)
    <3>1. ExistsBijection(1 .. NumTargets, Targets)
        BY <1>1, FS_CardinalityType
    <3> QED BY <3>1 DEF ExistsBijection
  <2>2. /\ b \in [1 .. NumTargets -> Targets]
        /\ \A i, j \in 1 .. NumTargets : b[i] = b[j] => i = j
      BY <2>1 DEF Bijection, Injection, IsInjective
  <2> DEFINE f == [i \in Ix |-> b[i + 1]]
  <2>3. \A i \in Ix : i + 1 \in 1 .. NumTargets /\ i \in Int
      BY <1>1
  <2>4. f \in [Ix -> Targets]
      BY <2>2, <2>3
  <2>5. OneOne(f)
    <3> SUFFICES ASSUME NEW i \in Ix, NEW j \in Ix, b[i + 1] = b[j + 1] PROVE i = j
        OBVIOUS
    <3>1. i + 1 = j + 1
        BY <2>2, <2>3
    <3> QED BY <2>3, <3>1
  <2> QED BY <2>4, <2>5
<1>3. Target \in [Ix -> Targets] /\ OneOne(Target)
    BY <1>2 DEF Target
<1>4. Target \in Injection(Ix, Targets)
    BY <1>3 DEF Injection, IsInjective
<1>5. IsFiniteSet(Ix) /\ Cardinality(Ix) = NumTargets
  <2>1. NumTargets - 1 \in Int /\ ~ (0 > NumTargets - 1) /\ (NumTargets - 1) - 0 + 1 = NumTargets
      BY <1>1
  <2>2. IsFiniteSet(Ix) /\ Cardinality(Ix) = (NumTargets - 1) - 0 + 1
      BY <2>1, FS_Interval
  <2> QED BY <2>1, <2>2
<1>6. Target \in Surjection(Ix, Targets)
    BY <1>1, <1>4, <1>5, FS_Injection
<1> QED BY <1>1, <1>3, <1>6 DEF Surjection

(* From pos on, once around, the round robin meets a target that was not   *)
(* tried.                                                                  *)
LEMMA RoundRobinFinds ==
  ASSUME NEW tried \in SUBSET Targets, tried # Targets, TypeOK, TurnWithinWeight
  PROVE  LET rr == RoundRobin(tried)
         IN /\ rr.target \in Targets \ tried
            /\ rr.lb \in [pos : 0 .. NumTargets - 1, consumed : 0 .. 255]
            /\ rr.lb.consumed < Weight[Target[rr.lb.pos]]
<1> DEFINE Ix == 0 .. NumTargets - 1
           At(k) == (lb.pos + k) % NumTargets
           Right(k) == Target[At(k)] \notin tried /\ \A j \in 0 .. k - 1 : Target[At(j)] \in tried
           skip == CHOOSE k \in Ix : Right(k)
           consumed == (IF skip = 0 THEN lb.consumed ELSE 0) + 1
           u == Target[At(skip)]
           lb1 == IF consumed >= Weight[u] THEN [pos |-> At(skip + 1), consumed |-> 0]
                  ELSE [pos |-> At(skip), consumed |-> consumed]
<1>1. /\ NumTargets \in Nat /\ NumTargets # 0 /\ Target \in [Ix -> Targets]
      /\ lb.pos \in Ix /\ lb.consumed \in 0 .. 255
    BY TargetFacts DEF TypeOK
<1>2. \A k \in Nat : At(k) \in Ix
  <2> SUFFICES ASSUME NEW k \in Nat PROVE At(k) \in Ix
      OBVIOUS
  <2>1. lb.pos + k \in Nat
      BY <1>1
  <2> QED BY <1>1, <2>1, ModFacts
<1>3. \E k \in Ix : Target[At(k)] \notin tried
  <2>1. PICK m \in Ix : Target[m] \notin tried
      BY TargetFacts
  <2>2. CASE lb.pos <= m
    <3>1. m - lb.pos \in Ix /\ lb.pos + (m - lb.pos) = m
        BY <1>1, <2>2
    <3>2. At(m - lb.pos) = m
        BY <1>1, <3>1, ModFacts
    <3> QED BY <2>1, <3>1, <3>2
  <2>3. CASE lb.pos > m
    <3>1. m + NumTargets - lb.pos \in Ix /\ lb.pos + (m + NumTargets - lb.pos) = m + NumTargets
        BY <1>1, <2>3
    <3>2. At(m + NumTargets - lb.pos) = m
        BY <1>1, <3>1, ModFacts
    <3> QED BY <2>1, <3>1, <3>2
  <2> QED BY <1>1, <2>2, <2>3
<1>4. \E k \in Ix : Right(k)
  <2> DEFINE S == {k \in Ix : Target[At(k)] \notin tried}
  <2> HIDE DEF At
  <2>1. S \in SUBSET Nat /\ S # {}
      BY <1>1, <1>3
  <2>2. PICK k \in S : \A j \in S : k <= j
    <3> HIDE DEF S
    <3> QED BY <2>1, LeastNat
  <2>3. \A j \in 0 .. k - 1 : j \in Ix /\ j \notin S
      BY <1>1, <2>2
  <2> QED BY <2>2, <2>3
<1>5. skip \in Ix /\ Right(skip)
  <2> HIDE DEF Right
  <2> QED BY <1>4
<1>6. RoundRobin(tried) = [target |-> u, lb |-> lb1]
    BY DEF RoundRobin
<1> HIDE DEF skip
<1>7. skip \in Nat /\ skip + 1 \in Nat
    BY <1>1, <1>5
<1>8. At(skip) \in Ix /\ At(skip + 1) \in Ix /\ u \in Targets \ tried /\ Target[At(skip + 1)] \in Targets
  <2>1. At(skip) \in Ix /\ At(skip + 1) \in Ix
      BY <1>2, <1>7
  <2> QED BY <1>1, <1>5, <2>1
<1> HIDE DEF At, u
<1>9. \A t \in Targets : Weight[t] \in 1 .. 256
    BY SocketPoolAssumption
<1>10. consumed \in 1 .. 256
  <2>1. CASE skip = 0
    <3>1. consumed = lb.consumed + 1
        BY <2>1
    <3>2. lb.consumed \in 0 .. 255
        BY <1>1
    <3> HIDE DEF consumed
    <3> QED BY <3>1, <3>2
  <2>2. CASE skip # 0
      BY <2>2
  <2> QED BY <2>1, <2>2
<1> HIDE DEF consumed
<1>11. lb1 \in [pos : Ix, consumed : 0 .. 255] /\ lb1.consumed < Weight[Target[lb1.pos]]
  <2>1. CASE consumed >= Weight[u]
      BY <1>8, <1>9, <2>1
  <2>2. CASE ~ (consumed >= Weight[u])
    <3>1. consumed < Weight[u] /\ consumed \in 0 .. 255
        BY <1>8, <1>9, <1>10, <2>2
    <3> QED BY <1>8, <2>2, <3>1 DEF u
  <2> QED BY <2>1, <2>2
<1> QED BY <1>6, <1>8, <1>11

(* The loop of least_conn over the first targets: its choice so far is     *)
(* none as long as all of them were tried, and then a target that was not. *)
LEMMA LeastConnFinds ==
  ASSUME NEW tried \in SUBSET Targets, tried # Targets, TypeOK
  PROVE  LeastConn(tried) \in Targets \ tried
<1> DEFINE Ix == 0 .. NumTargets
           r0 == [target |-> "none", weight |-> 0, leased |-> 1]
           Better(t, b) == t \notin tried /\ Wrap(Wrap(leased_count[t]) * b.weight) < Wrap(b.leased * Weight[t])
           Step(t, b) == IF Better(t, b)
                         THEN [target |-> t, weight |-> Weight[t], leased |-> Wrap(leased_count[t])]
                         ELSE b
           Upto(n, g) == g = [i \in 0 .. n |-> IF i = 0 THEN r0 ELSE Step(Target[i - 1], g[i - 1])]
           best == CHOOSE g : Upto(NumTargets, g)
<1>1. NumTargets \in Nat /\ NumTargets # 0 /\ Target \in [0 .. NumTargets - 1 -> Targets]
    BY TargetFacts
<1>2. LeastConn(tried) = best[NumTargets].target
    BY DEF LeastConn
<1>3. ASSUME NEW t \in Targets, t \notin tried PROVE Better(t, r0)
  <2>1. Weight[t] \in 1 .. 256 /\ leased_count[t] \in Int
      BY SocketPoolAssumption DEF TypeOK
  <2>2. Wrap(leased_count[t]) \in Nat
      BY <2>1 DEF Wrap
  <2>3. Wrap(Wrap(leased_count[t]) * 0) = 0 /\ Wrap(1 * Weight[t]) = Weight[t]
      BY <2>1, <2>2 DEF Wrap
  <2> QED BY <1>3, <2>1, <2>3
<1> HIDE DEF r0, Better
<1>4. \E g : Upto(NumTargets, g)
  <2> DEFINE S == {n \in Ix : ~ \E g : Upto(n, g)}
  <2> SUFFICES ASSUME S # {} PROVE FALSE
    <3>1. NumTargets \in Ix
        BY <1>1
    <3> HIDE DEF Upto, Ix
    <3> QED BY <3>1
  <2>1. S \in SUBSET Nat
      BY <1>1
  <2>2. PICK n \in S : \A m \in S : n <= m
    <3> HIDE DEF S
    <3> QED BY <2>1, LeastNat
  <2>3. n \in Ix /\ n \in Nat /\ ~ \E g : Upto(n, g)
      BY <1>1
  <2>4. CASE n = 0
    <3> DEFINE g == [i \in 0 .. 0 |-> r0]
    <3>1. g = [i \in 0 .. 0 |-> IF i = 0 THEN r0 ELSE Step(Target[i - 1], g[i - 1])]
        OBVIOUS
    <3> QED BY <2>3, <2>4, <3>1
  <2>5. CASE n # 0
    <3>1. n - 1 \in Ix /\ n - 1 \notin S
      <4>1. n - 1 \in Ix /\ ~ (n <= n - 1)
          BY <1>1, <2>3, <2>5
      <4> HIDE DEF S
      <4> QED BY <2>2, <4>1
    <3>2. PICK g : Upto(n - 1, g)
        BY <3>1
    <3> DEFINE h == [i \in 0 .. n |-> IF i = n THEN Step(Target[n - 1], g[n - 1]) ELSE g[i]]
    <3> HIDE DEF Step
    <3>3. ASSUME NEW i \in 0 .. n PROVE h[i] = IF i = 0 THEN r0 ELSE Step(Target[i - 1], h[i - 1])
      <4>1. CASE i = n
        <5>1. h[i] = Step(Target[n - 1], g[n - 1]) /\ h[i - 1] = g[n - 1]
            BY <2>3, <2>5, <4>1
        <5> QED BY <2>5, <4>1, <5>1
      <4>2. CASE i # n
        <5>1. i \in 0 .. n - 1 /\ i \in Nat
            BY <2>3, <4>2
        <5>2. h[i] = g[i] /\ g[i] = IF i = 0 THEN r0 ELSE Step(Target[i - 1], g[i - 1])
            BY <3>2, <4>2, <5>1
        <5>3. i # 0 => h[i - 1] = g[i - 1]
            BY <2>3, <5>1
        <5> QED BY <5>2, <5>3
      <4> QED BY <4>1, <4>2
    <3>4. h = [i \in 0 .. n |-> IF i = 0 THEN r0 ELSE Step(Target[i - 1], h[i - 1])]
      <4>1. \A i \in 0 .. n : h[i] = IF i = 0 THEN r0 ELSE Step(Target[i - 1], h[i - 1])
          BY <3>3
      <4>2. DOMAIN h = 0 .. n /\ h = [i \in 0 .. n |-> h[i]]
          OBVIOUS
      <4> HIDE DEF h
      <4> QED BY <4>1, <4>2
    <3> QED BY <2>3, <3>4
  <2> QED BY <2>4, <2>5
<1>5. Upto(NumTargets, best)
  <2> HIDE DEF Upto
  <2> QED BY <1>4
<1> HIDE DEF best
<1>6. best[0] = r0 /\ \A i \in 1 .. NumTargets : best[i] = Step(Target[i - 1], best[i - 1])
  <2> HIDE DEF Step
  <2>1. \A i \in 0 .. NumTargets : best[i] = IF i = 0 THEN r0 ELSE Step(Target[i - 1], best[i - 1])
      BY <1>5
  <2> HIDE DEF Upto, r0
  <2>2. 0 \in 0 .. NumTargets /\ \A i \in 1 .. NumTargets : i \in 0 .. NumTargets /\ i # 0
      BY <1>1
  <2> QED BY <2>1, <2>2
<1> DEFINE Good(i) == \/ best[i] = r0 /\ \A j \in 0 .. i - 1 : Target[j] \in tried
                      \/ best[i].target \in Targets \ tried
           S == {i \in Ix : ~ Good(i)}
<1>7. S = {}
  <2> SUFFICES ASSUME S # {} PROVE FALSE
      OBVIOUS
  <2>1. S \in SUBSET Nat
      BY <1>1
  <2>2. PICK n \in S : \A m \in S : n <= m
    <3> HIDE DEF S
    <3> QED BY <2>1, LeastNat
  <2>3. n \in Ix /\ n \in Nat /\ ~ Good(n)
      BY <1>1
  <2>4. n # 0
      BY <1>6, <2>3
  <2>5. n - 1 \in Ix /\ Good(n - 1) /\ n \in 1 .. NumTargets
    <3>1. n - 1 \in Ix /\ n - 1 \notin S /\ n \in 1 .. NumTargets
      <4>1. n - 1 \in Ix /\ ~ (n <= n - 1) /\ n \in 1 .. NumTargets
          BY <1>1, <2>3, <2>4
      <4> HIDE DEF S
      <4> QED BY <2>2, <4>1
    <3> QED BY <3>1
  <2>6. Target[n - 1] \in Targets /\ best[n] = Step(Target[n - 1], best[n - 1])
      BY <1>1, <1>6, <2>3, <2>5
  <2>7. CASE Better(Target[n - 1], best[n - 1])
    <3>1. best[n].target = Target[n - 1]
        BY <2>6, <2>7
    <3>2. Target[n - 1] \notin tried
        BY <2>7 DEF Better
    <3> QED BY <2>3, <2>6, <3>1, <3>2
  <2>8. CASE ~ Better(Target[n - 1], best[n - 1])
    <3>1. best[n] = best[n - 1]
        BY <2>6, <2>8
    <3>2. CASE best[n - 1].target \in Targets \ tried
        BY <2>3, <3>1, <3>2
    <3>3. CASE best[n - 1] = r0 /\ \A j \in 0 .. (n - 1) - 1 : Target[j] \in tried
      <4>1. Target[n - 1] \in tried
          BY <1>3, <2>6, <2>8, <3>3
      <4>2. \A j \in 0 .. n - 1 : j = n - 1 \/ j \in 0 .. (n - 1) - 1
          BY <2>3
      <4>3. \A j \in 0 .. n - 1 : Target[j] \in tried
          BY <3>3, <4>1, <4>2
      <4> QED BY <2>3, <3>1, <3>3, <4>3
    <3> QED BY <2>5, <3>2, <3>3
  <2> QED BY <2>7, <2>8
<1>8. Good(NumTargets)
    BY <1>1, <1>7
<1>9. \E j \in 0 .. NumTargets - 1 : Target[j] \notin tried
    BY TargetFacts
<1> QED BY <1>2, <1>8, <1>9

(* try_connect marks a target that was not tried, and takes a try. *)
LEMMA SelectStep ==
  ASSUME IInv, NEW th \in Threads, th \in setup.threads, NEW c \in Conns, Select(th, c)
  PROVE  IInv'
<1>0. TypeOK /\ Held /\ TargetKnown /\ ListsAgree /\ TriesLeft /\ TurnWithinWeight
    BY DEF IInv, Core, BalancerInv
<1> DEFINE tried == conn[c].tried
           asks == ~global /\ NumTargets > 1
           t == IF asks THEN Selector(tried) ELSE IF global THEN conn[c].target ELSE Target[0]
           marked == IF asks THEN tried \cup {t} ELSE tried
<1>1. /\ busy[th] = c /\ conn[c].state = "try"
      /\ lb' = IF asks /\ setup.balancer = "rr" THEN RoundRobin(tried).lb ELSE lb
      /\ conn' = [conn EXCEPT ![c] = [conn[c] EXCEPT !.target = t, !.left = conn[c].left - 1,
                                                     !.state = "selected", !.tried = marked]]
      /\ setup' = setup /\ busy' = busy /\ mutex' = mutex /\ want' = want /\ timer' = timer
      /\ all' = all /\ sockets' = sockets /\ old' = old /\ disposed' = disposed
      /\ count' = count /\ pooled_count' = pooled_count /\ leased_count' = leased_count
    BY DEF Select, Busy, lists, counters
<1>2. /\ conn \in [Conns -> ConnRecord] /\ conn[c] \in ConnRecord /\ tried \in SUBSET Targets
      /\ conn[c].left > 0 /\ conn[c].left \in 0 .. Cardinality(Targets)
      /\ NumTargets \in Nat /\ NumTargets # 0 /\ NumTargets = Cardinality(Targets)
    BY <1>0, <1>1, Numbers DEF TypeOK, ConnRecord, TargetKnown
<1>3. asks => conn[c].left = Cardinality(Targets \ tried) /\ tried # Targets
  <2> SUFFICES ASSUME asks PROVE conn[c].left = Cardinality(Targets \ tried) /\ tried # Targets
      OBVIOUS
  <2>1. conn[c].left = Cardinality(Targets \ tried)
      BY <1>0, <1>1 DEF TriesLeft, Is
  <2>2. ASSUME tried = Targets PROVE FALSE
    <3>1. Targets \ tried = {}
        BY <2>2
    <3> QED BY <1>2, <2>1, <3>1, FS_EmptySet
  <2> QED BY <2>1, <2>2
<1>4. t \in Targets /\ (asks => t \notin tried)
  <2>1. CASE global
      BY <1>0, <1>1, <2>1 DEF TargetKnown
  <2>2. CASE ~global /\ NumTargets = 1
    <3>1. t = Target[0]
        BY <2>2
    <3>2. Target[0] \in Targets
        BY <2>2, TargetFacts
    <3> QED BY <2>2, <3>1, <3>2
  <2>3. CASE asks /\ setup.balancer = "rr"
    <3>1. t = RoundRobin(tried).target
        BY <2>3 DEF Selector
    <3> QED BY <1>0, <1>2, <1>3, <2>3, <3>1, RoundRobinFinds
  <2>4. CASE asks /\ setup.balancer # "rr"
    <3>1. t = LeastConn(tried)
        BY <2>4 DEF Selector
    <3> QED BY <1>0, <1>2, <1>3, <2>4, <3>1, LeastConnFinds
  <2> QED BY <1>2, <2>1, <2>2, <2>3, <2>4
<1> HIDE DEF t
<1>5. /\ lb' \in [pos : 0 .. NumTargets - 1, consumed : 0 .. 255]
      /\ lb'.consumed < Weight[Target[lb'.pos]]
  <2>1. CASE asks /\ setup.balancer = "rr"
      BY <1>0, <1>1, <1>2, <1>3, <2>1, RoundRobinFinds
  <2>2. CASE ~ (asks /\ setup.balancer = "rr")
      BY <1>0, <1>1, <2>2 DEF TypeOK, TurnWithinWeight
  <2> QED BY <2>1, <2>2
<1>6. marked \in SUBSET Targets /\ conn[c].left - 1 \in 0 .. Cardinality(Targets)
    BY <1>2, <1>4
<1>7. /\ Becomes(c, "selected") /\ conn'[c].target = t /\ conn'[c].left = conn[c].left - 1
      /\ conn'[c].tried = marked
  <2> HIDE DEF marked, tried, asks
  <2> DEFINE r == [conn[c] EXCEPT !.target = t, !.left = conn[c].left - 1,
                                  !.state = "selected", !.tried = marked]
  <2>1. /\ r \in ConnRecord /\ r.state = "selected" /\ r.target = t /\ r.left = conn[c].left - 1
        /\ r.tried = marked
      BY <1>2, <1>4, <1>6 DEF ConnRecord, States
  <2>2. conn' = [conn EXCEPT ![c] = r]
      BY <1>1
  <2> HIDE DEF r
  <2> QED BY <1>2, <2>1, <2>2 DEF Becomes
<1>8. ConnMoves(c)
    BY <1>4, <1>7 DEF ConnMoves, Becomes
<1>9. TriesMove(c)
  <2> SUFFICES ASSUME asks PROVE conn'[c].left = Cardinality(Targets \ conn'[c].tried)
      BY DEF TriesMove
  <2>1. Targets \ marked = (Targets \ tried) \ {t} /\ t \in Targets \ tried
      BY <1>4
  <2>2. IsFiniteSet(Targets \ tried)
      BY SocketPoolAssumption, FS_Subset
  <2>3. Cardinality((Targets \ tried) \ {t}) = Cardinality(Targets \ tried) - 1
      BY <2>1, <2>2, FS_RemoveElement
  <2> QED BY <1>3, <1>7, <2>1, <2>3
<1>10. CountsMove(c)
    BY <1>0, <1>1, <1>7 DEF CountsMove, Becomes, TypeOK, Counted, Out, Ind
<1>11. ThreadMoves(th, c)
    BY <1>0, <1>1, <1>7, ConnAssumption DEF ThreadMoves, TypeOK, Handled, Becomes
<1>12. Local(th, c)
    BY <1>1, <1>7, <1>8, <1>9, <1>10, <1>11 DEF Local, Becomes
<1>13. Core' /\ ListsAgree' /\ PooledExact' /\ CountersExact' /\ TriesLeft'
    BY <1>5, <1>12, LocalPreserves
<1> QED BY <1>5, <1>13 DEF IInv, BalancerInv, TurnWithinWeight

------------------------------------------------------------------------------
(* The theorems *)

LEMMA InitIInv == Init => IInv
<1> SUFFICES ASSUME Init PROVE IInv
    OBVIOUS
<1>1. /\ conn \in [Conns -> ConnRecord] /\ \A c \in Conns : conn[c].state = "free"
  <2>1. NoConn.state = "free"
      BY DEF NoConn
  <2> QED BY <2>1, Numbers DEF Init
<1>2. NumTargets \in Nat /\ NumTargets # 0 /\ Target[0] \in Targets
    BY TargetFacts
<1>3. TypeOK
  <2>1. lb \in [pos : 0 .. NumTargets - 1, consumed : 0 .. 255]
      BY <1>2 DEF Init
  <2>2. all \in Seq(Conns) /\ sockets \in [Targets -> Seq(Conns)] /\ old \subseteq Conns
      BY DEF Init
  <2>3. count \in Int /\ pooled_count \in Nat /\ leased_count \in [Targets -> Int]
      BY DEF Init
  <2>4. /\ busy \in [Threads -> {"no", "connect", "return", "lookup"} \cup Conns]
        /\ mutex \in Threads \cup {"none"} /\ want \in [Threads -> Targets \cup {"none"}]
      BY DEF Init
  <2>5. setup \in Scenarios /\ timer \in BOOLEAN /\ disposed \in BOOLEAN
      BY DEF Init
  <2> QED BY <1>1, <2>1, <2>2, <2>3, <2>4, <2>5 DEF TypeOK, ConnRecord
<1>4. Core
  <2>1. Held
      BY ConnAssumption DEF Init, Held
  <2>2. TargetKnown
      BY <1>1, ConnAssumption DEF Init, TargetKnown
  <2>3. MutexHeld /\ TimerLinked
      BY DEF Init, MutexHeld, TimerLinked
  <2> QED BY <1>3, <2>1, <2>2, <2>3 DEF Core
<1>5. ListsAgree
  <2>1. Elements(<<>>) = {} /\ Distinct(<<>>)
      BY DEF Elements, Distinct
  <2>2. Is({"pooled"}) = {}
      BY <1>1 DEF Is
  <2> QED BY <2>1, <2>2 DEF ListsAgree, Init
<1>6. PooledExact /\ CountersExact
  <2>1. Is({"pooled", "testing", "returning"}) = {} /\ Conns \ Free = {} /\ Is(Out) = {}
      BY <1>1 DEF Is, Free, Out
  <2>2. \A t \in Targets : {c \in Is(Out) : conn[c].target = t} = {}
      BY <2>1
  <2>3. PooledExact
      BY <2>1, FS_EmptySet DEF PooledExact, Init
  <2>4. GovernedExact
      BY <2>1, FS_EmptySet DEF GovernedExact, Init
  <2>5. LeasedExact
    <3> SUFFICES ASSUME NEW t \in Targets
                 PROVE  leased_count[t] = Cardinality({c \in Is(Out) : conn[c].target = t})
        BY DEF LeasedExact, Out
    <3> QED BY <2>2, FS_EmptySet DEF Init
  <2> QED BY <2>3, <2>4, <2>5 DEF CountersExact
<1>7. BalancerInv
  <2>1. TriesLeft
      BY <1>1 DEF TriesLeft, Is
  <2>2. lb.consumed = 0 /\ lb.pos = 0
      BY DEF Init
  <2>3. Weight[Target[0]] \in 1 .. 256
      BY <1>2, SocketPoolAssumption
  <2>4. TurnWithinWeight
      BY <2>2, <2>3 DEF TurnWithinWeight
  <2> QED BY <2>1, <2>4 DEF BalancerInv
<1> QED BY <1>4, <1>5, <1>6, <1>7 DEF IInv

LEMMA LocalStep ==
  ASSUME IInv, UNCHANGED lb, NEW th \in Threads, th \in setup.threads, NEW c \in Conns, Local(th, c)
  PROVE  IInv'
<1>1. lb' \in [pos : 0 .. NumTargets - 1, consumed : 0 .. 255]
    BY DEF IInv, Core, TypeOK
<1>2. Core' /\ ListsAgree' /\ PooledExact' /\ CountersExact' /\ TriesLeft'
    BY <1>1, LocalPreserves
<1> QED BY <1>2 DEF IInv, BalancerInv, TurnWithinWeight

LEMMA NextIInv == IInv /\ [Next]_vars => IInv'
<1> SUFFICES ASSUME IInv, [Next]_vars PROVE IInv'
    OBVIOUS
<1>0. setup.threads \subseteq Threads /\ TimerThread \in setup.threads
  <2>1. setup \in Scenarios
      BY DEF IInv, Core, TypeOK
  <2> QED BY <2>1, SocketPoolAssumption
<1>1. ASSUME NEW th \in setup.threads, NEW c \in Conns, Select(th, c) PROVE IInv'
    BY <1>0, <1>1, SelectStep
<1>2. ASSUME UNCHANGED lb, NEW th \in setup.threads, Running(th) PROVE IInv'
  <2>1. CASE CheckInConnect(th) \/ CheckInReturn(th)
      BY <1>0, <1>2, <2>1, ExpirySteps
  <2>2. CASE Pop(th)
      BY <1>0, <1>2, <2>2, PopStep
  <2>3. ASSUME NEW c \in Conns, TestAlive(th, c) \/ TestDead(th, c) \/ Miss(th, c) \/ TryConnect(th, c)
        PROVE  IInv'
      BY <1>0, <1>2, <2>3, LocalStep, TestAliveLocal, TestDeadLocal, MissLocal, TryConnectLocal
  <2>4. ASSUME NEW c \in Conns, StartConnect(th, c) \/ SocketFailed(th, c) PROVE IInv'
      BY <1>0, <1>2, <2>4, LocalStep, StartConnectLocal, SocketFailedLocal
  <2>5. ASSUME NEW c \in Conns, Insert(th, c) PROVE IInv'
      BY <1>0, <1>2, <2>5, InsertStep
  <2> QED BY <1>2, <2>1, <2>2, <2>3, <2>4, <2>5 DEF Running
<1>3. ASSUME UNCHANGED lb, NEW th \in setup.threads, NEW c \in Conns, Answer(th, c) PROVE IInv'
  <2>1. Local(th, c)
      BY <1>0, <1>3, ResolvedLocal, ResolveFailedLocal, ConnectedLocal, ConnectFailedLocal,
         HandshakeDoneLocal, HandshakeFailedLocal DEF Answer
  <2> QED BY <1>0, <1>3, <2>1, LocalStep
<1>4. ASSUME UNCHANGED lb, NEW th \in setup.threads, Application(th) PROVE IInv'
  <2>1. CASE \E t \in Targets \cup {"none"} : Connect(th, t)
      BY <1>4, <2>1, QuietSteps
  <2>2. ASSUME NEW c \in Conns, Cancel(th, c) \/ Return(th, c) \/ ReturnFailed(th, c) \/ DetachOrClose(th, c)
        PROVE  IInv'
    <3>1. Local(th, c)
        BY <1>0, <2>2, CancelLocal, ReturnLocal, ReturnFailedLocal, DetachOrCloseLocal
    <3> QED BY <1>0, <1>4, <3>1, LocalStep
  <2> QED BY <1>4, <2>1, <2>2 DEF Application
<1>5. ASSUME UNCHANGED lb, (\E c \in Conns : Age(c)) \/ OnTimeoutLocked PROVE IInv'
    BY <1>5, QuietSteps
<1>6. ASSUME UNCHANGED lb, OnTimeout PROVE IInv'
    BY <1>0, <1>6, ExpirySteps, SocketPoolAssumption
<1>7. ASSUME UNCHANGED lb, Dispose PROVE IInv'
    BY <1>7, DisposeStep
<1>8. CASE UNCHANGED vars
  <2>1. /\ setup' = setup /\ conn' = conn /\ busy' = busy /\ mutex' = mutex /\ want' = want
        /\ all' = all /\ sockets' = sockets /\ old' = old /\ timer' = timer /\ disposed' = disposed
        /\ count' = count /\ pooled_count' = pooled_count /\ leased_count' = leased_count /\ lb' = lb
      BY <1>8 DEF vars, lists, counters
  <2>2. Core'
      BY <2>1 DEF IInv, Core, TypeOK, Held, TargetKnown, MutexHeld, TimerLinked, global
  <2>3. ListsAgree' /\ PooledExact'
      BY <2>1 DEF IInv, ListsAgree, PooledExact, Is
  <2>4. CountersExact'
      BY <2>1 DEF IInv, CountersExact, GovernedExact, LeasedExact, Is, Free
  <2>5. BalancerInv'
      BY <2>1 DEF IInv, BalancerInv, TriesLeft, TurnWithinWeight, Is, global
  <2> QED BY <2>2, <2>3, <2>4, <2>5 DEF IInv
<1> QED BY <1>1, <1>2, <1>3, <1>4, <1>5, <1>6, <1>7, <1>8 DEF Next, Unbalanced

(* Whatever the threads, the targets, the failures and the order of the    *)
(* steps: the inductive invariant holds.                                   *)
THEOREM Invariance == Spec => []IInv
BY InitIInv, NextIInv, PTL DEF Spec

(* The two kinds of lists of socketpool.c agree, pooled_count is exact     *)
(* though it is updated outside of the mutex, and while a single thread    *)
(* uses the pool the timer that expires idle connections is linked.        *)
THEOREM PoolCorrect == Spec => []PoolInv
<1>1. IInv => PoolInv
    BY DEF IInv, Core, PoolInv, TimerLinked, IdleTimerLinked
<1> QED BY <1>1, Invariance, PTL

(* As long as no connect fails, none is cancelled and no pooled connection *)
(* is found dead, count and leased_count are what socketpool.h says of     *)
(* them.                                                                   *)
THEOREM CountersCorrect == Spec => []CountersExact
<1>1. IInv => CountersExact
    BY DEF IInv
<1> QED BY <1>1, Invariance, PTL

(* The balancers always find a target that was not tried, and the round    *)
(* robin keeps within the weights.                                         *)
THEOREM BalancerCorrect == Spec => []BalancerInv
<1>1. IInv => BalancerInv
    BY DEF IInv
<1> QED BY <1>1, Invariance, PTL
==============================================================================
