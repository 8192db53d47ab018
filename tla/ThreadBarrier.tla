---------------------------- MODULE ThreadBarrier ----------------------------
(***************************************************************************)
(* vhttp_barrier_t of lib/common/multithread.c: vhttp_barrier_wait blocks  *)
(* until as many threads called it as the barrier was initialised for, plus *)
(* the ones vhttp_barrier_add announced.  The module has the state and the *)
(* operations of one barrier; Startup instantiates it for each of the two  *)
(* barriers of src/main.c.                                                 *)
(*                                                                         *)
(* One critical section of the mutex is one step; a thread blocked in      *)
(* pthread_cond_wait is woken by the broadcast or spuriously.  The second  *)
(* counter, _out_of_wait, only matters to vhttp_barrier_dispose, which has *)
(* no caller.                                                              *)
(***************************************************************************)
EXTENDS Integers

CONSTANT Threads   \* the threads that may call vhttp_barrier_wait

VARIABLES
    count,     \* _count
    waiter     \* where each thread is in vhttp_barrier_wait

\* vhttp_barrier_init
Init(n) ==
    /\ count = n
    /\ waiter = [t \in Threads |-> "before"]

\* Atomic, but not under the mutex, unlike the plain decrement in wait: the
\* only caller (ssl_setup_session_resumption) runs before any thread waits.
Add(delta) ==
    /\ count' = count + delta
    /\ UNCHANGED waiter

\* Mutation: pthread_cond_signal where pthread_cond_broadcast is needed.
BroadcastToOne(w) ==
    IF \E t \in Threads : w[t] = "blocked"
    THEN [w EXCEPT ![CHOOSE t \in Threads : w[t] = "blocked"] = "awake"]
    ELSE w

\* pthread_cond_broadcast
Broadcast(w) == [t \in Threads |-> IF w[t] = "blocked" THEN "awake" ELSE w[t]]

Wait(t) ==
    /\ waiter[t] = "before"
    /\ count' = count - 1
    /\ waiter' = IF count' = 0
                 THEN [Broadcast(waiter) EXCEPT ![t] = "released"]
                 ELSE [waiter EXCEPT ![t] = "blocked"]

SpuriousWakeup(t) ==
    /\ waiter[t] = "blocked"
    /\ waiter' = [waiter EXCEPT ![t] = "awake"]
    /\ UNCHANGED count

\* Mutation: an `if' instead of the `while'.
RecheckOnce(t) ==
    /\ waiter[t] = "awake"
    /\ waiter' = [waiter EXCEPT ![t] = "released"]
    /\ UNCHANGED count

\* the while around pthread_cond_wait
Recheck(t) ==
    /\ waiter[t] = "awake"
    /\ waiter' = [waiter EXCEPT ![t] = IF count # 0 THEN "blocked" ELSE "released"]
    /\ UNCHANGED count

\* past pthread_mutex_unlock
Leave(t) ==
    /\ waiter[t] = "released"
    /\ waiter' = [waiter EXCEPT ![t] = "out"]
    /\ UNCHANGED count
==============================================================================
