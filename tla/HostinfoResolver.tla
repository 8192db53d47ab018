--------------------------- MODULE HostinfoResolver ---------------------------
(***************************************************************************)
(* Asynchronous name resolution, lib/common/hostinfo.c: requests are put on *)
(* a process-wide list served by up to vhttp_hostinfo_max_threads detached *)
(* threads, which are started on demand and sleep on a condition variable; *)
(* answers go back to the loop of the caller as messages.                  *)
(*                                                                         *)
(* A critical section of queue.mutex is one step.  getaddrinfo and the     *)
(* send are outside of it, and a message sent is received (module          *)
(* MultithreadQueue).                                                      *)
(***************************************************************************)
EXTENDS Naturals, SequencesExt

CONSTANTS
    Threads,    \* the lookup threads there may ever be: max_threads of them
    Requests,   \* vhttp_hostinfo_getaddr_req_t objects; freed ones are reused
    None

ASSUME HostinfoAssumption ==
    /\ IsFiniteSet(Threads) /\ Threads # {} /\ IsFiniteSet(Requests)
    /\ None \notin Requests

VARIABLES
    pending,      \* queue.pending
    num_threads, num_threads_idle,
    thread,       \* "none", "start" (created, not yet run), "wait" (blocked in
                  \* pthread_cond_wait), "signalled", "lookup", "sent"
    job,          \* the request a thread looks up
    mail,         \* the answers on their way to the receiver
    cb,           \* requests whose _cb is not NULL
    allocated,    \* requests that are not freed
    outcome,      \* what the caller knows of a request
    short         \* pthread_create failed and requests have been waiting since

qvars == <<pending, num_threads, num_threads_idle, thread, job, short>>
rvars == <<mail, cb, allocated, outcome>>
vars == <<qvars, rvars>>

Is(state) == {t \in Threads : thread[t] = state}
Runnable == Is("start") \cup Is("signalled")
InList(r, s) == \E i \in DOMAIN s : s[i] = r

Init ==
    /\ pending = <<>> /\ num_threads = 0 /\ num_threads_idle = 0
    /\ thread = [t \in Threads |-> "none"] /\ job = [t \in Threads |-> None]
    /\ mail = <<>> /\ cb = {} /\ allocated = {}
    /\ outcome = [r \in Requests |-> "none"] /\ short = FALSE

------------------------------------------------------------------------------
\* Mutation: a thread that takes a request does not see to the next one.
CreateNoThread(list, idle, th) ==
    /\ thread' = th /\ num_threads_idle' = idle
    /\ UNCHANGED <<num_threads, short>>

\* create_lookup_thread_if_necessary, with the list, the idle count and the
\* thread states as they are when it is called.  pthread_create may fail; it
\* ends the process if there is no other thread.
CreateLookupThread(list, idle, th) ==
    IF idle # 0 \/ list = <<>> \/ num_threads = Cardinality(Threads)
    THEN /\ thread' = th /\ num_threads_idle' = idle
         /\ short' = (short /\ list # <<>>)
         /\ UNCHANGED num_threads
    ELSE \/ \E t \in Is("none") :
              /\ thread' = [th EXCEPT ![t] = "start"]
              /\ num_threads' = num_threads + 1 /\ num_threads_idle' = idle + 1
              /\ short' = FALSE
         \/ /\ num_threads # 0
            /\ thread' = th /\ num_threads_idle' = idle
            /\ short' = TRUE
            /\ UNCHANGED num_threads

\* pthread_cond_signal: one of the blocked threads, if there is one
SignalOne(th) ==
    IF \E t \in Threads : th[t] = "wait"
    THEN {[th EXCEPT ![t] = "signalled"] : t \in {u \in Threads : th[u] = "wait"}}
    ELSE {th}

\* Mutation: only the first request of the list signals.
GetAddrSignalsFirst(r) ==
    /\ r \notin allocated
    /\ allocated' = allocated \cup {r} /\ cb' = cb \cup {r}
    /\ outcome' = [outcome EXCEPT ![r] = "asked"]
    /\ pending' = Append(pending, r)
    /\ \E th \in IF pending = <<>> THEN SignalOne(thread) ELSE {thread} :
        CreateLookupThread(pending', num_threads_idle, th)
    /\ UNCHANGED <<job, mail>>

\* vhttp_hostinfo_getaddr.  The idle count includes threads that are signalled
\* already, and no thread is created while it is not zero.
GetAddr(r) ==
    /\ r \notin allocated
    /\ allocated' = allocated \cup {r} /\ cb' = cb \cup {r}
    /\ outcome' = [outcome EXCEPT ![r] = "asked"]
    /\ pending' = Append(pending, r)
    /\ \E th \in SignalOne(thread) :
        CreateLookupThread(pending', num_threads_idle, th)
    /\ UNCHANGED <<job, mail>>

\* Mutation: freed even if a lookup thread has it.
CancelFrees(r) ==
    /\ outcome[r] = "asked"
    /\ outcome' = [outcome EXCEPT ![r] = "cancelled"]
    /\ pending' = SelectSeq(pending, LAMBDA x : x # r)
    /\ allocated' = allocated \ {r}
    /\ UNCHANGED <<num_threads, num_threads_idle, thread, job, short, mail, cb>>

\* Mutation: _cb is left set.
CancelKeepsCallback(r) ==
    /\ outcome[r] = "asked"
    /\ outcome' = [outcome EXCEPT ![r] = "cancelled"]
    /\ UNCHANGED <<qvars, mail, allocated, cb>>

\* vhttp_hostinfo_getaddr_cancel, by the thread that asked and that owns the
\* receiver, as long as its callback was not called
Cancel(r) ==
    /\ outcome[r] = "asked"
    /\ outcome' = [outcome EXCEPT ![r] = "cancelled"]
    /\ cb' = cb \ {r}
    /\ \/ /\ \E i \in DOMAIN pending : pending[i] = r /\ pending' = RemoveAt(pending, i)
          /\ allocated' = allocated \ {r}
       \/ ~ InList(r, pending) /\ UNCHANGED <<pending, allocated>>
    /\ UNCHANGED <<num_threads, num_threads_idle, thread, job, short, mail>>

------------------------------------------------------------------------------
(* lookup_thread_main                                                      *)

\* Mutation: the last request of the list is taken.
TakeNewest(t, idle) ==
    /\ IF pending # <<>>
       THEN /\ pending' = SubSeq(pending, 1, Len(pending) - 1)
            /\ job' = [job EXCEPT ![t] = pending[Len(pending)]]
            /\ CreateLookupThread(Tail(pending), idle, [thread EXCEPT ![t] = "lookup"])
       ELSE /\ num_threads_idle' = idle + 1
            /\ thread' = [thread EXCEPT ![t] = "wait"]
            /\ UNCHANGED <<pending, job, num_threads, short>>
    /\ UNCHANGED rvars

\* one iteration of the inner loop, or back to pthread_cond_wait
TakeOrWait(t, idle) ==
    /\ IF pending # <<>>
       THEN /\ pending' = Tail(pending)
            /\ job' = [job EXCEPT ![t] = Head(pending)]
            /\ CreateLookupThread(Tail(pending), idle, [thread EXCEPT ![t] = "lookup"])
       ELSE /\ num_threads_idle' = idle + 1
            /\ thread' = [thread EXCEPT ![t] = "wait"]
            /\ UNCHANGED <<pending, job, num_threads, short>>
    /\ UNCHANGED rvars

\* the thread gets the mutex, for the first time or after pthread_cond_wait
Wakeup(t) ==
    /\ t \in Runnable
    /\ TakeOrWait(t, num_threads_idle - 1)

SpuriousWakeup(t) ==
    /\ thread[t] = "wait"
    /\ thread' = [thread EXCEPT ![t] = "signalled"]
    /\ UNCHANGED <<pending, num_threads, num_threads_idle, job, short, rvars>>

\* lookup_and_respond: getaddrinfo returned
Respond(t) ==
    /\ thread[t] = "lookup"
    /\ mail' = Append(mail, job[t])
    /\ thread' = [thread EXCEPT ![t] = "sent"]
    /\ job' = [job EXCEPT ![t] = None]
    /\ UNCHANGED <<pending, num_threads, num_threads_idle, short, cb, allocated, outcome>>

NextJob(t) ==
    /\ thread[t] = "sent"
    /\ TakeOrWait(t, num_threads_idle)

\* vhttp_hostinfo_getaddr_receiver, one message
Receive ==
    /\ mail # <<>>
    /\ LET r == Head(mail) IN
        /\ outcome' = IF r \in cb THEN [outcome EXCEPT ![r] = "called"] ELSE outcome
        /\ cb' = cb \ {r}
        /\ allocated' = allocated \ {r}
    /\ mail' = Tail(mail)
    /\ UNCHANGED qvars

------------------------------------------------------------------------------
ThreadStep(t) == Wakeup(t) \/ Respond(t) \/ NextJob(t)

Next ==
    \/ \E r \in Requests : GetAddr(r) \/ Cancel(r)
    \/ \E t \in Threads : ThreadStep(t) \/ SpuriousWakeup(t)
    \/ Receive

SafeSpec == Init /\ [][Next]_vars

\* Threads run, getaddrinfo returns, and the loop of the caller runs; nobody
\* has to ask or to cancel, and a blocked thread is not owed a wakeup.
Fairness == WF_vars(Receive) /\ \A t \in Threads : WF_vars(ThreadStep(t))

Spec == SafeSpec /\ Fairness

------------------------------------------------------------------------------
TypeOK ==
    /\ pending \in Seq(Requests) /\ mail \in Seq(Requests)
    /\ num_threads \in 0 .. Cardinality(Threads)
    /\ num_threads_idle \in 0 .. Cardinality(Threads)
    /\ thread \in [Threads -> {"none", "start", "wait", "signalled", "lookup", "sent"}]
    /\ job \in [Threads -> Requests \cup {None}]
    /\ cb \subseteq Requests /\ allocated \subseteq Requests
    /\ outcome \in [Requests -> {"none", "asked", "cancelled", "called"}]
    /\ short \in BOOLEAN

\* num_threads_idle counts the threads that will look at the list again without
\* being busy: blocked, signalled or not yet started.  It never wraps around.
IdleCount ==
    /\ num_threads = Cardinality(Threads \ Is("none"))
    /\ num_threads_idle = Cardinality(Is("wait") \cup Runnable)

\* No request is stranded, and none waits without need: while the list is not
\* empty a thread is about to look at it, or all threads are busy and there are
\* max_threads of them (or pthread_create failed).  No thread sleeps meanwhile,
\* although one signal may stand for several requests.
NoStrandedRequest ==
    pending # <<>> =>
        \/ Runnable # {}
        \/ /\ Is("wait") = {} /\ num_threads # 0
           /\ num_threads = Cardinality(Threads) \/ short

\* A sleeping thread was not forgotten: the others suffice for the list.
SleepersNotNeeded == Is("wait") # {} => Len(pending) <= Cardinality(Runnable)

\* What the threads know of each other through the counters and the condition
\* variable is right: create_lookup_thread_if_necessary decides by it.
ResolverInv == TypeOK /\ IdleCount /\ SleepersNotNeeded

\* A request is referred to from one place (the list, a thread, a message), and
\* from none once it is freed; a freed one was answered or cancelled.
OwnedOnce ==
    LET Places(r) == {<<"list", i>> : i \in {j \in DOMAIN pending : pending[j] = r}}
                     \cup {<<"mail", i>> : i \in {j \in DOMAIN mail : mail[j] = r}}
                     \cup {<<"job", t>> : t \in {u \in Threads : job[u] = r}}
    IN \A r \in Requests :
        /\ Cardinality(Places(r)) = IF r \in allocated THEN 1 ELSE 0
        /\ r \notin allocated => outcome[r] # "asked"

\* The callback of a cancelled request is never called, even if its answer was
\* on its way when vhttp_hostinfo_getaddr_cancel was called.
NoCallbackAfterCancel ==
    [][\A r \in Requests : outcome[r] = "cancelled" => outcome'[r] # "called"]_vars

\* Every request is answered or cancelled, and its memory freed.
EveryRequestFreed == \A r \in Requests : (r \in allocated) ~> (r \notin allocated)
==============================================================================
