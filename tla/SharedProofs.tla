---------------------------- MODULE SharedProofs ----------------------------
(***************************************************************************)
(* Proofs about the two structures that threads share under a mutex: the   *)
(* queue of name resolution, for every number of threads and requests, and *)
(* the cache, for every set of threads, keys, entries and lengths, and     *)
(* every capacity and time to live.                                        *)
(*                                                                         *)
(* Name resolution: that no request is stranded needs that the counters    *)
(* are exact (a thread is created only if num_threads_idle is 0) and that  *)
(* a signal was sent for each request that a sleeping thread would have to *)
(* serve; both are kept together, by counting the thread that a step       *)
(* moves.  That requests are freed once needs that a request has one place *)
(* at a time.                                                              *)
(*                                                                         *)
(* Cache: the operations compose functions of the structure under the      *)
(* mutex, and so does the proof: Well and Counted are predicates of such a *)
(* structure.  They are weaker than the invariant in that the size may be  *)
(* anything, for a set exceeds the capacity before it purges; erase_ref,   *)
(* both loops of purge and the insertion of an entry keep them.            *)
(* CacheIndInv adds the bound on the size, which the purge at the end of a *)
(* step restores.                                                          *)
(***************************************************************************)
EXTENDS HostinfoResolver, Cache, Counting

------------------------------------------------------------------------------
(* Name resolution *)

(* The sets of threads that are counted, of the thread states th.           *)
Alive(th) == {t \in Threads : th[t] # "none"}
Idle(th) == {t \in Threads : th[t] \in {"start", "wait", "signalled"}}
Awake(th) == {t \in Threads : th[t] \in {"start", "signalled"}}
Asleep(th) == {t \in Threads : th[t] = "wait"}

States == {"none", "start", "wait", "signalled", "lookup", "sent"}

(* A thread that changes its state changes the counts by itself alone. *)
LEMMA OneThread ==
  ASSUME NEW th \in [Threads -> States], NEW th2 \in [Threads -> States], NEW t \in Threads,
         \A u \in Threads \ {t} : th2[u] = th[u]
  PROVE  /\ Cardinality(Alive(th)) \in Nat /\ Cardinality(Alive(th2)) \in Nat
         /\ Cardinality(Idle(th)) \in Nat /\ Cardinality(Idle(th2)) \in Nat
         /\ Cardinality(Awake(th)) \in Nat /\ Cardinality(Awake(th2)) \in Nat
         /\ Cardinality(Alive(th2)) = Cardinality(Alive(th)) + Ind(t \in Alive(th2)) - Ind(t \in Alive(th))
         /\ Cardinality(Idle(th2)) = Cardinality(Idle(th)) + Ind(t \in Idle(th2)) - Ind(t \in Idle(th))
         /\ Cardinality(Awake(th2)) = Cardinality(Awake(th)) + Ind(t \in Awake(th2)) - Ind(t \in Awake(th))
<1>1. IsFiniteSet(Threads)
    BY HostinfoAssumption
<1>2. /\ Alive(th) \in SUBSET Threads /\ Alive(th2) \in SUBSET Threads
      /\ \A v \in Threads \ {t} : v \in Alive(th) <=> v \in Alive(th2)
    BY DEF Alive
<1>3. /\ Idle(th) \in SUBSET Threads /\ Idle(th2) \in SUBSET Threads
      /\ \A v \in Threads \ {t} : v \in Idle(th) <=> v \in Idle(th2)
    BY DEF Idle
<1>4. /\ Awake(th) \in SUBSET Threads /\ Awake(th2) \in SUBSET Threads
      /\ \A v \in Threads \ {t} : v \in Awake(th) <=> v \in Awake(th2)
    BY DEF Awake
<1>5. /\ Cardinality(Alive(th)) \in Nat /\ Cardinality(Alive(th2)) \in Nat
      /\ Cardinality(Alive(th2)) = Cardinality(Alive(th)) + Ind(t \in Alive(th2)) - Ind(t \in Alive(th))
    BY <1>1, <1>2, OneChange
<1>6. /\ Cardinality(Idle(th)) \in Nat /\ Cardinality(Idle(th2)) \in Nat
      /\ Cardinality(Idle(th2)) = Cardinality(Idle(th)) + Ind(t \in Idle(th2)) - Ind(t \in Idle(th))
    BY <1>1, <1>3, OneChange
<1>7. /\ Cardinality(Awake(th)) \in Nat /\ Cardinality(Awake(th2)) \in Nat
      /\ Cardinality(Awake(th2)) = Cardinality(Awake(th)) + Ind(t \in Awake(th2)) - Ind(t \in Awake(th))
    BY <1>1, <1>4, OneChange
<1> QED BY <1>5, <1>6, <1>7

(* Part one of the inductive invariant: the counters are exact, and while a  *)
(* thread sleeps the awake ones suffice for the list.                        *)
Counts(list, num, idle, th) ==
    /\ num = Cardinality(Alive(th)) /\ idle = Cardinality(Idle(th))
    /\ Asleep(th) # {} => Len(list) <= Cardinality(Awake(th))

(* NoStrandedRequest of the list, the counter, the flag and the threads given. *)
Served(list, num, flag, th) ==
    list # <<>> =>
        \/ Awake(th) # {}
        \/ Asleep(th) = {} /\ num # 0 /\ (num = Cardinality(Threads) \/ flag)

(* The counts of any thread states are numbers, and all of them are zero only *)
(* for no thread at all.                                                      *)
LEMMA Sizes ==
  ASSUME NEW th \in [Threads -> States]
  PROVE  /\ Cardinality(Threads) \in Nat /\ Cardinality(Threads) # 0
         /\ Cardinality(Alive(th)) \in Nat /\ Cardinality(Alive(th)) <= Cardinality(Threads)
         /\ Cardinality(Idle(th)) \in Nat /\ Cardinality(Idle(th)) <= Cardinality(Threads)
         /\ Cardinality(Awake(th)) \in Nat
         /\ Cardinality(Idle(th)) = 0 => Idle(th) = {}
         /\ Idle(th) = {} => Cardinality(Idle(th)) = 0
         /\ Awake(th) = {} => Cardinality(Awake(th)) = 0
         /\ Idle(th) = Awake(th) \cup Asleep(th)
<1>1. IsFiniteSet(Threads) /\ Threads # {}
    BY HostinfoAssumption
<1>2. Alive(th) \in SUBSET Threads /\ Idle(th) \in SUBSET Threads /\ Awake(th) \in SUBSET Threads
    BY DEF Alive, Idle, Awake
<1>3. /\ IsFiniteSet(Alive(th)) /\ Cardinality(Alive(th)) <= Cardinality(Threads)
      /\ IsFiniteSet(Idle(th)) /\ Cardinality(Idle(th)) <= Cardinality(Threads)
      /\ IsFiniteSet(Awake(th))
    BY <1>1, <1>2, FS_Subset
<1>4. /\ Cardinality(Threads) \in Nat /\ Cardinality(Alive(th)) \in Nat
      /\ Cardinality(Idle(th)) \in Nat /\ Cardinality(Awake(th)) \in Nat
    BY <1>1, <1>3, FS_CardinalityType
<1>5. Cardinality(Threads) # 0
    BY <1>1, FS_EmptySet
<1>6. /\ Cardinality(Idle(th)) = 0 <=> Idle(th) = {}
      /\ Cardinality(Awake(th)) = 0 <=> Awake(th) = {}
    BY <1>3, FS_EmptySet
<1>7. Idle(th) = Awake(th) \cup Asleep(th)
    BY DEF Idle, Awake, Asleep
<1> QED BY <1>3, <1>4, <1>5, <1>6, <1>7

(* create_lookup_thread_if_necessary keeps the counts and leaves no request   *)
(* stranded, whatever was the case before.                                    *)
LEMMA Creates ==
  ASSUME NEW list \in Seq(Requests), NEW idle \in Nat, NEW th \in [Threads -> States],
         short \in BOOLEAN, Counts(list, num_threads, idle, th),
         \A t \in Threads : th[t] = "none" <=> thread[t] = "none",
         CreateLookupThread(list, idle, th)
  PROVE  /\ thread' \in [Threads -> States] /\ short' \in BOOLEAN
         /\ Counts(list, num_threads', num_threads_idle', thread')
         /\ Served(list, num_threads', short', thread')
         /\ \A t \in Threads : thread'[t] = th[t] \/ (th[t] = "none" /\ thread'[t] = "start")
<1>0. /\ Cardinality(Threads) \in Nat /\ Cardinality(Threads) # 0
      /\ Cardinality(Idle(th)) = 0 => Idle(th) = {}
      /\ Idle(th) = {} => Cardinality(Idle(th)) = 0
      /\ Awake(th) = {} => Cardinality(Awake(th)) = 0
      /\ Idle(th) = Awake(th) \cup Asleep(th)
    BY Sizes
<1>1. CASE idle # 0 \/ list = <<>> \/ num_threads = Cardinality(Threads)
  <2>1. /\ thread' = th /\ num_threads_idle' = idle /\ num_threads' = num_threads
        /\ short' = (short /\ list # <<>>)
      BY <1>1 DEF CreateLookupThread
  <2>2. /\ thread' \in [Threads -> States] /\ short' \in BOOLEAN
        /\ \A t \in Threads : thread'[t] = th[t]
        /\ Counts(list, num_threads', num_threads_idle', thread')
      BY <2>1
  <2>3. ASSUME list # <<>>, Awake(th) = {}
        PROVE  Asleep(th) = {} /\ num_threads = Cardinality(Threads)
    <3>1. Len(list) \in Nat /\ Len(list) # 0
        BY <2>3
    <3>2. Cardinality(Awake(th)) = 0
        BY <1>0, <2>3
    <3>3. Asleep(th) = {}
        BY <3>1, <3>2 DEF Counts
    <3>4. idle = 0
        BY <1>0, <2>3, <3>3 DEF Counts
    <3> QED BY <1>1, <2>3, <3>3, <3>4
  <2>4. Served(list, num_threads', short', thread')
      BY <1>0, <2>1, <2>3 DEF Served
  <2> QED BY <2>2, <2>4
<1>2. CASE ~ (idle # 0 \/ list = <<>> \/ num_threads = Cardinality(Threads))
  <2>0. Idle(th) = {} /\ Asleep(th) = {} /\ Awake(th) = {}
      BY <1>0, <1>2 DEF Counts
  <2>1. CASE /\ num_threads # 0
             /\ thread' = th /\ num_threads_idle' = idle
             /\ short' = TRUE /\ UNCHANGED num_threads
    <3>1. Counts(list, num_threads', num_threads_idle', thread')
        BY <2>1
    <3>2. Served(list, num_threads', short', thread')
        BY <2>0, <2>1 DEF Served
    <3> QED BY <2>1, <3>1, <3>2
  <2>2. CASE \E t \in Is("none") :
              /\ thread' = [th EXCEPT ![t] = "start"]
              /\ num_threads' = num_threads + 1 /\ num_threads_idle' = idle + 1
              /\ short' = FALSE
    <3>1. PICK t \in Is("none") :
              /\ thread' = [th EXCEPT ![t] = "start"]
              /\ num_threads' = num_threads + 1 /\ num_threads_idle' = idle + 1
              /\ short' = FALSE
        BY <2>2
    <3>2. t \in Threads /\ th[t] = "none"
        BY DEF Is
    <3>3. /\ thread' \in [Threads -> States] /\ thread'[t] = "start"
          /\ \A u \in Threads \ {t} : thread'[u] = th[u]
        BY <3>1, <3>2 DEF States
    <3>4. /\ t \in Alive(thread') /\ t \notin Alive(th) /\ t \in Idle(thread') /\ t \notin Idle(th)
          /\ t \in Awake(thread')
        BY <3>2, <3>3 DEF Alive, Idle, Awake
    <3>5. /\ Cardinality(Alive(thread')) = Cardinality(Alive(th)) + Ind(t \in Alive(thread')) - Ind(t \in Alive(th))
          /\ Cardinality(Idle(thread')) = Cardinality(Idle(th)) + Ind(t \in Idle(thread')) - Ind(t \in Idle(th))
          /\ Cardinality(Alive(th)) \in Nat /\ Cardinality(Idle(th)) \in Nat
        BY <3>2, <3>3, OneThread
    <3>6. /\ Cardinality(Alive(thread')) = Cardinality(Alive(th)) + 1
          /\ Cardinality(Idle(thread')) = Cardinality(Idle(th)) + 1
        BY <3>4, <3>5 DEF Ind
    <3>7. Asleep(thread') = {}
        BY <2>0, <3>3 DEF Asleep
    <3>8. Counts(list, num_threads', num_threads_idle', thread')
        BY <3>1, <3>6, <3>7 DEF Counts
    <3>9. Served(list, num_threads', short', thread')
        BY <3>4 DEF Served
    <3> QED BY <3>1, <3>2, <3>3, <3>8, <3>9
  <2> QED BY <1>2, <2>1, <2>2 DEF CreateLookupThread
<1> QED BY <1>1, <1>2

(* One thread changes its state and the list changes: what keeps the counts.  *)
LEMMA ThreadMoves ==
  ASSUME NEW th \in [Threads -> States], NEW th2 \in [Threads -> States], NEW t \in Threads,
         \A u \in Threads \ {t} : th2[u] = th[u],
         NEW list \in Seq(Requests), NEW list2 \in Seq(Requests), NEW num, NEW idle \in Nat,
         Counts(list, num, idle, th), th[t] # "none", th2[t] # "none",
         th2[t] = "wait" => list2 = <<>>,
         Len(list2) - Ind(t \in Awake(th2)) <= Len(list) - Ind(t \in Awake(th)) \/ list2 = <<>>
  PROVE  Counts(list2, num, idle + Ind(t \in Idle(th2)) - Ind(t \in Idle(th)), th2)
<1>1. /\ Cardinality(Awake(th)) \in Nat /\ Cardinality(Awake(th2)) \in Nat
      /\ Cardinality(Alive(th)) \in Nat
      /\ Cardinality(Alive(th2)) = Cardinality(Alive(th)) + Ind(t \in Alive(th2)) - Ind(t \in Alive(th))
      /\ Cardinality(Idle(th2)) = Cardinality(Idle(th)) + Ind(t \in Idle(th2)) - Ind(t \in Idle(th))
      /\ Cardinality(Awake(th2)) = Cardinality(Awake(th)) + Ind(t \in Awake(th2)) - Ind(t \in Awake(th))
    BY OneThread
<1>2. Ind(t \in Alive(th2)) = 1 /\ Ind(t \in Alive(th)) = 1
    BY DEF Alive, Ind
<1>3. num = Cardinality(Alive(th2))
    BY <1>1, <1>2 DEF Counts
<1>4. idle + Ind(t \in Idle(th2)) - Ind(t \in Idle(th)) = Cardinality(Idle(th2))
    BY <1>1 DEF Counts
<1>5. Len(list) \in Nat /\ Len(list2) \in Nat /\ (list2 = <<>> => Len(list2) = 0)
    OBVIOUS
<1>6. ASSUME Asleep(th2) # {} PROVE Len(list2) <= Cardinality(Awake(th2))
  <2>1. CASE list2 = <<>>
      BY <1>1, <1>5, <2>1
  <2>2. CASE list2 # <<>>
    <3>1. th2[t] # "wait" /\ Asleep(th) # {}
        BY <1>6, <2>2 DEF Asleep
    <3>2. Len(list) <= Cardinality(Awake(th))
        BY <3>1 DEF Counts
    <3>3. Ind(t \in Awake(th2)) \in Nat /\ Ind(t \in Awake(th)) \in Nat
        BY DEF Ind
    <3> QED BY <1>1, <1>5, <2>2, <3>2, <3>3
  <2> QED BY <2>1, <2>2
<1> QED BY <1>3, <1>4, <1>6 DEF Counts

-----------------------------------------------------------------------------
(* Lists without duplicates *)

LEMMA Appended ==
  ASSUME NEW s \in Seq(Requests), NEW r \in Requests, Distinct(s), ~ InList(r, s)
  PROVE  /\ Append(s, r) \in Seq(Requests) /\ Len(Append(s, r)) = Len(s) + 1
         /\ Distinct(Append(s, r)) /\ Append(s, r) # <<>>
         /\ \A x : InList(x, Append(s, r)) <=> InList(x, s) \/ x = r
<1>1. /\ Append(s, r) \in Seq(Requests) /\ Len(Append(s, r)) = Len(s) + 1 /\ Append(s, r) # <<>>
      /\ DOMAIN Append(s, r) = 1 .. Len(s) + 1 /\ DOMAIN s = 1 .. Len(s) /\ Len(s) \in Nat
      /\ \A i \in 1 .. Len(s) : Append(s, r)[i] = s[i]
      /\ Append(s, r)[Len(s) + 1] = r
    OBVIOUS
<1>2. \A i \in DOMAIN Append(s, r) : i \in DOMAIN s \/ i = Len(s) + 1
    BY <1>1
<1>3. Distinct(Append(s, r))
    BY <1>1, <1>2 DEF Distinct, InList
<1>4. \A x : InList(x, Append(s, r)) <=> InList(x, s) \/ x = r
    BY <1>1, <1>2 DEF InList
<1> QED BY <1>1, <1>3, <1>4

LEMMA Taken ==
  ASSUME NEW s \in Seq(Requests), s # <<>>, Distinct(s)
  PROVE  /\ Tail(s) \in Seq(Requests) /\ Len(Tail(s)) = Len(s) - 1 /\ Distinct(Tail(s))
         /\ Head(s) \in Requests /\ InList(Head(s), s) /\ Len(s) \in Nat
         /\ \A x : InList(x, Tail(s)) <=> InList(x, s) /\ x # Head(s)
<1>1. /\ Tail(s) \in Seq(Requests) /\ Len(Tail(s)) = Len(s) - 1 /\ Len(s) \in Nat /\ Len(s) >= 1
      /\ Head(s) = s[1] /\ s[1] \in Requests /\ DOMAIN s = 1 .. Len(s)
      /\ DOMAIN Tail(s) = 1 .. Len(s) - 1
      /\ \A i \in 1 .. Len(s) - 1 : Tail(s)[i] = s[i + 1]
    OBVIOUS
<1>2. \A i \in DOMAIN Tail(s) : i + 1 \in DOMAIN s /\ Tail(s)[i] = s[i + 1] /\ i + 1 # 1
    BY <1>1
<1>3. \A i \in DOMAIN s : i = 1 \/ (i - 1 \in DOMAIN Tail(s) /\ Tail(s)[i - 1] = s[i])
    BY <1>1
<1>4. Distinct(Tail(s))
    BY <1>1, <1>2 DEF Distinct
<1>5. 1 \in DOMAIN s
    BY <1>1
<1>6. \A x : InList(x, Tail(s)) => InList(x, s) /\ x # s[1]
    BY <1>2, <1>5 DEF InList, Distinct
<1>7. \A x : InList(x, s) /\ x # s[1] => InList(x, Tail(s))
    BY <1>3 DEF InList
<1> QED BY <1>1, <1>4, <1>5, <1>6, <1>7 DEF InList

LEMMA Removed ==
  ASSUME NEW s \in Seq(Requests), NEW k \in DOMAIN s, Distinct(s)
  PROVE  /\ RemoveAt(s, k) \in Seq(Requests) /\ Len(RemoveAt(s, k)) = Len(s) - 1
         /\ Distinct(RemoveAt(s, k)) /\ Len(s) \in Nat
         /\ \A x : InList(x, RemoveAt(s, k)) <=> InList(x, s) /\ x # s[k]
<1> DEFINE a == SubSeq(s, 1, k - 1)
           b == SubSeq(s, k + 1, Len(s))
           c == RemoveAt(s, k)
<1>1. Len(s) \in Nat /\ k \in 1 .. Len(s) /\ DOMAIN s = 1 .. Len(s)
    OBVIOUS
<1>2. /\ a \in Seq(Requests) /\ Len(a) = k - 1 /\ \A i \in 1 .. k - 1 : a[i] = s[i]
    BY <1>1
<1>3. /\ b \in Seq(Requests) /\ Len(b) = Len(s) - k /\ \A i \in 1 .. Len(s) - k : b[i] = s[k + i]
    BY <1>1
<1>4. c = a \o b
    BY DEF RemoveAt
<1> HIDE DEF a, b, c
<1>5. /\ c \in Seq(Requests) /\ Len(c) = Len(s) - 1 /\ DOMAIN c = 1 .. Len(s) - 1
      /\ \A i \in 1 .. Len(s) - 1 : c[i] = IF i <= k - 1 THEN a[i] ELSE b[i - (k - 1)]
  <2>1. /\ (a \o b) \in Seq(Requests) /\ Len(a \o b) = Len(a) + Len(b)
        /\ \A i \in 1 .. Len(a) + Len(b) : (a \o b)[i] = IF i <= Len(a) THEN a[i] ELSE b[i - Len(a)]
      BY <1>2, <1>3
  <2>2. Len(a) + Len(b) = Len(s) - 1
      BY <1>1, <1>2, <1>3
  <2> QED BY <1>2, <1>4, <2>1, <2>2
<1>6. \A i \in DOMAIN c : i < k => i \in DOMAIN s /\ c[i] = s[i]
  <2>1. SUFFICES ASSUME NEW i \in DOMAIN c, i < k PROVE i \in DOMAIN s /\ c[i] = s[i]
      OBVIOUS
  <2>2. i \in 1 .. Len(s) - 1 /\ i <= k - 1 /\ i \in 1 .. k - 1
      BY <1>1, <1>5, <2>1
  <2> QED BY <1>1, <1>2, <1>5, <2>2
<1>7. \A i \in DOMAIN c : i >= k => i + 1 \in DOMAIN s /\ c[i] = s[i + 1]
  <2>1. SUFFICES ASSUME NEW i \in DOMAIN c, i >= k
                 PROVE  i + 1 \in DOMAIN s /\ c[i] = s[i + 1]
      OBVIOUS
  <2>2. i \in 1 .. Len(s) - 1 /\ ~ (i <= k - 1) /\ i - (k - 1) \in 1 .. Len(s) - k
      BY <1>1, <1>5, <2>1
  <2>3. c[i] = b[i - (k - 1)] /\ b[i - (k - 1)] = s[k + (i - (k - 1))]
      BY <1>3, <1>5, <2>2
  <2>4. k + (i - (k - 1)) = i + 1 /\ i + 1 \in DOMAIN s
      BY <1>1, <2>2
  <2> QED BY <2>3, <2>4
<1>8. Distinct(c)
  <2>1. SUFFICES ASSUME NEW i \in DOMAIN c, NEW j \in DOMAIN c, c[i] = c[j] PROVE i = j
      BY DEF Distinct
  <2>2. i \in Nat /\ j \in Nat
      BY <1>5
  <2> QED BY <1>1, <1>6, <1>7, <2>1, <2>2 DEF Distinct
<1>9. \A x : InList(x, c) => InList(x, s) /\ x # s[k]
  <2>1. SUFFICES ASSUME NEW x, NEW i \in DOMAIN c, c[i] = x PROVE InList(x, s) /\ x # s[k]
      BY DEF InList
  <2>2. i \in Nat
      BY <1>5
  <2>3. PICK j \in DOMAIN s : j # k /\ s[j] = x
      BY <1>1, <1>6, <1>7, <2>1, <2>2
  <2> QED BY <2>3 DEF InList, Distinct
<1>10. \A x : InList(x, s) /\ x # s[k] => InList(x, c)
  <2>1. SUFFICES ASSUME NEW x, NEW j \in DOMAIN s, s[j] = x, j # k PROVE InList(x, c)
      BY DEF InList
  <2>2. CASE j < k
    <3>1. j \in DOMAIN c
        BY <1>1, <1>5, <2>2
    <3> QED BY <1>6, <2>1, <2>2, <3>1 DEF InList
  <2>3. CASE j > k
    <3>1. j - 1 \in DOMAIN c /\ j - 1 >= k /\ (j - 1) + 1 = j
        BY <1>1, <1>5, <2>3
    <3> QED BY <1>7, <2>1, <3>1 DEF InList
  <2> QED BY <1>1, <2>1, <2>2, <2>3
<1> QED BY <1>1, <1>5, <1>8, <1>9, <1>10 DEF c

-----------------------------------------------------------------------------
(* The inductive invariant *)

Types ==
    /\ pending \in Seq(Requests) /\ mail \in Seq(Requests)
    /\ thread \in [Threads -> States] /\ job \in [Threads -> Requests \cup {None}]
    /\ cb \subseteq Requests /\ allocated \subseteq Requests
    /\ outcome \in [Requests -> {"none", "asked", "cancelled", "called"}]
    /\ short \in BOOLEAN

(* Where a request may be, and how often. *)
LookedUp(r) == \E t \in Threads : job[t] = r
Owned ==
    /\ Distinct(pending) /\ Distinct(mail)
    /\ \A t, u \in Threads : job[t] # None /\ job[t] = job[u] => t = u
    /\ \A r \in Requests :
        /\ r \in allocated <=> InList(r, pending) \/ InList(r, mail) \/ LookedUp(r)
        /\ ~ (InList(r, pending) /\ InList(r, mail))
        /\ LookedUp(r) => ~ InList(r, pending) /\ ~ InList(r, mail)

(* A thread has a request exactly while it looks it up. *)
Busy == \A t \in Threads : job[t] # None <=> thread[t] = "lookup"

(* _cb is set exactly as long as the caller waits. *)
Callbacks ==
    /\ cb \subseteq allocated
    /\ \A r \in Requests : r \in cb <=> outcome[r] = "asked"

Inv ==
    /\ Types /\ Counts(pending, num_threads, num_threads_idle, thread)
    /\ Served(pending, num_threads, short, thread)
    /\ Owned /\ Busy /\ Callbacks

LEMMA InitInv == Init => Inv
<1> SUFFICES ASSUME Init PROVE Inv
    OBVIOUS
<1>1. Types
  <2>1. <<>> \in Seq(Requests)
      OBVIOUS
  <2>2. thread \in [Threads -> States] /\ job \in [Threads -> Requests \cup {None}]
      BY DEF Init, States
  <2>3. outcome \in [Requests -> {"none", "asked", "cancelled", "called"}]
      BY DEF Init
  <2> QED BY <2>1, <2>2, <2>3 DEF Init, Types
<1>2. Alive(thread) = {} /\ Idle(thread) = {} /\ Asleep(thread) = {}
    BY DEF Init, Alive, Idle, Asleep
<1>3. Counts(pending, num_threads, num_threads_idle, thread)
    BY <1>2, FS_EmptySet DEF Init, Counts
<1>4. Served(pending, num_threads, short, thread)
    BY DEF Init, Served
<1>5. \A i : i \notin DOMAIN pending /\ i \notin DOMAIN mail
    BY DEF Init
<1>6. Owned
  <2>1. Distinct(pending) /\ Distinct(mail)
      BY <1>5 DEF Distinct
  <2>2. \A r : ~ InList(r, pending) /\ ~ InList(r, mail)
      BY <1>5 DEF InList
  <2>3. \A t \in Threads : job[t] = None
      BY DEF Init
  <2>4. allocated = {}
      BY DEF Init
  <2>5. \A r \in Requests : ~ LookedUp(r)
      BY <2>3, HostinfoAssumption DEF LookedUp
  <2> QED BY <2>1, <2>2, <2>3, <2>4, <2>5 DEF Owned
<1>7. Busy /\ Callbacks
    BY DEF Init, Busy, Callbacks
<1> QED BY <1>1, <1>3, <1>4, <1>6, <1>7 DEF Inv

(* vhttp_hostinfo_getaddr: the signal makes up for the request. *)
LEMMA GetAddrInv == ASSUME Inv, NEW r \in Requests, GetAddr(r) PROVE Inv'
<1>1. /\ r \notin allocated /\ allocated' = allocated \cup {r} /\ cb' = cb \cup {r}
      /\ outcome' = [outcome EXCEPT ![r] = "asked"] /\ pending' = Append(pending, r)
      /\ job' = job /\ mail' = mail
    BY DEF GetAddr
<1>2. ~ InList(r, pending) /\ Distinct(pending) /\ pending \in Seq(Requests)
    BY <1>1 DEF Inv, Owned, Types
<1>3. /\ pending' \in Seq(Requests) /\ Len(pending') = Len(pending) + 1
      /\ Distinct(pending') /\ pending' # <<>>
      /\ \A x : InList(x, pending') <=> InList(x, pending) \/ x = r
    BY <1>1, <1>2, Appended
<1>4. PICK th \in SignalOne(thread) : CreateLookupThread(pending', num_threads_idle, th)
    BY DEF GetAddr
<1>5. /\ thread \in [Threads -> States] /\ Len(pending) \in Nat
      /\ Counts(pending, num_threads, num_threads_idle, thread)
    BY DEF Inv, Types
<1>6. num_threads_idle \in Nat
    BY <1>5, Sizes DEF Counts
<1>7. /\ th \in [Threads -> States] /\ Counts(pending', num_threads, num_threads_idle, th)
      /\ \A t \in Threads : th[t] = thread[t] \/ (thread[t] = "wait" /\ th[t] = "signalled")
  <2>1. CASE \E t \in Threads : thread[t] = "wait"
    <3>1. PICK t \in Threads : thread[t] = "wait" /\ th = [thread EXCEPT ![t] = "signalled"]
        BY <2>1 DEF SignalOne
    <3>2. /\ th \in [Threads -> States] /\ th[t] = "signalled"
          /\ \A u \in Threads \ {t} : th[u] = thread[u]
        BY <1>5, <3>1 DEF States
    <3>3. /\ Ind(t \in Awake(th)) = 1 /\ Ind(t \in Awake(thread)) = 0
          /\ Ind(t \in Idle(th)) = 1 /\ Ind(t \in Idle(thread)) = 1
        BY <3>1, <3>2 DEF Awake, Idle, Ind
    <3>4. Len(pending') - Ind(t \in Awake(th)) <= Len(pending) - Ind(t \in Awake(thread))
        BY <1>3, <1>5, <3>3
    <3>5. Counts(pending', num_threads, num_threads_idle + Ind(t \in Idle(th)) - Ind(t \in Idle(thread)), th)
        BY <1>2, <1>3, <1>5, <1>6, <3>1, <3>2, <3>4, ThreadMoves
    <3>6. num_threads_idle + Ind(t \in Idle(th)) - Ind(t \in Idle(thread)) = num_threads_idle
        BY <1>6, <3>3
    <3> QED BY <3>1, <3>2, <3>5, <3>6
  <2>2. CASE ~ \E t \in Threads : thread[t] = "wait"
    <3>1. th = thread /\ Asleep(thread) = {}
        BY <2>2 DEF SignalOne, Asleep
    <3> QED BY <1>5, <3>1 DEF Counts
  <2> QED BY <2>1, <2>2
<1>8. /\ thread' \in [Threads -> States] /\ short' \in BOOLEAN
      /\ Counts(pending', num_threads', num_threads_idle', thread')
      /\ Served(pending', num_threads', short', thread')
      /\ \A t \in Threads : thread'[t] = th[t] \/ (th[t] = "none" /\ thread'[t] = "start")
  <2>1. \A t \in Threads : th[t] = "none" <=> thread[t] = "none"
      BY <1>7
  <2>2. short \in BOOLEAN
      BY DEF Inv, Types
  <2> QED BY <1>3, <1>4, <1>6, <1>7, <2>1, <2>2, Creates
<1>9. Types'
    BY <1>1, <1>3, <1>8 DEF Inv, Types
<1>10. Owned'
  <2>1. \A x \in Requests : LookedUp(x)' <=> LookedUp(x)
      BY <1>1 DEF LookedUp
  <2>2. ~ InList(r, mail) /\ ~ LookedUp(r)
      BY <1>1 DEF Inv, Owned
  <2> QED BY <1>1, <1>3, <2>1, <2>2 DEF Inv, Owned
<1>11. Busy'
    BY <1>1, <1>7, <1>8 DEF Inv, Busy
<1>12. Callbacks'
    BY <1>1 DEF Inv, Types, Callbacks
<1> QED BY <1>8, <1>9, <1>10, <1>11, <1>12 DEF Inv

(* vhttp_hostinfo_getaddr_cancel: a request that is on the list is nowhere    *)
(* else, so that it may be freed.                                             *)
LEMMA CancelInv == ASSUME Inv, NEW r \in Requests, Cancel(r) PROVE Inv'
<1>1. /\ outcome' = [outcome EXCEPT ![r] = "cancelled"] /\ cb' = cb \ {r}
      /\ num_threads' = num_threads /\ num_threads_idle' = num_threads_idle /\ thread' = thread
      /\ job' = job /\ short' = short /\ mail' = mail
    BY DEF Cancel
<1>2. \A x \in Requests : LookedUp(x)' <=> LookedUp(x)
    BY <1>1 DEF LookedUp
<1>3. Busy'
    BY <1>1 DEF Inv, Busy
<1>4. CASE ~ InList(r, pending) /\ UNCHANGED <<pending, allocated>>
  <2>1. Types' /\ Callbacks'
      BY <1>1, <1>4 DEF Inv, Types, Callbacks
  <2>2. Owned'
      BY <1>1, <1>2, <1>4 DEF Inv, Owned
  <2> QED BY <1>1, <1>3, <1>4, <2>1, <2>2 DEF Inv
<1>5. CASE /\ \E i \in DOMAIN pending : pending[i] = r /\ pending' = RemoveAt(pending, i)
           /\ allocated' = allocated \ {r}
  <2>1. PICK i \in DOMAIN pending : pending[i] = r /\ pending' = RemoveAt(pending, i)
      BY <1>5
  <2>2. pending \in Seq(Requests) /\ Distinct(pending) /\ InList(r, pending)
      BY <2>1 DEF Inv, Types, Owned, InList
  <2>3. /\ pending' \in Seq(Requests) /\ Len(pending') = Len(pending) - 1
        /\ Distinct(pending') /\ Len(pending) \in Nat
        /\ \A x : InList(x, pending') <=> InList(x, pending) /\ x # r
      BY <2>1, <2>2, Removed
  <2>4. Types' /\ Callbacks'
      BY <1>1, <1>5, <2>3 DEF Inv, Types, Callbacks
  <2>5. Owned'
      BY <1>1, <1>2, <1>5, <2>2, <2>3 DEF Inv, Owned
  <2>6. Cardinality(Awake(thread)) \in Nat
      BY Sizes DEF Inv, Types
  <2>7. Counts(pending', num_threads, num_threads_idle, thread)
      BY <2>3, <2>6 DEF Inv, Counts
  <2>8. pending # <<>>
      BY <2>1, <2>2
  <2>9. Served(pending', num_threads, short, thread)
      BY <2>8 DEF Inv, Served
  <2> QED BY <1>1, <1>3, <2>4, <2>5, <2>7, <2>9 DEF Inv
<1> QED BY <1>4, <1>5 DEF Cancel

(* A thread takes the head of the list or goes to sleep; idle is the count    *)
(* of the idle ones without it.                                               *)
LEMMA TakeOrWaitInv ==
  ASSUME Inv, NEW t \in Threads, NEW idle \in Nat, TakeOrWait(t, idle),
         idle = num_threads_idle - Ind(t \in Idle(thread)),
         thread[t] \in {"start", "signalled", "sent"}
  PROVE  Inv'
<1>0. /\ Types /\ Owned /\ Busy /\ Callbacks /\ pending \in Seq(Requests)
      /\ thread \in [Threads -> States] /\ short \in BOOLEAN
      /\ Counts(pending, num_threads, num_threads_idle, thread)
    BY DEF Inv, Types
<1>1. mail' = mail /\ cb' = cb /\ allocated' = allocated /\ outcome' = outcome
    BY DEF TakeOrWait, rvars
<1>2. Callbacks'
    BY <1>0, <1>1 DEF Callbacks
<1>3. num_threads_idle \in Nat /\ thread[t] # "none" /\ job[t] = None
    BY <1>0, Sizes DEF Counts, Busy
<1>4. CASE pending = <<>>
  <2>1. /\ thread' = [thread EXCEPT ![t] = "wait"] /\ num_threads_idle' = idle + 1
        /\ pending' = pending /\ job' = job /\ num_threads' = num_threads /\ short' = short
      BY <1>4 DEF TakeOrWait
  <2>2. /\ thread' \in [Threads -> States] /\ thread'[t] = "wait"
        /\ \A u \in Threads \ {t} : thread'[u] = thread[u]
      BY <1>0, <2>1 DEF States
  <2>3. Ind(t \in Idle(thread')) = 1 /\ Ind(t \in Idle(thread)) \in {0, 1}
      BY <2>2 DEF Idle, Ind
  <2>4. num_threads_idle' = num_threads_idle + Ind(t \in Idle(thread')) - Ind(t \in Idle(thread))
      BY <1>3, <2>1, <2>3
  <2>5. Counts(pending, num_threads, num_threads_idle + Ind(t \in Idle(thread')) - Ind(t \in Idle(thread)), thread')
      BY <1>0, <1>3, <1>4, <2>2, ThreadMoves
  <2>6. Served(pending, num_threads, short, thread')
      BY <1>4 DEF Served
  <2>7. Types'
      BY <1>0, <1>1, <2>1, <2>2 DEF Types
  <2>8. Busy'
      BY <1>0, <1>3, <2>1, <2>2 DEF Busy
  <2>9. Owned'
      BY <1>0, <1>1, <2>1 DEF Owned, LookedUp
  <2> QED BY <1>2, <2>1, <2>4, <2>5, <2>6, <2>7, <2>8, <2>9 DEF Inv
<1>5. CASE pending # <<>>
  <2> DEFINE th == [thread EXCEPT ![t] = "lookup"]
  <2>1. /\ pending' = Tail(pending) /\ job' = [job EXCEPT ![t] = Head(pending)]
        /\ CreateLookupThread(Tail(pending), idle, th)
      BY <1>5 DEF TakeOrWait
  <2>2. /\ pending' \in Seq(Requests) /\ Len(pending') = Len(pending) - 1 /\ Distinct(pending')
        /\ Head(pending) \in Requests /\ InList(Head(pending), pending) /\ Len(pending) \in Nat
        /\ \A x : InList(x, pending') <=> InList(x, pending) /\ x # Head(pending)
      BY <1>0, <1>5, <2>1, Taken DEF Owned
  <2>3. /\ th \in [Threads -> States] /\ th[t] = "lookup"
        /\ \A u \in Threads \ {t} : th[u] = thread[u]
      BY <1>0 DEF States
  <2>4. CreateLookupThread(pending', idle, th)
      BY <2>1
  <2> HIDE DEF th
  <2>5. /\ Ind(t \in Idle(th)) = 0 /\ Ind(t \in Awake(th)) = 0
        /\ Ind(t \in Awake(thread)) \in {0, 1} /\ Ind(t \in Idle(thread)) \in {0, 1}
      BY <2>3 DEF Idle, Awake, Ind
  <2>6. idle = num_threads_idle + Ind(t \in Idle(th)) - Ind(t \in Idle(thread))
      BY <1>3, <2>5
  <2>7. Len(pending') - Ind(t \in Awake(th)) <= Len(pending) - Ind(t \in Awake(thread))
      BY <2>2, <2>5
  <2>8. Counts(pending', num_threads, num_threads_idle + Ind(t \in Idle(th)) - Ind(t \in Idle(thread)), th)
      BY <1>0, <1>3, <2>2, <2>3, <2>7, ThreadMoves
  <2>9. \A u \in Threads : th[u] = "none" <=> thread[u] = "none"
      BY <1>3, <2>3
  <2>10. /\ thread' \in [Threads -> States] /\ short' \in BOOLEAN
         /\ Counts(pending', num_threads', num_threads_idle', thread')
         /\ Served(pending', num_threads', short', thread')
         /\ \A u \in Threads : thread'[u] = th[u] \/ (th[u] = "none" /\ thread'[u] = "start")
      BY <1>0, <2>2, <2>3, <2>4, <2>6, <2>8, <2>9, Creates
  <2>11. Types'
      BY <1>0, <1>1, <2>1, <2>2, <2>10 DEF Types
  <2>12. job'[t] = Head(pending) /\ \A u \in Threads \ {t} : job'[u] = job[u]
      BY <1>0, <2>1 DEF Types
  <2>13. Head(pending) # None
      BY <2>2, HostinfoAssumption
  <2>14. Busy'
      BY <1>0, <2>3, <2>10, <2>12, <2>13 DEF Busy
  <2>15. Owned'
    <3>1. \A x \in Requests : LookedUp(x)' <=> LookedUp(x) \/ x = Head(pending)
        BY <1>3, <2>12, HostinfoAssumption DEF LookedUp
    <3>2. ~ LookedUp(Head(pending)) /\ ~ InList(Head(pending), mail) /\ Head(pending) \in allocated
        BY <1>0, <2>2 DEF Owned
    <3>3. \A u, v \in Threads : job'[u] # None /\ job'[u] = job'[v] => u = v
        BY <1>0, <2>12, <3>2 DEF Owned, LookedUp
    <3> QED BY <1>0, <1>1, <2>2, <3>1, <3>2, <3>3 DEF Owned
  <2> QED BY <1>2, <2>10, <2>11, <2>14, <2>15 DEF Inv
<1> QED BY <1>4, <1>5

(* A spurious wakeup only makes one more thread look at the list. *)
LEMMA SpuriousWakeupInv == ASSUME Inv, NEW t \in Threads, SpuriousWakeup(t) PROVE Inv'
<1>1. /\ thread[t] = "wait" /\ thread' = [thread EXCEPT ![t] = "signalled"]
      /\ pending' = pending /\ num_threads' = num_threads /\ num_threads_idle' = num_threads_idle
      /\ job' = job /\ short' = short
      /\ mail' = mail /\ cb' = cb /\ allocated' = allocated /\ outcome' = outcome
    BY DEF SpuriousWakeup, rvars
<1>2. /\ Types /\ pending \in Seq(Requests) /\ Len(pending) \in Nat /\ thread \in [Threads -> States]
      /\ Counts(pending, num_threads, num_threads_idle, thread) /\ Busy /\ Callbacks /\ Owned
    BY DEF Inv, Types
<1>3. /\ thread' \in [Threads -> States] /\ thread'[t] = "signalled"
      /\ \A u \in Threads \ {t} : thread'[u] = thread[u]
    BY <1>1, <1>2 DEF States
<1>4. /\ Ind(t \in Awake(thread')) = 1 /\ Ind(t \in Awake(thread)) = 0 /\ t \in Awake(thread')
      /\ Ind(t \in Idle(thread')) = 1 /\ Ind(t \in Idle(thread)) = 1
    BY <1>1, <1>3 DEF Awake, Idle, Ind
<1>5. num_threads_idle \in Nat
    BY <1>2, Sizes DEF Counts
<1>6. Counts(pending, num_threads, num_threads_idle + Ind(t \in Idle(thread')) - Ind(t \in Idle(thread)), thread')
  <2>1. Len(pending) - Ind(t \in Awake(thread')) <= Len(pending) - Ind(t \in Awake(thread))
      BY <1>2, <1>4
  <2> QED BY <1>1, <1>2, <1>3, <1>5, <2>1, ThreadMoves
<1>7. num_threads_idle + Ind(t \in Idle(thread')) - Ind(t \in Idle(thread)) = num_threads_idle
    BY <1>4, <1>5
<1>8. Served(pending, num_threads, short, thread')
    BY <1>4 DEF Served
<1>9. Types' /\ Busy' /\ Callbacks' /\ Owned'
  <2>1. Types' /\ Callbacks'
      BY <1>1, <1>2, <1>3 DEF Types, Callbacks
  <2>2. Busy'
      BY <1>1, <1>2, <1>3 DEF Busy
  <2>3. Owned'
      BY <1>1, <1>2 DEF Owned, LookedUp
  <2> QED BY <2>1, <2>2, <2>3
<1> QED BY <1>1, <1>6, <1>7, <1>8, <1>9 DEF Inv

(* lookup_and_respond: the request moves from the thread to the messages. *)
LEMMA RespondInv == ASSUME Inv, NEW t \in Threads, Respond(t) PROVE Inv'
<1>1. /\ thread[t] = "lookup" /\ thread' = [thread EXCEPT ![t] = "sent"]
      /\ mail' = Append(mail, job[t]) /\ job' = [job EXCEPT ![t] = None]
      /\ pending' = pending /\ num_threads' = num_threads /\ num_threads_idle' = num_threads_idle
      /\ short' = short /\ cb' = cb /\ allocated' = allocated /\ outcome' = outcome
    BY DEF Respond
<1>2. /\ Types /\ pending \in Seq(Requests) /\ Len(pending) \in Nat /\ thread \in [Threads -> States]
      /\ Counts(pending, num_threads, num_threads_idle, thread) /\ Busy /\ Callbacks /\ Owned
      /\ mail \in Seq(Requests) /\ job[t] \in Requests /\ Distinct(mail)
      /\ Served(pending, num_threads, short, thread)
    BY <1>1 DEF Inv, Types, Busy, Owned
<1>3. /\ thread' \in [Threads -> States] /\ thread'[t] = "sent"
      /\ \A u \in Threads \ {t} : thread'[u] = thread[u]
    BY <1>1, <1>2 DEF States
<1>4. /\ Ind(t \in Awake(thread')) = 0 /\ Ind(t \in Awake(thread)) = 0
      /\ Ind(t \in Idle(thread')) = 0 /\ Ind(t \in Idle(thread)) = 0
    BY <1>1, <1>3 DEF Awake, Idle, Ind
<1>5. num_threads_idle \in Nat
    BY <1>2, Sizes DEF Counts
<1>6. Counts(pending, num_threads, num_threads_idle + Ind(t \in Idle(thread')) - Ind(t \in Idle(thread)), thread')
  <2>1. Len(pending) - Ind(t \in Awake(thread')) <= Len(pending) - Ind(t \in Awake(thread))
      BY <1>2, <1>4
  <2> QED BY <1>1, <1>2, <1>3, <1>5, <2>1, ThreadMoves
<1>7. num_threads_idle + Ind(t \in Idle(thread')) - Ind(t \in Idle(thread)) = num_threads_idle
    BY <1>4, <1>5
<1>8. Served(pending, num_threads, short, thread')
  <2>1. Awake(thread') = Awake(thread) /\ Asleep(thread') = Asleep(thread)
      BY <1>1, <1>3 DEF Awake, Asleep
  <2> QED BY <1>2, <2>1 DEF Served
<1>9. LookedUp(job[t])
    BY DEF LookedUp
<1>10. ~ InList(job[t], mail) /\ ~ InList(job[t], pending) /\ job[t] \in allocated
    BY <1>2, <1>9 DEF Owned
<1>11. /\ mail' \in Seq(Requests) /\ Distinct(mail')
       /\ \A x : InList(x, mail') <=> InList(x, mail) \/ x = job[t]
    BY <1>1, <1>2, <1>10, Appended
<1>12. Types' /\ Callbacks'
    BY <1>1, <1>2, <1>3, <1>11 DEF Types, Callbacks
<1>13. job'[t] = None /\ \A u \in Threads \ {t} : job'[u] = job[u]
    BY <1>1, <1>2 DEF Types
<1>14. Busy'
    BY <1>2, <1>3, <1>13 DEF Busy
<1>15. Owned'
  <2>1. job[t] # None
      BY <1>2, HostinfoAssumption
  <2>2. \A u \in Threads : job[u] = job[t] => u = t
      BY <1>2, <2>1 DEF Owned
  <2>3. \A x \in Requests : LookedUp(x)' <=> LookedUp(x) /\ x # job[t]
      BY <1>13, <2>2, HostinfoAssumption DEF LookedUp
  <2>4. \A u, v \in Threads : job'[u] # None /\ job'[u] = job'[v] => u = v
      BY <1>2, <1>13 DEF Owned
  <2> QED BY <1>1, <1>2, <1>10, <1>11, <2>3, <2>4 DEF Owned
<1> QED BY <1>1, <1>6, <1>7, <1>8, <1>12, <1>14, <1>15 DEF Inv

(* vhttp_hostinfo_getaddr_receiver frees what nobody else refers to. *)
LEMMA ReceiveInv == ASSUME Inv, Receive PROVE Inv'
<1> DEFINE r == Head(mail)
<1>1. /\ mail # <<>> /\ mail' = Tail(mail) /\ cb' = cb \ {r} /\ allocated' = allocated \ {r}
      /\ outcome' = IF r \in cb THEN [outcome EXCEPT ![r] = "called"] ELSE outcome
      /\ pending' = pending /\ num_threads' = num_threads /\ num_threads_idle' = num_threads_idle
      /\ thread' = thread /\ job' = job /\ short' = short
    BY DEF Receive, qvars
<1>2. Types /\ mail \in Seq(Requests) /\ Distinct(mail) /\ Owned /\ Callbacks
    BY DEF Inv, Types, Owned
<1>3. /\ mail' \in Seq(Requests) /\ Distinct(mail') /\ r \in Requests /\ InList(r, mail)
      /\ \A x : InList(x, mail') <=> InList(x, mail) /\ x # r
    BY <1>1, <1>2, Taken
<1> HIDE DEF r
<1>4. Types'
    BY <1>1, <1>2, <1>3 DEF Types
<1>5. Callbacks'
  <2>1. \A x \in Requests : x # r => outcome'[x] = outcome[x]
      BY <1>1, <1>2 DEF Types
  <2>2. outcome'[r] # "asked"
      BY <1>1, <1>2, <1>3 DEF Types, Callbacks
  <2> QED BY <1>1, <1>2, <2>1, <2>2 DEF Callbacks
<1>6. Owned'
  <2>1. \A x \in Requests : LookedUp(x)' <=> LookedUp(x)
      BY <1>1 DEF LookedUp
  <2> QED BY <1>1, <1>2, <1>3, <2>1 DEF Owned
<1>7. Busy'
    BY <1>1 DEF Inv, Busy
<1> QED BY <1>1, <1>4, <1>5, <1>6, <1>7 DEF Inv

-----------------------------------------------------------------------------
LEMMA NextInv == Inv /\ [Next]_vars => Inv'
<1> SUFFICES ASSUME Inv, [Next]_vars PROVE Inv'
    OBVIOUS
<1>1. ASSUME NEW r \in Requests, GetAddr(r) PROVE Inv'
    BY <1>1, GetAddrInv
<1>2. ASSUME NEW r \in Requests, Cancel(r) PROVE Inv'
    BY <1>2, CancelInv
<1>3. ASSUME NEW t \in Threads, Wakeup(t) PROVE Inv'
  <2>1. t \in Runnable /\ TakeOrWait(t, num_threads_idle - 1)
      BY <1>3 DEF Wakeup
  <2>2. /\ thread[t] \in {"start", "signalled"} /\ t \in Idle(thread)
        /\ thread \in [Threads -> States]
        /\ Counts(pending, num_threads, num_threads_idle, thread)
      BY <2>1 DEF Runnable, Is, Idle, Inv, Types
  <2>3. num_threads_idle \in Nat /\ num_threads_idle # 0
      BY <2>2, Sizes DEF Counts
  <2>4. num_threads_idle - 1 \in Nat
      BY <2>3
  <2>5. num_threads_idle - 1 = num_threads_idle - Ind(t \in Idle(thread))
      BY <2>2 DEF Ind
  <2> QED BY <2>1, <2>2, <2>4, <2>5, TakeOrWaitInv
<1>4. ASSUME NEW t \in Threads, NextJob(t) PROVE Inv'
  <2>1. thread[t] = "sent" /\ TakeOrWait(t, num_threads_idle)
      BY <1>4 DEF NextJob
  <2>2. /\ t \notin Idle(thread) /\ thread \in [Threads -> States]
        /\ Counts(pending, num_threads, num_threads_idle, thread)
      BY <2>1 DEF Idle, Inv, Types
  <2>3. num_threads_idle \in Nat
      BY <2>2, Sizes DEF Counts
  <2>4. num_threads_idle = num_threads_idle - Ind(t \in Idle(thread))
      BY <2>2, <2>3 DEF Ind
  <2> QED BY <2>1, <2>3, <2>4, TakeOrWaitInv
<1>5. ASSUME NEW t \in Threads, Respond(t) PROVE Inv'
    BY <1>5, RespondInv
<1>6. ASSUME NEW t \in Threads, SpuriousWakeup(t) PROVE Inv'
    BY <1>6, SpuriousWakeupInv
<1>7. CASE Receive
    BY <1>7, ReceiveInv
<1>8. CASE UNCHANGED vars
  <2>1. /\ pending' = pending /\ num_threads' = num_threads /\ num_threads_idle' = num_threads_idle
        /\ thread' = thread /\ job' = job /\ short' = short
        /\ mail' = mail /\ cb' = cb /\ allocated' = allocated /\ outcome' = outcome
      BY <1>8 DEF vars, qvars, rvars
  <2>2. Types' /\ Callbacks' /\ Busy'
      BY <2>1 DEF Inv, Types, Callbacks, Busy
  <2>3. Owned'
      BY <2>1 DEF Inv, Owned, LookedUp
  <2> QED BY <2>1, <2>2, <2>3 DEF Inv
<1> QED BY <1>1, <1>2, <1>3, <1>4, <1>5, <1>6, <1>7, <1>8 DEF Next, ThreadStep

LEMMA InvHolds == SafeSpec => []Inv
<1> QED BY InitInv, NextInv, PTL DEF SafeSpec

(* The counters and the condition variable of hostinfo.c agree with what the *)
(* threads do: num_threads and num_threads_idle are exact, and no thread is  *)
(* left asleep that the list has need of.                                    *)
THEOREM ResolverCounts == SafeSpec => []ResolverInv
<1>1. Inv => ResolverInv
  <2> SUFFICES ASSUME Inv PROVE ResolverInv
      OBVIOUS
  <2>1. thread \in [Threads -> States] /\ Counts(pending, num_threads, num_threads_idle, thread)
      BY DEF Inv, Types
  <2>2. /\ Threads \ Is("none") = Alive(thread) /\ Is("wait") \cup Runnable = Idle(thread)
        /\ Runnable = Awake(thread) /\ Is("wait") = Asleep(thread)
      BY DEF Is, Runnable, Alive, Idle, Awake, Asleep
  <2>3. IdleCount /\ SleepersNotNeeded
      BY <2>1, <2>2 DEF Counts, IdleCount, SleepersNotNeeded
  <2>4. /\ num_threads \in 0 .. Cardinality(Threads)
        /\ num_threads_idle \in 0 .. Cardinality(Threads)
      BY <2>1, Sizes DEF Counts
  <2>5. TypeOK
      BY <2>4 DEF Inv, Types, TypeOK, States
  <2> QED BY <2>3, <2>5 DEF ResolverInv
<1> QED BY <1>1, InvHolds, PTL

(* No request is stranded: while vhttp_hostinfo_getaddr's list is not empty, *)
(* a thread is about to look at it or as many as there may be are busy.      *)
THEOREM NothingStranded == SafeSpec => []NoStrandedRequest
<1>1. Inv => NoStrandedRequest
  <2>1. Runnable = Awake(thread) /\ Is("wait") = Asleep(thread)
      BY DEF Is, Runnable, Awake, Asleep
  <2> QED BY <2>1 DEF Inv, Served, NoStrandedRequest
<1> QED BY <1>1, InvHolds, PTL

(* A request object is referred to from exactly one place until it is freed, *)
(* and from none after: what makes free in cancel and in the receiver safe.  *)
THEOREM RequestsOwned == SafeSpec => []OwnedOnce
<1>1. Inv => OwnedOnce
  <2> SUFFICES ASSUME Inv PROVE OwnedOnce
      OBVIOUS
  <2> DEFINE Places(r) == {<<"list", i>> : i \in {j \in DOMAIN pending : pending[j] = r}}
                     \cup {<<"mail", i>> : i \in {j \in DOMAIN mail : mail[j] = r}}
                     \cup {<<"job", t>> : t \in {u \in Threads : job[u] = r}}
  <2>1. SUFFICES ASSUME NEW r \in Requests
                 PROVE  /\ Cardinality(Places(r)) = IF r \in allocated THEN 1 ELSE 0
                        /\ r \notin allocated => outcome[r] # "asked"
      BY DEF OwnedOnce
  <2>2. r \notin allocated => outcome[r] # "asked"
      BY DEF Inv, Callbacks
  <2>3. /\ r \in allocated <=> InList(r, pending) \/ InList(r, mail) \/ LookedUp(r)
        /\ ~ (InList(r, pending) /\ InList(r, mail))
        /\ LookedUp(r) => ~ InList(r, pending) /\ ~ InList(r, mail)
        /\ Distinct(pending) /\ Distinct(mail) /\ r # None
        /\ \A t, u \in Threads : job[t] # None /\ job[t] = job[u] => t = u
      BY HostinfoAssumption DEF Inv, Owned
  <2>4. CASE r \notin allocated
    <3>1. Places(r) = {}
        BY <2>3, <2>4 DEF InList, LookedUp
    <3> QED BY <2>2, <2>4, <3>1, FS_EmptySet
  <2>5. CASE r \in allocated
    <3>1. \E p : Places(r) = {p}
      <4>1. CASE InList(r, pending)
        <5>1. PICK i \in DOMAIN pending : pending[i] = r
            BY <4>1 DEF InList
        <5>2. {j \in DOMAIN pending : pending[j] = r} = {i}
            BY <2>3, <5>1 DEF Distinct
        <5>3. {j \in DOMAIN mail : mail[j] = r} = {} /\ {u \in Threads : job[u] = r} = {}
            BY <2>3, <4>1 DEF InList, LookedUp
        <5>4. Places(r) = {<<"list", i>>}
            BY <5>2, <5>3
        <5> QED BY <5>4
      <4>2. CASE InList(r, mail)
        <5>1. PICK i \in DOMAIN mail : mail[i] = r
            BY <4>2 DEF InList
        <5>2. {j \in DOMAIN mail : mail[j] = r} = {i}
            BY <2>3, <5>1 DEF Distinct
        <5>3. {j \in DOMAIN pending : pending[j] = r} = {} /\ {u \in Threads : job[u] = r} = {}
            BY <2>3, <4>2 DEF InList, LookedUp
        <5>4. Places(r) = {<<"mail", i>>}
            BY <5>2, <5>3
        <5> QED BY <5>4
      <4>3. CASE LookedUp(r)
        <5>1. PICK t \in Threads : job[t] = r
            BY <4>3 DEF LookedUp
        <5>2. {u \in Threads : job[u] = r} = {t}
            BY <2>3, <5>1
        <5>3. {j \in DOMAIN pending : pending[j] = r} = {} /\ {j \in DOMAIN mail : mail[j] = r} = {}
            BY <2>3, <4>3 DEF InList
        <5>4. Places(r) = {<<"job", t>>}
            BY <5>2, <5>3
        <5> QED BY <5>4
      <4> QED BY <2>3, <2>5, <4>1, <4>2, <4>3
    <3>2. Cardinality(Places(r)) = 1
        BY <3>1, FS_Singleton
    <3> QED BY <2>5, <3>2
  <2> QED BY <2>4, <2>5
<1> QED BY <1>1, InvHolds, PTL

(* The callback of a request is not called after vhttp_hostinfo_getaddr_cancel *)
(* returned, however far its lookup had come.                                  *)
THEOREM CancelledStaysSilent == SafeSpec => NoCallbackAfterCancel
<1>1. ASSUME Inv, [Next]_vars, NEW r \in Requests, outcome[r] = "cancelled"
      PROVE  outcome'[r] # "called"
  <2>1. outcome \in [Requests -> {"none", "asked", "cancelled", "called"}] /\ r \notin cb
      BY <1>1 DEF Inv, Types, Callbacks
  <2>2. ASSUME NEW x \in Requests, GetAddr(x) \/ Cancel(x) PROVE outcome'[r] # "called"
      BY <1>1, <2>1, <2>2 DEF GetAddr, Cancel
  <2>3. ASSUME NEW t \in Threads, ThreadStep(t) \/ SpuriousWakeup(t) PROVE outcome' = outcome
      BY <2>3 DEF ThreadStep, Wakeup, NextJob, TakeOrWait, Respond, SpuriousWakeup, rvars
  <2>4. CASE Receive
    <3>1. outcome' = IF Head(mail) \in cb THEN [outcome EXCEPT ![Head(mail)] = "called"] ELSE outcome
        BY <2>4 DEF Receive
    <3> QED BY <1>1, <2>1, <3>1
  <2>5. CASE UNCHANGED vars
      BY <1>1, <2>5 DEF vars, rvars
  <2> QED BY <1>1, <2>2, <2>3, <2>4, <2>5 DEF Next
<1>2. Inv /\ [Next]_vars => [\A r \in Requests : outcome[r] = "cancelled" => outcome'[r] # "called"]_vars
    BY <1>1
<1> QED BY <1>2, InvHolds, PTL DEF SafeSpec, NoCallbackAfterCancel

------------------------------------------------------------------------------
(* The cache *)


------------------------------------------------------------------------------
(* Sums *)

\* what is counted for one element of S
Share(f, x) == {x} \X (1 .. f[x])

LEMMA ShareFacts ==
  ASSUME NEW f, NEW x, f[x] \in Nat
  PROVE  IsFiniteSet(Share(f, x)) /\ Cardinality(Share(f, x)) = f[x]
<1>1. IsFiniteSet(1 .. f[x]) /\ Cardinality(1 .. f[x]) = f[x]
    BY FS_Interval
<1>2. IsFiniteSet({x}) /\ Cardinality({x}) = 1
    BY FS_Singleton
<1>3. /\ IsFiniteSet({x} \X (1 .. f[x]))
      /\ Cardinality({x} \X (1 .. f[x])) = Cardinality({x}) * Cardinality(1 .. f[x])
    BY <1>1, <1>2, FS_Product
<1> QED BY <1>1, <1>2, <1>3 DEF Share

LEMMA SharesFinite ==
  ASSUME NEW f, NEW S, IsFiniteSet(S), \A x \in S : f[x] \in Nat
  PROVE  /\ IsFiniteSet(UNION {Share(f, x) : x \in S})
         /\ Total(f, S) \in Nat
         /\ Total(f, S) = Cardinality(UNION {Share(f, x) : x \in S})
<1> DEFINE U == {Share(f, x) : x \in S}
           g == [x \in S |-> Share(f, x)]
<1>1. g \in Surjection(S, U)
    BY DEF Surjection
<1>2. IsFiniteSet(U)
    BY <1>1, FS_Surjection
<1>3. \A T \in U : IsFiniteSet(T)
    BY ShareFacts
<1>4. IsFiniteSet(UNION U)
  <2> HIDE DEF U
  <2> QED BY <1>2, <1>3, FS_UNION
<1>5. Total(f, S) = Cardinality(UNION U)
    BY DEF Total, Share
<1> QED BY <1>4, <1>5, FS_CardinalityType

(* The sum over the empty set, over one element, over two disjoint sets. *)
LEMMA TotalEmpty ==
  ASSUME NEW f
  PROVE  Total(f, {}) = 0
<1>1. UNION {{x} \X (1 .. f[x]) : x \in {}} = {}
    OBVIOUS
<1> QED BY <1>1, FS_EmptySet DEF Total

LEMMA TotalOne ==
  ASSUME NEW f, NEW x, f[x] \in Nat
  PROVE  Total(f, {x}) = f[x]
<1>1. UNION {{y} \X (1 .. f[y]) : y \in {x}} = Share(f, x)
    BY DEF Share
<1> QED BY <1>1, ShareFacts DEF Total

LEMMA TotalUnion ==
  ASSUME NEW f, NEW A, NEW B, IsFiniteSet(A), IsFiniteSet(B), A \cap B = {},
         \A x \in A \cup B : f[x] \in Nat
  PROVE  Total(f, A \cup B) = Total(f, A) + Total(f, B)
<1> DEFINE Parts(S) == UNION {Share(f, x) : x \in S}
<1>1. Parts(A \cup B) = Parts(A) \cup Parts(B)
    OBVIOUS
<1>2. Parts(A) \cap Parts(B) = {}
    BY DEF Share
<1>3. /\ IsFiniteSet(Parts(A)) /\ Total(f, A) = Cardinality(Parts(A)) /\ Total(f, A) \in Nat
      /\ IsFiniteSet(Parts(B)) /\ Total(f, B) = Cardinality(Parts(B)) /\ Total(f, B) \in Nat
    BY SharesFinite
<1>4. Total(f, A \cup B) = Cardinality(Parts(A \cup B))
  <2>1. IsFiniteSet(A \cup B)
      BY FS_Union
  <2> QED BY <2>1, SharesFinite
<1> HIDE DEF Parts
<1>5. Cardinality(Parts(A) \cup Parts(B))
        = Cardinality(Parts(A)) + Cardinality(Parts(B)) - Cardinality(Parts(A) \cap Parts(B))
    BY <1>3, FS_Union
<1>6. Cardinality(Parts(A) \cap Parts(B)) = 0
    BY <1>2, FS_EmptySet
<1>7. Cardinality(Parts(A \cup B)) = Cardinality(Parts(A) \cup Parts(B))
    BY <1>1
<1> QED BY <1>3, <1>4, <1>5, <1>6, <1>7

LEMMA TotalSame ==
  ASSUME NEW f, NEW g, NEW S, \A x \in S : f[x] = g[x]
  PROVE  Total(f, S) = Total(g, S)
<1>1. {{x} \X (1 .. f[x]) : x \in S} = {{x} \X (1 .. g[x]) : x \in S}
    OBVIOUS
<1> QED BY <1>1 DEF Total

LEMMA TotalSplit ==
  ASSUME NEW f, NEW S, IsFiniteSet(S), \A x \in S : f[x] \in Nat, NEW T \in SUBSET S
  PROVE  /\ Total(f, T) \in Nat /\ Total(f, S \ T) \in Nat
         /\ Total(f, S) = Total(f, T) + Total(f, S \ T)
<1>1. IsFiniteSet(T) /\ IsFiniteSet(S \ T)
    BY FS_Subset
<1>2. T \cup (S \ T) = S
    OBVIOUS
<1>3. Total(f, T \cup (S \ T)) = Total(f, T) + Total(f, S \ T)
    BY <1>1, TotalUnion
<1>4. Total(f, T) \in Nat /\ Total(f, S \ T) \in Nat
    BY <1>1, SharesFinite
<1> QED BY <1>2, <1>3, <1>4

(* One summand changes. *)
LEMMA TotalChange ==
  ASSUME NEW f, NEW g, NEW S, IsFiniteSet(S), NEW u \in S,
         \A x \in S : f[x] \in Nat /\ g[x] \in Nat,
         \A x \in S \ {u} : f[x] = g[x]
  PROVE  Total(g, S) = Total(f, S) + g[u] - f[u] /\ Total(f, S) \in Nat /\ f[u] <= Total(f, S)
<1>1. /\ Total(f, S) = Total(f, {u}) + Total(f, S \ {u}) /\ Total(f, S \ {u}) \in Nat
      /\ Total(g, S) = Total(g, {u}) + Total(g, S \ {u})
  <2>1. {u} \in SUBSET S
      OBVIOUS
  <2>2. (\A x \in S : f[x] \in Nat) /\ (\A x \in S : g[x] \in Nat)
      OBVIOUS
  <2>3. Total(f, S) = Total(f, {u}) + Total(f, S \ {u})
      BY <2>1, <2>2, TotalSplit
  <2>4. Total(f, S \ {u}) \in Nat
      BY <2>2, FS_Subset, SharesFinite
  <2>5. Total(g, S) = Total(g, {u}) + Total(g, S \ {u})
      BY <2>1, <2>2, TotalSplit
  <2> QED BY <2>3, <2>4, <2>5
<1>2. Total(f, S \ {u}) = Total(g, S \ {u})
    BY TotalSame
<1>3. Total(f, {u}) = f[u] /\ Total(g, {u}) = g[u]
    BY TotalOne
<1>4. f[u] \in Nat /\ g[u] \in Nat
    OBVIOUS
<1> QED BY <1>1, <1>2, <1>3, <1>4

------------------------------------------------------------------------------
(* The structure under the mutex *)

Entry == [key : Keys \cup {"none"}, len : Lengths \cup {0}, at : 0 .. MaxTime,
          early : BOOLEAN, refcnt : Nat]

Structure == [table : SUBSET Refs, lru : Seq(Refs), age : Seq(Refs), size : Int,
              ref : [Refs -> Entry]]

(* The lists are in the table and the size is what is in it; nothing is said *)
(* about the capacity, which a set exceeds before it purges.                *)
Well(s) ==
    /\ s \in Structure
    /\ Distinct(s.lru) /\ Elements(s.lru) = s.table
    /\ Distinct(s.age) /\ Elements(s.age) = s.table
    /\ \A r, q \in s.table : s.ref[r].key = s.ref[q].key => r = q
    /\ s.size = TotalLength(s, s.table)

HeldBy(h, r) == Total([th \in Users |-> h[th][r]], Users)

Counted(s, h) ==
    \A r \in Refs : s.ref[r].refcnt = (IF r \in s.table THEN 1 ELSE 0) + HeldBy(h, r)

HeldCounts == [Users -> [Refs -> 0 .. MaxHeld]]

LEMMA HeldByType ==
  ASSUME NEW h \in HeldCounts, NEW r \in Refs
  PROVE  HeldBy(h, r) \in Nat
<1> DEFINE f == [th \in Users |-> h[th][r]]
<1>1. \A th \in Users : f[th] \in Nat
    BY CacheAssumption DEF HeldCounts
<1> QED BY <1>1, CacheAssumption, SharesFinite DEF HeldBy

LEMMA LengthSplit ==
  ASSUME NEW s, s.ref \in [Refs -> Entry], NEW S \in SUBSET Refs, NEW T \in SUBSET S
  PROVE  /\ TotalLength(s, T) \in Nat /\ TotalLength(s, S \ T) \in Nat
         /\ TotalLength(s, S) = TotalLength(s, T) + TotalLength(s, S \ T)
<1> DEFINE f == [r \in Refs |-> s.ref[r].len]
<1>1. \A r \in S : f[r] \in Nat
  <2>1. Lengths \cup {0} \subseteq Nat
      BY CacheAssumption
  <2>2. \A r \in S : f[r] = s.ref[r].len /\ s.ref[r] \in Entry
      OBVIOUS
  <2>3. \A rec \in Entry : rec.len \in Nat
      BY <2>1 DEF Entry
  <2> QED BY <2>2, <2>3
<1>2. IsFiniteSet(S)
    BY CacheAssumption, FS_Subset
<1>3. TotalLength(s, T) = Total(f, T) /\ TotalLength(s, S) = Total(f, S)
      /\ TotalLength(s, S \ T) = Total(f, S \ T)
    BY DEF TotalLength
<1> HIDE DEF f
<1> QED BY <1>1, <1>2, <1>3, TotalSplit

LEMMA LengthSame ==
  ASSUME NEW s, NEW t, NEW S \in SUBSET Refs, \A r \in S : s.ref[r].len = t.ref[r].len
  PROVE  TotalLength(s, S) = TotalLength(t, S)
<1> DEFINE f == [r \in Refs |-> s.ref[r].len]
           g == [r \in Refs |-> t.ref[r].len]
<1>1. \A r \in S : f[r] = g[r]
    OBVIOUS
<1>2. TotalLength(s, S) = Total(f, S) /\ TotalLength(t, S) = Total(g, S)
    BY DEF TotalLength
<1> HIDE DEF f, g
<1> QED BY <1>1, <1>2, TotalSame

(* vhttp_cache_release of an entry that somebody refers to. *)
LEMMA DropFacts ==
  ASSUME NEW rec \in Entry, rec.refcnt >= 1
  PROVE  Drop(rec) \in Entry /\ Drop(rec).refcnt = rec.refcnt - 1
<1>1. NoRef \in Entry /\ NoRef.refcnt = 0
    BY CacheAssumption DEF NoRef, Entry
<1>2. CASE rec.refcnt = 1
    BY <1>1, <1>2 DEF Drop
<1>3. CASE rec.refcnt # 1
  <2>1. Drop(rec) = [rec EXCEPT !.refcnt = @ - 1]
      BY <1>3 DEF Drop
  <2>2. rec.refcnt - 1 \in Nat
      BY DEF Entry
  <2> QED BY <2>1, <2>2 DEF Entry
<1> QED BY <1>2, <1>3

(* erase_ref of entries of the table. *)
LEMMA EraseFacts ==
  ASSUME NEW s, NEW h \in HeldCounts, Well(s), Counted(s, h), NEW gone \in SUBSET s.table
  PROVE  LET e == Erase(s, gone)
         IN /\ Well(e) /\ Counted(e, h)
            /\ e.table = s.table \ gone
            /\ e.size = s.size - TotalLength(s, gone)
            /\ \A r \in e.table : e.ref[r] = s.ref[r]
            /\ \A x, y \in e.table : Before(e.age, x, y) <=> Before(s.age, x, y)
<1> DEFINE e == Erase(s, gone)
<1>1. /\ s.table \in SUBSET Refs /\ s.lru \in Seq(Refs) /\ s.age \in Seq(Refs) /\ s.size \in Int
      /\ s.ref \in [Refs -> Entry]
    BY DEF Well, Structure
<1>2. /\ e.table = s.table \ gone /\ e.lru = Without(s.lru, gone) /\ e.age = Without(s.age, gone)
      /\ e.size = s.size - TotalLength(s, gone)
      /\ e.ref = [r \in Refs |-> IF r \in gone THEN Drop(s.ref[r]) ELSE s.ref[r]]
      /\ e = [table |-> e.table, lru |-> e.lru, age |-> e.age, size |-> e.size, ref |-> e.ref]
    BY DEF Erase
<1>3. \A r \in gone : Drop(s.ref[r]) \in Entry /\ Drop(s.ref[r]).refcnt = s.ref[r].refcnt - 1
  <2> SUFFICES ASSUME NEW r \in gone
               PROVE  Drop(s.ref[r]) \in Entry /\ Drop(s.ref[r]).refcnt = s.ref[r].refcnt - 1
      OBVIOUS
  <2>1. r \in Refs /\ s.ref[r] \in Entry
      BY <1>1
  <2>2. s.ref[r].refcnt >= 1
      BY <2>1, HeldByType DEF Counted
  <2> QED BY <2>1, <2>2, DropFacts
<1>4. e.ref \in [Refs -> Entry]
    BY <1>1, <1>2, <1>3
<1>5. /\ e.lru \in Seq(Refs) /\ Distinct(e.lru) /\ Elements(e.lru) = s.table \ gone
    BY <1>1, <1>2, WithoutFacts DEF Well
<1>6. /\ e.age \in Seq(Refs) /\ Distinct(e.age) /\ Elements(e.age) = s.table \ gone
      /\ \A x, y \in Elements(e.age) : Before(e.age, x, y) <=> Before(s.age, x, y)
    BY <1>1, <1>2, WithoutFacts DEF Well
<1>7. \A r \in e.table : r \in Refs /\ e.ref[r] = s.ref[r]
    BY <1>1, <1>2
<1>8. e.size = TotalLength(e, e.table) /\ e.size \in Int
  <2>1. /\ TotalLength(s, s.table) = TotalLength(s, gone) + TotalLength(s, s.table \ gone)
        /\ TotalLength(s, gone) \in Nat /\ TotalLength(s, s.table \ gone) \in Nat
    <3>1. s.ref \in [Refs -> Entry] /\ s.table \in SUBSET Refs
        BY <1>1
    <3>2. gone \in SUBSET s.table
        OBVIOUS
    <3> HIDE DEF e
    <3>3. /\ TotalLength(s, gone) \in Nat /\ TotalLength(s, s.table \ gone) \in Nat
          /\ TotalLength(s, s.table) = TotalLength(s, gone) + TotalLength(s, s.table \ gone)
        BY ONLY <3>1, <3>2, LengthSplit
    <3> QED BY <3>3
  <2>2. TotalLength(e, e.table) = TotalLength(s, s.table \ gone)
    <3> HIDE DEF e
    <3> QED BY <1>1, <1>2, <1>7, LengthSame
  <2>3. e.size = TotalLength(s, s.table) - TotalLength(s, gone)
      BY <1>2 DEF Well
  <2> QED BY <2>1, <2>2, <2>3
<1>9. Counted(e, h)
  <2> SUFFICES ASSUME NEW r \in Refs
               PROVE  e.ref[r].refcnt = (IF r \in e.table THEN 1 ELSE 0) + HeldBy(h, r)
      BY DEF Counted
  <2>1. s.ref[r].refcnt = (IF r \in s.table THEN 1 ELSE 0) + HeldBy(h, r) /\ HeldBy(h, r) \in Nat
      BY HeldByType DEF Counted
  <2>2. CASE r \in gone
      BY <1>2, <1>3, <2>1, <2>2
  <2>3. CASE r \notin gone
      BY <1>2, <2>1, <2>3
  <2> QED BY <2>2, <2>3
<1> HIDE DEF e
<1>10. e \in Structure
    BY <1>1, <1>2, <1>4, <1>5, <1>6, <1>8 DEF Structure
<1>11. \A r, q \in e.table : e.ref[r].key = e.ref[q].key => r = q
    BY <1>2, <1>7 DEF Well
<1>12. Well(e)
    BY <1>2, <1>5, <1>6, <1>8, <1>10, <1>11 DEF Well
<1>13. \A x, y \in e.table : Before(e.age, x, y) <=> Before(s.age, x, y)
    BY <1>2, <1>6
<1> QED BY <1>2, <1>7, <1>9, <1>12, <1>13 DEF e

(* What a purge leaves: a part of what there was, unchanged. *)
Remains(s, e, h) ==
    /\ Well(e) /\ Counted(e, h)
    /\ e.table \subseteq s.table /\ e.size <= s.size
    /\ \A r \in e.table : e.ref[r] = s.ref[r]

LEMMA EraseRemains ==
  ASSUME NEW s, NEW h \in HeldCounts, Well(s), Counted(s, h), NEW gone \in SUBSET s.table
  PROVE  Remains(s, Erase(s, gone), h)
<1> DEFINE e == Erase(s, gone)
<1>1. /\ Well(e) /\ Counted(e, h) /\ e.table = s.table \ gone
      /\ e.size = s.size - TotalLength(s, gone)
      /\ \A r \in e.table : e.ref[r] = s.ref[r]
    BY EraseFacts
<1>2. TotalLength(s, gone) \in Nat /\ s.size \in Int
    BY LengthSplit DEF Well, Structure
<1> HIDE DEF e
<1>3. Remains(s, e, h)
    BY <1>1, <1>2 DEF Remains
<1> QED BY <1>3 DEF e

(* The loop of purge that frees space: the assertion in it holds, the list  *)
(* being empty only when the size is zero.                                  *)
LEMMA PurgeBySizeFacts ==
  ASSUME NEW s, NEW h \in HeldCounts, Well(s), Counted(s, h)
  PROVE  Remains(s, PurgeBySize(s), h) /\ PurgeBySize(s).size <= Capacity
<1> DEFINE Prefix(k) == {s.lru[i] : i \in 1 .. k}
           Fits(k) == s.size - TotalLength(s, Prefix(k)) <= Capacity
           K == {k \in 0 .. Len(s.lru) : Fits(k)}
           n == Min(K)
<1>1. /\ s.lru \in Seq(Refs) /\ Len(s.lru) \in Nat /\ DOMAIN s.lru = 1 .. Len(s.lru)
      /\ s.size \in Int /\ s.table = Elements(s.lru) /\ s.size = TotalLength(s, s.table)
    BY LenProperties DEF Well, Structure
<1>2. \A k \in 0 .. Len(s.lru) : Prefix(k) \in SUBSET s.table
    BY <1>1 DEF Elements
<1>3. Fits(Len(s.lru))
  <2>1. Prefix(Len(s.lru)) = s.table
      BY <1>1 DEF Elements
  <2> HIDE DEF Prefix
  <2>2. TotalLength(s, Prefix(Len(s.lru))) = s.size
      BY <1>1, <2>1
  <2>3. s.size - s.size <= Capacity
      BY <1>1, CacheAssumption
  <2> QED BY <2>2, <2>3
<1> HIDE DEF Fits
<1>4. K \in SUBSET Nat /\ Len(s.lru) \in K
    BY <1>1, <1>3
<1>5. n \in K
  <2> HIDE DEF K
  <2>1. \E x \in K : \A y \in K : x <= y
      BY <1>4, LeastNat
  <2> QED BY <2>1 DEF Min
<1> DEFINE gone == Prefix(n)
<1>6. PurgeBySize(s) = Erase(s, gone)
    BY DEF PurgeBySize, Fits
<1>7. gone \in SUBSET s.table /\ s.size - TotalLength(s, gone) <= Capacity
  <2>1. n \in 0 .. Len(s.lru) /\ Fits(n)
      BY <1>5
  <2> HIDE DEF n
  <2> QED BY <1>2, <2>1 DEF Fits
<1> HIDE DEF gone
<1>8. Erase(s, gone).size = s.size - TotalLength(s, gone)
    BY <1>7, EraseFacts
<1>9. Remains(s, Erase(s, gone), h)
    BY <1>7, EraseRemains
<1> QED BY <1>6, <1>7, <1>8, <1>9

(* No entry past its time is left, unless behind a younger one. *)
Purged(s, now) ==
    \A i \in DOMAIN s.age :
        ~ /\ s.ref[s.age[i]].at + Duration < now
          /\ \A j \in 1 .. i - 1 : s.ref[s.age[j]].at <= s.ref[s.age[i]].at

(* The loop of purge that stops at the first entry with time left. *)
LEMMA PurgeByAgeFacts ==
  ASSUME NEW s, NEW h \in HeldCounts, Well(s), Counted(s, h), NEW now \in Int
  PROVE  Remains(s, PurgeByAge(s, now), h) /\ Purged(PurgeByAge(s, now), now)
<1> DEFINE gone == {s.age[i] : i \in {j \in DOMAIN s.age :
                                        \A k \in 1 .. j : TimeLeft(s, s.age[k], now) < 0}}
           e == Erase(s, gone)
           Young == {j \in DOMAIN s.age : ~ (TimeLeft(s, s.age[j], now) < 0)}
<1>1. /\ s.age \in Seq(Refs) /\ Len(s.age) \in Nat /\ DOMAIN s.age = 1 .. Len(s.age)
      /\ s.table = Elements(s.age) /\ s.table \in SUBSET Refs /\ s.ref \in [Refs -> Entry]
    BY LenProperties DEF Well, Structure
<1>2. gone \in SUBSET s.table
    BY <1>1 DEF Elements
<1>3. PurgeByAge(s, now) = e
    BY DEF PurgeByAge
<1>4. /\ Well(e) /\ e.table = s.table \ gone
      /\ \A r \in e.table : e.ref[r] = s.ref[r]
      /\ \A x, y \in e.table : Before(e.age, x, y) <=> Before(s.age, x, y)
  <2> HIDE DEF gone
  <2> QED BY <1>2, EraseFacts
<1>5. Remains(s, e, h)
  <2> HIDE DEF gone
  <2> QED BY <1>2, EraseRemains
<1>6. \A r \in Refs : s.ref[r].at \in Int
    BY <1>1, CacheAssumption DEF Entry
<1>7. Purged(e, now)
  <2> SUFFICES ASSUME NEW i \in DOMAIN e.age,
                      e.ref[e.age[i]].at + Duration < now,
                      \A j \in 1 .. i - 1 : e.ref[e.age[j]].at <= e.ref[e.age[i]].at
               PROVE  FALSE
    <3> HIDE DEF e
    <3> QED BY DEF Purged
  <2> DEFINE y == e.age[i]
  <2> HIDE DEF e
  <2>1. y \in e.table /\ Distinct(e.age) /\ Elements(e.age) = e.table /\ e.age \in Seq(Refs)
      BY <1>4 DEF Well, Structure, Elements
  <2>2. y \in s.table /\ y \notin gone /\ y \in Refs
    <3> HIDE DEF gone, y
    <3> QED BY <1>1, <1>4, <2>1
  <2>3. PICK p \in DOMAIN s.age : s.age[p] = y
      BY <1>1, <2>2 DEF Elements
  <2>4. Young # {}
    <3> SUFFICES ASSUME Young = {} PROVE FALSE
        OBVIOUS
    <3>1. \A k \in 1 .. p : k \in DOMAIN s.age
        BY <1>1
    <3>2. \A k \in 1 .. p : TimeLeft(s, s.age[k], now) < 0
        BY <3>1
    <3>3. y \in gone
        BY <2>3, <3>2
    <3> QED BY <2>2, <3>3
  <2>5. Young \in SUBSET Nat
      BY <1>1
  <2>6. PICK q \in Young : \A m \in Young : q <= m
    <3> HIDE DEF Young
    <3> QED BY <2>4, <2>5, LeastNat
  <2> DEFINE x == s.age[q]
  <2>7. q \in DOMAIN s.age /\ q \in Nat /\ p \in Nat /\ ~ (TimeLeft(s, x, now) < 0)
      BY <1>1
  <2>8. x \in s.table /\ x \in Refs
      BY <1>1, <2>7 DEF Elements
  <2>9. x \notin gone
    <3>1. ASSUME x \in gone PROVE FALSE
      <4>1. PICK j \in DOMAIN s.age : s.age[j] = x /\ \A k \in 1 .. j : TimeLeft(s, s.age[k], now) < 0
          BY <3>1
      <4>2. j \in 1 .. j
          BY <1>1
      <4> QED BY <2>7, <4>1, <4>2
    <3> QED BY <3>1
  <2>10. x \in e.table
    <3> HIDE DEF gone, x
    <3> QED BY <1>4, <2>8, <2>9
  <2>11. q <= p
    <3> SUFFICES ASSUME p < q PROVE FALSE
        BY <2>7
    <3>1. ASSUME NEW k \in 1 .. p PROVE TimeLeft(s, s.age[k], now) < 0
      <4>1. k \in DOMAIN s.age /\ ~ (q <= k)
          BY <1>1, <2>7
      <4>2. k \notin Young
          BY <2>6, <4>1
      <4> QED BY <4>1, <4>2
    <3>2. y \in gone
        BY <2>3, <3>1
    <3> QED BY <2>2, <3>2
  <2>12. s.ref[x].at \in Int /\ s.ref[y].at \in Int /\ Duration \in Nat
    <3> HIDE DEF x, y
    <3> QED BY <1>6, <2>2, <2>8, CacheAssumption
  <2>13. ~ (s.ref[x].at + Duration < now)
      BY <2>7, <2>12 DEF TimeLeft
  <2>14. e.ref[y] = s.ref[y] /\ e.ref[x] = s.ref[x]
    <3> HIDE DEF x, y
    <3> QED BY <1>4, <2>1, <2>10
  <2>15. CASE x = y
      BY <2>13, <2>14, <2>15
  <2>16. CASE x # y
    <3>1. Before(s.age, x, y)
      <4>1. q # p
          BY <2>3, <2>16
      <4>2. q < p
          BY <2>7, <2>11, <4>1
      <4> QED BY <2>3, <2>7, <4>2 DEF Before
    <3>2. Before(e.age, x, y)
      <4> HIDE DEF x, y
      <4> QED BY <1>4, <2>1, <2>10, <3>1
    <3>3. PICK j, l \in DOMAIN e.age : j < l /\ e.age[j] = x /\ e.age[l] = y
        BY <3>2 DEF Before
    <3>4. l = i
        BY <2>1, <3>3 DEF Distinct
    <3>5. DOMAIN e.age = 1 .. Len(e.age) /\ Len(e.age) \in Nat
        BY <2>1, LenProperties
    <3>6. j \in 1 .. i - 1
        BY <3>3, <3>4, <3>5
    <3>7. e.ref[e.age[j]].at <= e.ref[e.age[i]].at
        BY <3>6
    <3>8. s.ref[x].at <= s.ref[y].at /\ s.ref[y].at + Duration < now
        BY <2>14, <3>3, <3>7
    <3> HIDE DEF x, y
    <3> QED BY <2>12, <2>13, <3>8
  <2> QED BY <2>15, <2>16
<1> QED BY <1>3, <1>5, <1>7

LEMMA PurgeFacts ==
  ASSUME NEW s, NEW h \in HeldCounts, Well(s), Counted(s, h), NEW now \in Int
  PROVE  LET e == Purge(s, now)
         IN Remains(s, e, h) /\ e.size <= Capacity /\ Purged(e, now)
<1> DEFINE m == PurgeBySize(s)
           e == PurgeByAge(m, now)
<1>1. Remains(s, m, h) /\ m.size <= Capacity
    BY PurgeBySizeFacts
<1> HIDE DEF m
<1>2. Well(m) /\ Counted(m, h)
    BY <1>1 DEF Remains
<1>3. Remains(m, e, h) /\ Purged(e, now)
    BY <1>2, PurgeByAgeFacts
<1> HIDE DEF e
<1>4. e.size \in Int /\ m.size \in Int /\ s.size \in Int
    BY <1>2, <1>3 DEF Remains, Well, Structure
<1>5. Remains(s, e, h)
    BY <1>1, <1>3, <1>4 DEF Remains
<1>6. e.size <= Capacity
    BY <1>1, <1>3, <1>4, CacheAssumption DEF Remains
<1>7. Purge(s, now) = e
    BY DEF Purge, e, m
<1> QED BY <1>3, <1>5, <1>6, <1>7

------------------------------------------------------------------------------
(* The actions *)

CacheIndInv ==
    /\ Well(Now) /\ size <= Capacity /\ Counted(Now, held)
    /\ held \in HeldCounts /\ clock \in [Users -> 0 .. MaxTime]

(* What a critical section leaves behind. *)
LEMMA BecomesInv ==
  ASSUME NEW s, NEW h \in HeldCounts, Well(s), Counted(s, h), s.size <= Capacity,
         Becomes(s), held' = h, clock' \in [Users -> 0 .. MaxTime]
  PROVE  CacheIndInv'
<1> DEFINE n == [table |-> table', lru |-> lru', age |-> age', size |-> size', ref |-> ref']
<1>1. Now' = n
    BY DEF Now
<1>2. /\ n.table = s.table /\ n.lru = s.lru /\ n.age = s.age /\ n.size = s.size /\ n.ref = s.ref
    BY DEF Becomes
<1>3. n \in Structure
    BY <1>2 DEF Well, Structure
<1>4. TotalLength(n, s.table) = TotalLength(s, s.table)
    BY <1>2 DEF TotalLength
<1> HIDE DEF n
<1>5. Well(n)
    BY <1>2, <1>3, <1>4 DEF Well
<1>6. Counted(n, held')
    BY <1>2 DEF Counted
<1>7. size' <= Capacity
    BY DEF Becomes
<1>8. Well(Now)' /\ Counted(Now, held)'
    BY <1>1, <1>5, <1>6 DEF Well, Counted, TotalLength
<1> QED BY <1>7, <1>8 DEF CacheIndInv

LEMMA PurgeNow ==
  ASSUME CacheIndInv, NEW th \in Users
  PROVE  LET e == Purge(Now, clock[th])
         IN Remains(Now, e, held) /\ e.size <= Capacity /\ Purged(e, clock[th])
<1>1. clock[th] \in Int
    BY CacheAssumption DEF CacheIndInv
<1> QED BY <1>1, PurgeFacts DEF CacheIndInv

(* The structure after a step has no expired entry but behind a younger one. *)
NoneLeft(now) ==
    \A i \in DOMAIN age' :
        ~ /\ ref'[age'[i]].at + Duration < now
          /\ \A j \in 1 .. i - 1 : ref'[age'[j]].at <= ref'[age'[i]].at

LEMMA BecomesPurged ==
  ASSUME NEW s, NEW now, Purged(s, now), Becomes(s)
  PROVE  NoneLeft(now)
<1>1. age' = s.age /\ ref' = s.ref
    BY DEF Becomes
<1> QED BY <1>1 DEF Purged, NoneLeft

(* A change of the flags, the counts or the order of use. *)
LEMMA Touched ==
  ASSUME NEW s, NEW t \in Structure, Well(s), t.table = s.table, t.age = s.age, t.size = s.size,
         Distinct(t.lru), Elements(t.lru) = t.table,
         \A q \in s.table : /\ t.ref[q].key = s.ref[q].key /\ t.ref[q].len = s.ref[q].len
                            /\ t.ref[q].at = s.ref[q].at
  PROVE  Well(t) /\ \A now : Purged(s, now) => Purged(t, now)
<1>1. s.table \in SUBSET Refs
    BY DEF Well, Structure
<1>2. TotalLength(t, s.table) = TotalLength(s, s.table)
    BY <1>1, LengthSame
<1>3. Well(t)
    BY <1>2 DEF Well
<1>4. ASSUME NEW now, Purged(s, now) PROVE Purged(t, now)
  <2>1. \A i \in DOMAIN s.age : s.age[i] \in s.table
      BY DEF Well, Elements
  <2>2. \A i \in DOMAIN s.age : t.ref[s.age[i]].at = s.ref[s.age[i]].at
      BY <2>1
  <2>3. DOMAIN s.age = 1 .. Len(s.age) /\ Len(s.age) \in Nat
      BY LenProperties DEF Well, Structure
  <2>4. \A i \in DOMAIN s.age : \A j \in 1 .. i - 1 : j \in DOMAIN s.age
      BY <2>3
  <2> QED BY <1>4, <2>2, <2>4 DEF Purged
<1> QED BY <1>3, <1>4

LEMMA FetchMissStep ==
  ASSUME CacheIndInv, NEW th \in Users, NEW k \in Keys, FetchMiss(th, k)
  PROVE  CacheIndInv' /\ NoneLeft(clock[th])
<1> DEFINE e == Purge(Now, clock[th])
<1>1. Remains(Now, e, held) /\ e.size <= Capacity /\ Purged(e, clock[th])
    BY PurgeNow
<1>2. Becomes(e) /\ clock' = clock /\ held' = held
    BY DEF FetchMiss
<1> HIDE DEF e
<1> QED BY <1>1, <1>2, BecomesInv, BecomesPurged DEF Remains, CacheIndInv

LEMMA FetchEarlyUpdateStep ==
  ASSUME CacheIndInv, NEW th \in Users, NEW k \in Keys, FetchEarlyUpdate(th, k)
  PROVE  CacheIndInv' /\ NoneLeft(clock[th])
<1> DEFINE e == Purge(Now, clock[th])
<1>1. Remains(Now, e, held) /\ e.size <= Capacity /\ Purged(e, clock[th])
    BY PurgeNow
<1>2. PICK r \in Find(e, k) : Becomes([e EXCEPT !.ref[r].early = TRUE])
    BY DEF FetchEarlyUpdate
<1>3. clock' = clock /\ held' = held
    BY DEF FetchEarlyUpdate
<1> HIDE DEF e
<1> DEFINE t == [e EXCEPT !.ref[r].early = TRUE]
<1>4. e \in Structure /\ r \in e.table /\ r \in Refs /\ e.ref[r] \in Entry
    BY <1>1 DEF Find, Remains, Well, Structure
<1>5. /\ t.table = e.table /\ t.lru = e.lru /\ t.age = e.age /\ t.size = e.size
      /\ t.ref = [e.ref EXCEPT ![r].early = TRUE]
    BY <1>4 DEF Structure
<1>6. [e.ref[r] EXCEPT !.early = TRUE] \in Entry
    BY <1>4 DEF Entry
<1>7. t.ref \in [Refs -> Entry]
    BY <1>4, <1>5, <1>6 DEF Structure
<1>8. t \in Structure
    BY <1>4, <1>5, <1>7 DEF Structure
<1>9. \A q \in Refs : /\ t.ref[q].key = e.ref[q].key /\ t.ref[q].len = e.ref[q].len
                      /\ t.ref[q].at = e.ref[q].at /\ t.ref[q].refcnt = e.ref[q].refcnt
    BY <1>4, <1>5 DEF Structure, Entry
<1> HIDE DEF t
<1>10. Well(t) /\ Purged(t, clock[th])
  <2>1. e.table \in SUBSET Refs /\ Well(e)
      BY <1>1, <1>4 DEF Remains, Structure
  <2>2. Distinct(t.lru) /\ Elements(t.lru) = t.table
      BY <1>5, <2>1 DEF Well
  <2> QED BY <1>1, <1>5, <1>8, <1>9, <2>1, <2>2, Touched
<1>11. Counted(t, held)
    BY <1>1, <1>5, <1>9 DEF Remains, Counted
<1>12. Becomes(t) /\ t.size <= Capacity
    BY <1>1, <1>2, <1>5 DEF t
<1> QED BY <1>3, <1>10, <1>11, <1>12, BecomesInv, BecomesPurged DEF CacheIndInv

(* g is h but for the count of th for r, which is n. *)
OneCount(h, g, th, r, n) ==
    \A t \in Users : \A q \in Refs : g[t][q] = IF t = th /\ q = r THEN n ELSE h[t][q]

LEMMA HeldChange ==
  ASSUME NEW h \in HeldCounts, NEW g \in HeldCounts, NEW th \in Users, NEW r \in Refs, NEW n \in Nat,
         OneCount(h, g, th, r, n)
  PROVE  /\ HeldBy(g, r) = HeldBy(h, r) + n - h[th][r]
         /\ h[th][r] <= HeldBy(h, r) /\ HeldBy(h, r) \in Nat
         /\ \A q \in Refs \ {r} : HeldBy(g, q) = HeldBy(h, q)
<1> DEFINE F(q) == [t \in Users |-> h[t][q]]
           G(q) == [t \in Users |-> g[t][q]]
<1>1. \A t \in Users : \A q \in Refs :
        F(q)[t] \in Nat /\ G(q)[t] \in Nat /\ (t # th \/ q # r => F(q)[t] = G(q)[t])
    BY CacheAssumption DEF HeldCounts, OneCount
<1>2. G(r)[th] = n /\ F(r)[th] = h[th][r]
    BY DEF OneCount
<1>3. \A q : HeldBy(h, q) = Total(F(q), Users) /\ HeldBy(g, q) = Total(G(q), Users)
    BY DEF HeldBy
<1> HIDE DEF F, G
<1>4. /\ Total(G(r), Users) = Total(F(r), Users) + G(r)[th] - F(r)[th]
      /\ Total(F(r), Users) \in Nat /\ F(r)[th] <= Total(F(r), Users)
  <2>1. \A t \in Users : F(r)[t] \in Nat /\ G(r)[t] \in Nat
      BY <1>1
  <2>2. \A t \in Users \ {th} : F(r)[t] = G(r)[t]
      BY <1>1
  <2> QED BY <2>1, <2>2, CacheAssumption, TotalChange
<1>5. ASSUME NEW q \in Refs \ {r} PROVE Total(G(q), Users) = Total(F(q), Users)
  <2>1. \A t \in Users : G(q)[t] = F(q)[t]
      BY <1>1
  <2> QED BY <2>1, TotalSame
<1> QED BY <1>2, <1>3, <1>4, <1>5

LEMMA FetchHitStep ==
  ASSUME CacheIndInv, NEW th \in Users, NEW k \in Keys, FetchHit(th, k)
  PROVE  CacheIndInv' /\ NoneLeft(clock[th])
<1> DEFINE e == Purge(Now, clock[th])
<1>1. Remains(Now, e, held) /\ e.size <= Capacity /\ Purged(e, clock[th])
    BY PurgeNow
<1>2. PICK r \in Find(e, k) :
        /\ held[th][r] < MaxHeld
        /\ Becomes([e EXCEPT !.lru = Append(Without(@, {r}), r), !.ref[r].refcnt = @ + 1])
        /\ held' = [held EXCEPT ![th][r] = @ + 1]
        /\ UNCHANGED clock
    BY DEF FetchHit
<1> HIDE DEF e
<1> DEFINE t == [e EXCEPT !.lru = Append(Without(@, {r}), r), !.ref[r].refcnt = @ + 1]
<1>3. e \in Structure /\ r \in e.table /\ r \in Refs /\ e.ref[r] \in Entry
    BY <1>1 DEF Find, Remains, Well, Structure
<1>4. /\ t.table = e.table /\ t.lru = Append(Without(e.lru, {r}), r)
      /\ t.age = e.age /\ t.size = e.size
      /\ t.ref = [e.ref EXCEPT ![r].refcnt = @ + 1]
    BY <1>3 DEF Structure
<1>5. [e.ref[r] EXCEPT !.refcnt = @ + 1] \in Entry
    BY <1>3 DEF Entry
<1>6. t.ref \in [Refs -> Entry]
    BY <1>3, <1>4, <1>5 DEF Structure
<1>7. t.lru \in Seq(Refs) /\ Distinct(t.lru) /\ Elements(t.lru) = t.table
  <2> DEFINE w == Without(e.lru, {r})
  <2>1. e.lru \in Seq(Refs) /\ Distinct(e.lru) /\ Elements(e.lru) = e.table
      BY <1>1 DEF Remains, Well, Structure
  <2>2. w \in Seq(Refs) /\ Distinct(w) /\ Elements(w) = Elements(e.lru) \ {r}
      BY <2>1, WithoutFacts
  <2> HIDE DEF w
  <2>3. r \notin Elements(w)
      BY <2>2
  <2>4. /\ Append(w, r) \in Seq(Refs) /\ Distinct(Append(w, r))
        /\ Elements(Append(w, r)) = Elements(w) \cup {r}
      BY <1>3, <2>2, <2>3, AppendFacts
  <2>5. t.lru = Append(w, r)
      BY <1>4 DEF w
  <2> HIDE DEF t
  <2> QED BY <1>3, <1>4, <2>1, <2>2, <2>4, <2>5
<1>8. t \in Structure
    BY <1>3, <1>4, <1>6, <1>7 DEF Structure
<1>9. \A q \in Refs : /\ t.ref[q].key = e.ref[q].key /\ t.ref[q].len = e.ref[q].len
                      /\ t.ref[q].at = e.ref[q].at
                      /\ t.ref[q].refcnt = IF q = r THEN e.ref[q].refcnt + 1 ELSE e.ref[q].refcnt
    BY <1>3, <1>4 DEF Structure, Entry
<1> HIDE DEF t
<1>10. Well(t) /\ Purged(t, clock[th])
  <2>1. e.table \in SUBSET Refs /\ Well(e)
      BY <1>1, <1>3 DEF Remains, Structure
  <2> QED BY <1>1, <1>4, <1>7, <1>8, <1>9, <2>1, Touched
<1>11. held' \in HeldCounts /\ Counted(t, held')
  <2> DEFINE n == held[th][r] + 1
  <2>1. held \in HeldCounts /\ n \in 0 .. MaxHeld /\ n \in Nat /\ held[th][r] \in Nat
      BY <1>2, <1>3, CacheAssumption DEF CacheIndInv, HeldCounts
  <2>2. held' = [held EXCEPT ![th][r] = n]
      BY <1>2
  <2> HIDE DEF n
  <2>3. held' \in HeldCounts
      BY <1>3, <2>1, <2>2 DEF HeldCounts
  <2>4. OneCount(held, held', th, r, n)
      BY <1>3, <2>1, <2>2 DEF HeldCounts, OneCount
  <2>5. /\ HeldBy(held', r) = HeldBy(held, r) + n - held[th][r] /\ HeldBy(held, r) \in Nat
        /\ \A q \in Refs \ {r} : HeldBy(held', q) = HeldBy(held, q)
      BY <1>3, <2>1, <2>3, <2>4, HeldChange
  <2>6. HeldBy(held', r) = HeldBy(held, r) + 1
      BY <2>1, <2>5 DEF n
  <2>7. Counted(e, held)
      BY <1>1 DEF Remains
  <2>8. ASSUME NEW q \in Refs
        PROVE  t.ref[q].refcnt = (IF q \in t.table THEN 1 ELSE 0) + HeldBy(held', q)
    <3>1. CASE q = r
        BY <1>3, <1>4, <1>9, <2>5, <2>6, <2>7, <3>1 DEF Counted
    <3>2. CASE q # r
        BY <1>4, <1>9, <2>5, <2>7, <3>2 DEF Counted
    <3> QED BY <3>1, <3>2
  <2> QED BY <2>3, <2>8 DEF Counted
<1>12. Becomes(t) /\ t.size <= Capacity /\ clock' = clock
    BY <1>1, <1>2, <1>4 DEF t
<1> QED BY <1>10, <1>11, <1>12, BecomesInv, BecomesPurged DEF CacheIndInv

(* A release takes no lock: it frees the entry only if no table has it, and *)
(* otherwise leaves what the table says about it.                           *)
LEMMA ReleaseStep ==
  ASSUME CacheIndInv, NEW th \in Users, NEW r \in Refs, Release(th, r)
  PROVE  CacheIndInv'
<1> DEFINE s == Now
           n == held[th][r] - 1
           t == [table |-> table, lru |-> lru, age |-> age, size |-> size,
                 ref |-> [ref EXCEPT ![r] = Drop(@)]]
<1>1. /\ s \in Structure /\ Well(s) /\ Counted(s, held) /\ held \in HeldCounts
      /\ s.table = table /\ s.lru = lru /\ s.age = age /\ s.size = size /\ s.ref = ref
    BY DEF CacheIndInv, Well, Now
<1>2. /\ held[th][r] > 0 /\ ref' = [ref EXCEPT ![r] = Drop(@)]
      /\ held' = [held EXCEPT ![th][r] = n]
      /\ table' = table /\ lru' = lru /\ age' = age /\ size' = size /\ clock' = clock
    BY DEF Release, svars
<1>3. n \in 0 .. MaxHeld /\ n \in Nat /\ held[th][r] \in Nat /\ n = held[th][r] - 1
    BY <1>1, <1>2, CacheAssumption DEF HeldCounts
<1> HIDE DEF n
<1>4. held' \in HeldCounts
    BY <1>1, <1>2, <1>3 DEF HeldCounts
<1>5. OneCount(held, held', th, r, n)
    BY <1>1, <1>2 DEF HeldCounts, OneCount
<1>6. /\ HeldBy(held', r) = HeldBy(held, r) + n - held[th][r]
      /\ held[th][r] <= HeldBy(held, r) /\ HeldBy(held, r) \in Nat
      /\ \A q \in Refs \ {r} : HeldBy(held', q) = HeldBy(held, q)
    BY <1>1, <1>3, <1>4, <1>5, HeldChange
<1>7. HeldBy(held', r) = HeldBy(held, r) - 1 /\ HeldBy(held, r) >= 1
    BY <1>2, <1>3, <1>6
<1>8. /\ ref \in [Refs -> Entry] /\ ref[r] \in Entry
      /\ ref[r].refcnt = (IF r \in table THEN 1 ELSE 0) + HeldBy(held, r)
    BY <1>1 DEF Structure, Counted
<1>9. ref[r].refcnt >= 1 /\ (r \in table => ref[r].refcnt # 1)
    BY <1>6, <1>7, <1>8
<1>10. Drop(ref[r]) \in Entry /\ Drop(ref[r]).refcnt = ref[r].refcnt - 1
    BY <1>8, <1>9, DropFacts
<1>11. r \in table => /\ Drop(ref[r]).key = ref[r].key /\ Drop(ref[r]).len = ref[r].len
                      /\ Drop(ref[r]).at = ref[r].at
    BY <1>8, <1>9 DEF Drop, Entry
<1>12. /\ t.table = table /\ t.lru = lru /\ t.age = age /\ t.size = size
       /\ t.ref = [ref EXCEPT ![r] = Drop(@)]
       /\ t.ref \in [Refs -> Entry]
    BY <1>8, <1>10
<1>13. t \in Structure
    BY <1>1, <1>12 DEF Structure
<1> HIDE DEF t, s
<1>14. Well(t)
  <2>1. Distinct(t.lru) /\ Elements(t.lru) = t.table
      BY <1>1, <1>12 DEF Well
  <2>2. ASSUME NEW q \in s.table
        PROVE  /\ t.ref[q].key = s.ref[q].key /\ t.ref[q].len = s.ref[q].len
               /\ t.ref[q].at = s.ref[q].at
    <3>1. q \in Refs /\ q \in table
        BY <1>1 DEF Structure
    <3> QED BY <1>1, <1>8, <1>11, <1>12, <3>1
  <2>3. t.table = s.table /\ t.age = s.age /\ t.size = s.size
      BY <1>1, <1>12
  <2> QED BY <1>1, <1>13, <2>1, <2>2, <2>3, Touched
<1>15. Counted(t, held')
  <2> SUFFICES ASSUME NEW q \in Refs
               PROVE  t.ref[q].refcnt = (IF q \in t.table THEN 1 ELSE 0) + HeldBy(held', q)
      BY DEF Counted
  <2>1. CASE q = r
      BY <1>6, <1>7, <1>8, <1>10, <1>12, <2>1
  <2>2. CASE q # r
      BY <1>1, <1>6, <1>8, <1>12, <2>2 DEF Counted
  <2> QED BY <2>1, <2>2
<1>16. Becomes(t) /\ t.size <= Capacity
    BY <1>2, <1>12 DEF Becomes, CacheIndInv
<1> QED BY <1>2, <1>4, <1>14, <1>15, <1>16, BecomesInv DEF CacheIndInv

(* A new entry is linked, whatever the size becomes. *)
LEMMA InsertFacts ==
  ASSUME NEW s, NEW h \in HeldCounts, Well(s), Counted(s, h),
         NEW r \in Refs, s.ref[r].refcnt = 0,
         NEW new \in Entry, new.refcnt = 1, \A q \in s.table : s.ref[q].key # new.key
  PROVE  LET t == [table |-> s.table \cup {r}, lru |-> Append(s.lru, r), age |-> Append(s.age, r),
                   size |-> s.size + new.len, ref |-> [s.ref EXCEPT ![r] = new]]
         IN Well(t) /\ Counted(t, h)
<1> DEFINE t == [table |-> s.table \cup {r}, lru |-> Append(s.lru, r), age |-> Append(s.age, r),
                 size |-> s.size + new.len, ref |-> [s.ref EXCEPT ![r] = new]]
<1>1. /\ s.table \in SUBSET Refs /\ s.lru \in Seq(Refs) /\ s.age \in Seq(Refs) /\ s.size \in Int
      /\ s.ref \in [Refs -> Entry]
    BY DEF Well, Structure
<1>2. r \notin s.table /\ HeldBy(h, r) = 0
    BY HeldByType DEF Counted
<1>3. new.len \in Nat
  <2>1. Lengths \cup {0} \subseteq Nat
      BY CacheAssumption
  <2> QED BY <2>1 DEF Entry
<1>4. /\ t.table = s.table \cup {r} /\ t.lru = Append(s.lru, r) /\ t.age = Append(s.age, r)
      /\ t.size = s.size + new.len /\ t.ref = [s.ref EXCEPT ![r] = new]
    OBVIOUS
<1>5. t.ref \in [Refs -> Entry]
    BY <1>1, <1>4
<1>6. t.lru \in Seq(Refs) /\ Distinct(t.lru) /\ Elements(t.lru) = t.table
    BY <1>1, <1>2, <1>4, AppendFacts DEF Well
<1>7. t.age \in Seq(Refs) /\ Distinct(t.age) /\ Elements(t.age) = t.table
    BY <1>1, <1>2, <1>4, AppendFacts DEF Well
<1>8. t \in Structure
    BY <1>1, <1>3, <1>5, <1>6, <1>7 DEF Structure
<1> HIDE DEF t
<1>9. t.ref[r] = new /\ \A q \in s.table : q # r /\ t.ref[q] = s.ref[q]
    BY <1>1, <1>2, <1>4
<1>10. t.size = TotalLength(t, t.table)
  <2>1. t.table \in SUBSET Refs /\ {r} \in SUBSET t.table
      BY <1>1, <1>4
  <2>2. TotalLength(t, t.table) = TotalLength(t, {r}) + TotalLength(t, t.table \ {r})
      BY <1>5, <2>1, LengthSplit
  <2>3. TotalLength(t, {r}) = new.len
    <3> DEFINE f == [q \in Refs |-> t.ref[q].len]
    <3>1. f[r] = new.len /\ TotalLength(t, {r}) = Total(f, {r})
        BY <1>9 DEF TotalLength
    <3> HIDE DEF f
    <3> QED BY <1>3, <3>1, TotalOne
  <2>4. t.table \ {r} = s.table
      BY <1>2, <1>4
  <2>5. TotalLength(t, s.table) = TotalLength(s, s.table)
      BY <1>1, <1>9, LengthSame
  <2>6. TotalLength(s, s.table) = s.size
      BY DEF Well
  <2>7. TotalLength(t, t.table \ {r}) = s.size
      BY <2>4, <2>5, <2>6, Zenon
  <2>8. TotalLength(t, t.table) = new.len + s.size
      BY <2>2, <2>3, <2>7, Zenon
  <2> QED BY <1>1, <1>3, <1>4, <2>8
<1>11. \A p, q \in t.table : t.ref[p].key = t.ref[q].key => p = q
    BY <1>4, <1>9 DEF Well
<1>12. Well(t)
    BY <1>6, <1>7, <1>8, <1>10, <1>11 DEF Well
<1>13. Counted(t, h)
  <2> SUFFICES ASSUME NEW q \in Refs
               PROVE  t.ref[q].refcnt = (IF q \in t.table THEN 1 ELSE 0) + HeldBy(h, q)
      BY DEF Counted
  <2>1. CASE q = r
      BY <1>2, <1>4, <1>9, <2>1
  <2>2. CASE q # r
      BY <1>1, <1>4, <2>2 DEF Counted
  <2> QED BY <2>1, <2>2
<1> QED BY <1>12, <1>13 DEF t

LEMMA CacheSetStep ==
  ASSUME CacheIndInv, NEW th \in Users, NEW k \in Keys, NEW len \in Lengths, CacheSet(th, k, len)
  PROVE  CacheIndInv' /\ NoneLeft(clock[th])
<1> DEFINE gone == Find(Now, k)
           s == Erase(Now, gone)
           new == [NoRef EXCEPT !.key = k, !.len = len, !.at = clock[th], !.refcnt = 1]
           T(r) == [table |-> s.table \cup {r}, lru |-> Append(s.lru, r), age |-> Append(s.age, r),
                    size |-> s.size + new.len, ref |-> [s.ref EXCEPT ![r] = new]]
<1>1. new \in Entry /\ new.refcnt = 1 /\ new.key = k /\ new.len = len
    BY CacheAssumption DEF CacheIndInv, Entry, NoRef
<1>2. PICK r \in Refs : /\ ref[r] = NoRef
                        /\ Becomes(Purge(T(r), clock[th]))
                        /\ UNCHANGED <<clock, held>>
    BY <1>1 DEF CacheSet
<1>3. held \in HeldCounts /\ Well(Now) /\ Counted(Now, held) /\ Now.table = table /\ Now.ref = ref
    BY DEF CacheIndInv, Now
<1>4. gone \in SUBSET Now.table /\ \A q \in Now.table \ gone : Now.ref[q].key # k
    BY DEF Find
<1>5. clock[th] \in Int
    BY CacheAssumption DEF CacheIndInv
<1> HIDE DEF gone, new
<1>6. /\ Well(s) /\ Counted(s, held) /\ s.table = Now.table \ gone
      /\ \A q \in s.table : s.ref[q] = Now.ref[q]
    BY <1>3, <1>4, EraseFacts
<1>7. s.ref[r].refcnt = 0
  <2>1. Now.ref[r].refcnt = 0
      BY <1>2, <1>3 DEF NoRef
  <2>2. r \notin Now.table /\ HeldBy(held, r) = 0
      BY <1>3, <2>1, HeldByType DEF Counted
  <2> HIDE DEF s
  <2> QED BY <1>6, <2>2 DEF Counted
<1>8. \A q \in s.table : s.ref[q].key # new.key
  <2> HIDE DEF s
  <2> QED BY <1>1, <1>4, <1>6
<1>9. Well(T(r)) /\ Counted(T(r), held)
  <2> HIDE DEF s
  <2> QED BY <1>1, <1>3, <1>6, <1>7, <1>8, InsertFacts
<1> DEFINE e == Purge(T(r), clock[th])
<1> HIDE DEF T
<1>10. Remains(T(r), e, held) /\ e.size <= Capacity /\ Purged(e, clock[th])
    BY <1>3, <1>5, <1>9, PurgeFacts
<1>11. Becomes(e) /\ clock' = clock /\ held' = held
    BY <1>2
<1> HIDE DEF e
<1> QED BY <1>3, <1>10, <1>11, BecomesInv, BecomesPurged DEF Remains, CacheIndInv

LEMMA DeleteStep ==
  ASSUME CacheIndInv, NEW th \in Users, NEW k \in Keys, Delete(th, k)
  PROVE  CacheIndInv'
<1> DEFINE e == Purge(Now, clock[th])
           d == Erase(e, Find(e, k))
<1>1. Remains(Now, e, held) /\ e.size <= Capacity
    BY PurgeNow
<1>2. Becomes(d) /\ clock' = clock /\ held' = held
    BY DEF Delete
<1> HIDE DEF e
<1>3. Well(e) /\ Counted(e, held) /\ held \in HeldCounts
    BY <1>1 DEF Remains, CacheIndInv
<1>4. Find(e, k) \in SUBSET e.table
    BY DEF Find
<1>5. Remains(e, d, held)
    BY <1>3, <1>4, EraseRemains
<1> HIDE DEF d
<1>6. d.size <= Capacity
    BY <1>1, <1>3, <1>5, CacheAssumption DEF Remains, Well, Structure
<1> QED BY <1>2, <1>3, <1>5, <1>6, BecomesInv DEF Remains, CacheIndInv

LEMMA ClearStep ==
  ASSUME CacheIndInv, Clear
  PROVE  CacheIndInv'
<1> DEFINE d == Erase(Now, Elements(lru))
<1>1. Well(Now) /\ Counted(Now, held) /\ held \in HeldCounts /\ Now.size = size
    BY DEF CacheIndInv, Now
<1>2. Elements(lru) \in SUBSET Now.table
    BY <1>1 DEF Well, Now
<1>3. Remains(Now, d, held)
    BY <1>1, <1>2, EraseRemains
<1>4. Becomes(d) /\ clock' = clock /\ held' = held
    BY DEF Clear
<1> HIDE DEF d
<1>5. d.size <= Capacity
    BY <1>1, <1>3, CacheAssumption DEF Remains, Well, Structure, CacheIndInv
<1> QED BY <1>1, <1>3, <1>4, <1>5, BecomesInv DEF Remains, CacheIndInv

LEMMA QuietStep ==
  ASSUME CacheIndInv, UNCHANGED <<svars, ref, held>>, clock' \in [Users -> 0 .. MaxTime]
  PROVE  CacheIndInv'
<1>1. Well(Now) /\ Counted(Now, held) /\ held \in HeldCounts /\ Now.size <= Capacity
    BY DEF CacheIndInv, Now
<1>2. Becomes(Now) /\ held' = held
    BY DEF Becomes, Now, svars
<1> QED BY <1>1, <1>2, BecomesInv

LEMMA InvNext == CacheIndInv /\ [CacheNext]_cache_vars => CacheIndInv'
<1> SUFFICES ASSUME CacheIndInv, [CacheNext]_cache_vars PROVE CacheIndInv'
    OBVIOUS
<1>1. ASSUME NEW th \in Users, NEW k \in Keys,
             FetchMiss(th, k) \/ FetchEarlyUpdate(th, k) \/ FetchHit(th, k) \/ Delete(th, k)
      PROVE  CacheIndInv'
    BY <1>1, FetchMissStep, FetchEarlyUpdateStep, FetchHitStep, DeleteStep
<1>2. ASSUME NEW th \in Users, NEW k \in Keys, NEW len \in Lengths, CacheSet(th, k, len)
      PROVE  CacheIndInv'
    BY <1>2, CacheSetStep
<1>3. ASSUME NEW th \in Users, NEW r \in Refs, Release(th, r) PROVE CacheIndInv'
    BY <1>3, ReleaseStep
<1>4. ASSUME NEW th \in Users, Tick(th) PROVE CacheIndInv'
  <2>1. clock' \in [Users -> 0 .. MaxTime] /\ UNCHANGED <<svars, ref, held>>
      BY <1>4, CacheAssumption DEF Tick, CacheIndInv
  <2> QED BY <2>1, QuietStep
<1>5. CASE Clear
    BY <1>5, ClearStep
<1>6. CASE UNCHANGED cache_vars
  <2>1. clock' \in [Users -> 0 .. MaxTime] /\ UNCHANGED <<svars, ref, held>>
      BY <1>6 DEF cache_vars, CacheIndInv
  <2> QED BY <2>1, QuietStep
<1> QED BY <1>1, <1>2, <1>3, <1>4, <1>5, <1>6 DEF CacheNext

LEMMA InvInit == CacheInit => CacheIndInv
<1> SUFFICES ASSUME CacheInit PROVE CacheIndInv
    OBVIOUS
<1>1. /\ Now.table = {} /\ Now.lru = <<>> /\ Now.age = <<>> /\ Now.size = 0 /\ size = 0
      /\ Now.ref = [r \in Refs |-> NoRef]
      /\ Now = [table |-> {}, lru |-> <<>>, age |-> <<>>, size |-> 0, ref |-> [r \in Refs |-> NoRef]]
    BY DEF CacheInit, Now
<1>2. NoRef \in Entry /\ NoRef.refcnt = 0
    BY CacheAssumption DEF NoRef, Entry
<1>3. Now \in Structure
  <2>1. <<>> \in Seq(Refs)
      OBVIOUS
  <2> QED BY <1>1, <1>2, <2>1 DEF Structure
<1>4. Distinct(<<>>) /\ Elements(<<>>) = {}
    BY DEF Distinct, Elements
<1>5. TotalLength(Now, {}) = 0
    BY TotalEmpty DEF TotalLength
<1>6. Well(Now)
  <2> DEFINE s == Now
  <2> HIDE DEF s
  <2>1. /\ s \in Structure /\ s.table = {} /\ s.lru = <<>> /\ s.age = <<>> /\ s.size = 0
        /\ TotalLength(s, {}) = 0
      BY <1>1, <1>3, <1>5 DEF s
  <2>2. Well(s)
      BY <1>4, <2>1 DEF Well
  <2> QED BY <2>2 DEF s
<1>7. held \in HeldCounts /\ clock \in [Users -> 0 .. MaxTime] /\ size <= Capacity
    BY CacheAssumption DEF CacheInit, HeldCounts
<1>8. ASSUME NEW r \in Refs PROVE HeldBy(held, r) = 0
  <2> DEFINE f == [th \in Users |-> held[th][r]]
  <2>1. \A th \in Users : f[th] = 0
      BY DEF CacheInit
  <2>2. UNION {{th} \X (1 .. f[th]) : th \in Users} = {}
      BY <2>1
  <2> QED BY <2>2, FS_EmptySet DEF HeldBy, Total
<1>9. Counted(Now, held)
    BY <1>1, <1>2, <1>8 DEF Counted
<1> QED BY <1>6, <1>7, <1>9 DEF CacheIndInv

LEMMA InvMeaning == CacheIndInv => CacheInv /\ RefcountExact
<1> SUFFICES ASSUME CacheIndInv PROVE CacheInv /\ RefcountExact
    OBVIOUS
<1> DEFINE s == Now
<1>1. s.table = table /\ s.lru = lru /\ s.age = age /\ s.size = size /\ s.ref = ref
    BY DEF Now
<1>2. Well(s) /\ Counted(s, held) /\ s \in Structure
    BY DEF CacheIndInv, Well
<1>3. SizeExact
    BY <1>1, <1>2 DEF CacheIndInv, Well, SizeExact
<1> HIDE DEF s
<1>4. StructureAgrees
    BY <1>1, <1>2 DEF Well, StructureAgrees
<1>5. size \in Nat
  <2>1. TotalLength(s, s.table) \in Nat
      BY <1>2, LengthSplit DEF Structure
  <2> QED BY <1>1, <1>2, <2>1 DEF Well
<1>6. CacheTypeOK
    BY <1>1, <1>2, <1>5 DEF CacheTypeOK, Structure, Entry, CacheIndInv, HeldCounts
<1>7. RefcountExact
    BY <1>1, <1>2 DEF Counted, HeldBy, RefcountExact
<1> QED BY <1>3, <1>4, <1>6, <1>7 DEF CacheInv

(* The inductive invariant: the structure is well-formed, its size within   *)
(* the capacity and every reference counted, between any two steps of       *)
(* vhttp_cache_fetch, _set, _delete, _clear and _release.                   *)
THEOREM Invariance == CacheSpec => []CacheIndInv
BY InvInit, InvNext, PTL DEF CacheSpec

(* Table, lists and size agree whenever the mutex of the cache is free, and *)
(* purge never runs out of entries to evict.                                *)
THEOREM CacheCorrect == CacheSpec => []CacheInv
<1>1. CacheIndInv => CacheInv
    BY InvMeaning
<1> QED BY <1>1, Invariance, PTL

(* The counter of an entry is the number of references to it, although      *)
(* vhttp_cache_release does not take the mutex.                             *)
THEOREM RefcountCorrect == CacheSpec => []RefcountExact
<1>1. CacheIndInv => RefcountExact
    BY InvMeaning
<1> QED BY <1>1, Invariance, PTL

(* A fetch or a set leaves an entry that is past its time only behind one   *)
(* that a faster clock stored, although purge stops at the first entry with *)
(* time left.                                                               *)
THEOREM PurgeCorrect == CacheSpec => PurgeComplete
<1>1. CacheIndInv /\ [CacheNext]_cache_vars =>
        [\A th \in Users : (\E i \in DOMAIN age' : LeftBehind(th, i)') => ~FetchOrSet(th)]_cache_vars
  <2> SUFFICES ASSUME CacheIndInv, NEW th \in Users, NEW i \in DOMAIN age', LeftBehind(th, i)',
                      FetchOrSet(th)
               PROVE  FALSE
      OBVIOUS
  <2>1. NoneLeft(clock[th])
      BY FetchMissStep, FetchEarlyUpdateStep, FetchHitStep, CacheSetStep DEF FetchOrSet
  <2>2. clock' = clock
      BY DEF FetchOrSet, FetchMiss, FetchEarlyUpdate, FetchHit, CacheSet
  <2>3. /\ ref'[age'[i]].at + Duration < clock[th]
        /\ \A j \in 1 .. i - 1 : ref'[age'[j]].at <= ref'[age'[i]].at
      BY <2>2 DEF LeftBehind
  <2> QED BY <2>1, <2>3 DEF NoneLeft
<1> QED BY <1>1, Invariance, PTL DEF CacheSpec, PurgeComplete

==============================================================================
