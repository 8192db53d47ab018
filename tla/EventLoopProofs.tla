---------------------------- MODULE EventLoopProofs ----------------------------
(***************************************************************************)
(* Proofs about what an event loop has: the queue by which other threads   *)
(* send it messages (MultithreadQueue), and its timers (TimerWheel).       *)
(*                                                                         *)
(* First part, for any number of threads, receivers and messages: no       *)
(* wakeup is lost, and the queue implements the FIFO mailboxes of module   *)
(* Mailbox (its safety part; liveness is checked by TLC only).             *)
(*                                                                         *)
(* Second part, for any number of timers, slots and wheels: the timers     *)
(* that fire are exactly the ones that are due, what                       *)
(* vhttp_timerwheel_validate tests is true, and the loop wakes up in time. *)
(***************************************************************************)
EXTENDS MultithreadQueue, TimerWheel, Counting


\* A list has an element exactly when it is not empty.
LEMMA InListNonEmpty ==
    ASSUME NEW S, NEW s \in Seq(S)
    PROVE  /\ s = <<>> => \A x : ~InList(x, s)
           /\ s # <<>> => InList(Head(s), s)
    BY EmptySeq, LenProperties, HeadTailProperties DEF InList

\* What vhttp_linklist_insert at the tail does to membership and to the
\* absence of duplicates.
LEMMA AppendList ==
    ASSUME NEW S, NEW s \in Seq(S), NEW e \in S
    PROVE  /\ Append(s, e) \in Seq(S)
           /\ Append(s, e) # <<>>
           /\ \A x : InList(x, Append(s, e)) <=> InList(x, s) \/ x = e
           /\ NoDuplicates(s) /\ ~InList(e, s) => NoDuplicates(Append(s, e))
    <1> DEFINE a == Append(s, e)
    <1>1. /\ a \in Seq(S) /\ a # <<>> /\ Len(a) = Len(s) + 1
          /\ \A i \in 1 .. Len(s) : a[i] = s[i]
          /\ a[Len(s) + 1] = e
        BY AppendProperties
    <1>2. /\ DOMAIN a = 1 .. Len(s) + 1 /\ DOMAIN s = 1 .. Len(s) /\ Len(s) \in Nat
        BY <1>1, LenProperties
    <1>3. \A x : InList(x, a) <=> InList(x, s) \/ x = e
        BY <1>1, <1>2 DEF InList
    <1>4. NoDuplicates(s) /\ ~InList(e, s) => NoDuplicates(a)
        BY <1>1, <1>2 DEF NoDuplicates, InList
    <1> QED BY <1>1, <1>3, <1>4

\* What unlinking the first entry does to membership.
LEMMA TailList ==
    ASSUME NEW S, NEW s \in Seq(S), s # <<>>, NoDuplicates(s)
    PROVE  /\ Head(s) \in S /\ Tail(s) \in Seq(S)
           /\ \A x : InList(x, Tail(s)) <=> InList(x, s) /\ x # Head(s)
           /\ NoDuplicates(Tail(s))
    <1> DEFINE u == Tail(s)
    <1>1. /\ Head(s) \in S /\ u \in Seq(S) /\ Len(u) = Len(s) - 1
          /\ \A i \in 1 .. Len(u) : u[i] = s[i + 1]
        BY HeadTailProperties
    <1>2. /\ DOMAIN u = 1 .. Len(s) - 1 /\ DOMAIN s = 1 .. Len(s)
          /\ Len(s) \in Nat \ {0} /\ Head(s) = s[1]
        BY <1>1, LenProperties, EmptySeq
    <1>3. ASSUME NEW x PROVE InList(x, u) <=> InList(x, s) /\ x # Head(s)
        <2>1. ASSUME InList(x, u) PROVE InList(x, s) /\ x # Head(s)
            <3>1. PICK i \in 1 .. Len(s) - 1 : u[i] = x
                BY <2>1, <1>2 DEF InList
            <3>2. s[i + 1] = x /\ i + 1 \in DOMAIN s /\ i + 1 # 1 /\ 1 \in DOMAIN s
                BY <3>1, <1>1, <1>2
            <3> QED BY <3>2, <1>2 DEF InList, NoDuplicates
        <2>2. ASSUME InList(x, s), x # Head(s) PROVE InList(x, u)
            <3>1. PICK i \in 1 .. Len(s) : s[i] = x
                BY <2>2, <1>2 DEF InList
            <3>2. i - 1 \in DOMAIN u /\ i - 1 \in 1 .. Len(u)
                BY <3>1, <2>2, <1>1, <1>2
            <3>3. u[i - 1] = s[(i - 1) + 1] /\ (i - 1) + 1 = i
                BY <3>2, <1>1
            <3> QED BY <3>1, <3>2, <3>3 DEF InList
        <2> QED BY <2>1, <2>2
    <1>4. NoDuplicates(u)
        BY <1>1, <1>2 DEF NoDuplicates
    <1> QED BY <1>1, <1>3, <1>4

\* A receiver without messages is unlinked from the inactive list: the active
\* one does not change.
LEMMA UnlinkEmpty ==
    ASSUME ActiveIffPending, NEW r \in Receivers, messages[r] = <<>>
    PROVE  ~InList(r, active) /\ UnlinkActive(r) = active
    BY DEF ActiveIffPending, UnlinkActive

(* No message, no notification, nobody in the queue: the invariant holds at the start. *)
LEMMA QueueInvInit == Init => QueueInv
    <1> SUFFICES ASSUME Init PROVE QueueInv
        OBVIOUS
    <1>1. TypeOK
        BY EmptySeq DEF Init, TypeOK
    <1>2. \A x : ~InList(x, active)
        BY EmptySeq, InListNonEmpty, <1>1 DEF Init, TypeOK
    <1>3. ActiveIffPending /\ NoLostWakeup
        BY <1>2 DEF Init, ActiveIffPending, NoLostWakeup
    <1>4. NoDuplicates(active)
        BY DEF Init, NoDuplicates
    <1> QED BY <1>1, <1>3, <1>4 DEF Init, QueueInv

\* Every action keeps the invariant.
LEMMA QueueInvNext == QueueInv /\ [Next]_vars => QueueInv'
    <1> SUFFICES ASSUME QueueInv, [Next]_vars PROVE QueueInv'
        OBVIOUS
    <1> USE NoneAssumption DEF QueueInv
    <1>1. CASE CreateQueue
        <2>1. active = <<>> /\ active' = <<>>
            BY <1>1 DEF CreateQueue
        <2>2. TypeOK' /\ NoDuplicates(active)'
            BY <1>1, <2>1, EmptySeq DEF CreateQueue, TypeOK, lvars, NoDuplicates
        <2>3. ActiveIffPending' /\ \A r \in Receivers : messages'[r] = <<>>
            BY <1>1, <2>1 DEF CreateQueue, ActiveIffPending, InList
        <2> QED BY <1>1, <2>1, <2>2, <2>3 DEF CreateQueue, NoLostWakeup, lvars
    <1>2. CASE DestroyQueue
        <2>1. \A r \in Receivers : messages[r] = <<>>
            BY <1>2, InListNonEmpty DEF DestroyQueue, ActiveIffPending, TypeOK
        <2> QED BY <1>2, <2>1
            DEF DestroyQueue, TypeOK, ActiveIffPending, NoLostWakeup, lvars
    <1>3. ASSUME NEW r \in Receivers, RegisterReceiver(r) PROVE QueueInv'
        <2>1. messages' = messages
            BY <1>3 DEF RegisterReceiver, IsRegistered, ActiveIffPending, TypeOK
        <2>2. ActiveIffPending'
            BY <1>3, <2>1 DEF RegisterReceiver, IsRegistered, ActiveIffPending
        <2>3. NoLostWakeup'
            BY <1>3, <2>1 DEF RegisterReceiver, NoLostWakeup, WakeupPending, lvars
        <2> QED BY <1>3, <2>1, <2>2, <2>3 DEF RegisterReceiver, TypeOK, lvars
    <1>4. ASSUME NEW r \in Receivers, UnregisterReceiver(r) PROVE QueueInv'
        <2>1. active' = active
            BY <1>4, UnlinkEmpty DEF UnregisterReceiver
        <2>2. ActiveIffPending'
            BY <1>4, <2>1 DEF UnregisterReceiver, ActiveIffPending
        <2>3. NoLostWakeup'
            BY <1>4 DEF UnregisterReceiver, NoLostWakeup, WakeupPending, lvars
        <2> QED BY <1>4, <2>1, <2>2, <2>3 DEF UnregisterReceiver, TypeOK, lvars
    <1>5. ASSUME NEW t \in Senders, NEW r \in Receivers, NEW m \in Messages,
                 SendMessage(t, r, m)
          PROVE  QueueInv'
        <2> DEFINE q == messages[r]
        <2>1. /\ messages' = [messages EXCEPT ![r] = Append(q, m)]
              /\ Append(q, m) \in Seq(Messages) /\ Append(q, m) # <<>>
            BY <1>5, AppendList DEF SendMessage, LinkMessage, TypeOK
        <2>2. CASE q = <<>>
            <3>1. /\ active' = Append(active, r) /\ inactive' = inactive \ {r}
                  /\ ~InList(r, active)
                BY <1>5, <2>2, UnlinkEmpty DEF SendMessage, LinkMessage
            <3>2. /\ active' \in Seq(Receivers) /\ NoDuplicates(active')
                  /\ \A x : InList(x, active') <=> InList(x, active) \/ x = r
                BY <3>1, AppendList DEF TypeOK
            <3>3. sender' = [sender EXCEPT ![t] = "write"]
                BY <1>5, <2>2 DEF SendMessage, DoSend
            <3>4. TypeOK'
                BY <1>5, <2>1, <3>1, <3>2, <3>3 DEF SendMessage, TypeOK, lvars
            <3>5. ActiveIffPending'
                BY <2>1, <3>1, <3>2 DEF ActiveIffPending, TypeOK
            <3>6. NoLostWakeup'
                BY <3>3 DEF NoLostWakeup, WakeupPending, TypeOK
            <3> QED BY <1>5, <3>2, <3>4, <3>5, <3>6 DEF SendMessage, lvars
        <2>3. CASE q # <<>>
            <3>1. active' = active /\ inactive' = inactive
                BY <1>5, <2>3 DEF SendMessage, LinkMessage
            <3>2. sender' = sender
                BY <1>5, <2>3 DEF SendMessage, DoSend, TypeOK
            <3>3. TypeOK' /\ ActiveIffPending'
                BY <1>5, <2>1, <2>3, <3>1, <3>2
                DEF SendMessage, TypeOK, ActiveIffPending, lvars
            <3>4. NoLostWakeup'
                BY <1>5, <2>3, <3>2 DEF SendMessage, NoLostWakeup, WakeupPending, lvars
            <3> QED BY <1>5, <3>1, <3>3, <3>4 DEF SendMessage, lvars
        <2> QED BY <2>2, <2>3
    <1>6. ASSUME NEW t \in Senders, NEW r \in Receivers, SendNull(t, r)
          PROVE  QueueInv'
        <2>1. TypeOK' /\ ActiveIffPending'
            BY <1>6 DEF SendNull, DoSend, TypeOK, ActiveIffPending, qvars, lvars
        <2>2. NoLostWakeup'
            BY <1>6 DEF SendNull, DoSend, TypeOK, NoLostWakeup, WakeupPending, qvars, lvars
        <2> QED BY <1>6, <2>1, <2>2 DEF SendNull, qvars, lvars
    <1>7. ASSUME NEW t \in Senders, WriteEventfd(t) PROVE QueueInv'
        BY <1>7 DEF WriteEventfd, TypeOK, ActiveIffPending, NoLostWakeup,
                    WakeupPending, qvars, lvars
    <1>8. CASE OnRead
        BY <1>8 DEF OnRead, TypeOK, ActiveIffPending, NoLostWakeup, WakeupPending, qvars
    <1>9. CASE DetachMessages
        <2> DEFINE r == Head(active)
        <2>1. /\ r \in Receivers /\ active' = Tail(active)
              /\ active' \in Seq(Receivers) /\ NoDuplicates(active')
              /\ \A x : InList(x, active') <=> InList(x, active) /\ x # r
            BY <1>9, TailList DEF DetachMessages, TypeOK
        <2>2. /\ messages' = [messages EXCEPT ![r] = <<>>]
              /\ inactive' = inactive \cup {r}
              /\ batch' = messages[r] /\ current' = r /\ loop' = "dispatch"
            BY <1>9 DEF DetachMessages
        <2>3. TypeOK'
            BY <1>9, <2>1, <2>2, EmptySeq DEF DetachMessages, TypeOK
        <2>4. ActiveIffPending'
            BY <2>1, <2>2 DEF ActiveIffPending, TypeOK
        <2>5. NoLostWakeup'
            BY <2>2 DEF NoLostWakeup, WakeupPending
        <2>6. created
            BY <1>9 DEF DetachMessages
        <2> QED BY <1>9, <2>1, <2>2, <2>3, <2>4, <2>5, <2>6 DEF DetachMessages
    <1>10. CASE HandleMessage
        <2>1. batch' \in Seq(Messages)
            BY <1>10, HeadTailProperties DEF HandleMessage, TypeOK
        <2> QED BY <1>10, <2>1 DEF HandleMessage, TypeOK, ActiveIffPending,
                    NoLostWakeup, WakeupPending, qvars
    <1>11. CASE CallbackReturn
        BY <1>11 DEF CallbackReturn, TypeOK, ActiveIffPending, NoLostWakeup,
                     WakeupPending, qvars
    <1>12. CASE QueueCbReturn
        <2>1. \A r \in Receivers : messages[r] = <<>>
            BY <1>12, InListNonEmpty DEF QueueCbReturn, ActiveIffPending, TypeOK
        <2> QED BY <1>12, <2>1 DEF QueueCbReturn, TypeOK, ActiveIffPending,
                     NoLostWakeup, qvars
    <1>13. CASE UNCHANGED vars
        BY <1>13 DEF vars, qvars, lvars, TypeOK, ActiveIffPending, NoLostWakeup,
                     WakeupPending
    <1> QED
        BY <1>1, <1>2, <1>3, <1>4, <1>5, <1>6, <1>7, <1>8, <1>9, <1>10, <1>11,
           <1>12, <1>13 DEF Next

\* The inductive invariant holds in every behaviour of the queue, whatever the
\* number of threads, receivers and messages.
THEOREM QueueInvariant == SafeSpec => []QueueInv
    BY QueueInvInit, QueueInvNext, PTL DEF SafeSpec

\* Whatever the number of threads, receivers and messages, a queued message or
\* a NULL notification always finds the loop running or about to be woken:
\* vhttp_multithread_send_message may write to the eventfd after it released
\* the mutex, and only if it found the receiver empty.
THEOREM QueueNoLostWakeup == SafeSpec => []NoLostWakeup
    <1>1. QueueInv => NoLostWakeup
        BY DEF QueueInv
    <1> QED BY QueueInvariant, <1>1, PTL

\* A receiver is in the active list exactly while it has messages, at every
\* point where queue_cb and senders hold the mutex.
THEOREM QueueActiveIffPending == SafeSpec => []ActiveIffPending
    <1>1. QueueInv => ActiveIffPending
        BY DEF QueueInv
    <1> QED BY QueueInvariant, <1>1, PTL

------------------------------------------------------------------------------
(* The refinement.                                                         *)

\* Appending to a concatenation appends to its second half.
LEMMA ConcatAppend ==
    ASSUME NEW S, NEW s \in Seq(S), NEW u \in Seq(S), NEW e \in S
    PROVE  s \o Append(u, e) = Append(s \o u, e)
    <1>1. <<e>> \in Seq(S)
        OBVIOUS
    <1>2. Append(u, e) = u \o <<e>> /\ s \o u \in Seq(S)
        BY AppendIsConcat, ConcatProperties
    <1>3. Append(s \o u, e) = (s \o u) \o <<e>>
        BY <1>2, AppendIsConcat
    <1> QED BY <1>1, <1>2, <1>3, ConcatAssociative

\* The tail of a concatenation is the tail of its first half, then the second.
LEMMA ConcatTail ==
    ASSUME NEW S, NEW s \in Seq(S), NEW u \in Seq(S), s # <<>>
    PROVE  s \o u # <<>> /\ Tail(s \o u) = Tail(s) \o u
    <1> DEFINE c == s \o u
               v == Tail(s) \o u
    <1>1. c \in Seq(S) /\ Len(c) = Len(s) + Len(u) /\ c # <<>>
        BY ConcatProperties, ConcatEqualIffEmpty
    <1>2. /\ Tail(s) \in Seq(S) /\ Len(Tail(s)) = Len(s) - 1
          /\ \A i \in 1 .. Len(Tail(s)) : Tail(s)[i] = s[i + 1]
        BY HeadTailProperties
    <1>3. /\ Tail(c) \in Seq(S) /\ Len(Tail(c)) = Len(c) - 1
          /\ \A i \in 1 .. Len(Tail(c)) : Tail(c)[i] = c[i + 1]
        BY <1>1, HeadTailProperties
    <1>4. v \in Seq(S) /\ Len(v) = Len(Tail(s)) + Len(u)
        BY <1>2, ConcatProperties
    <1>5. Len(s) \in Nat \ {0} /\ Len(u) \in Nat
        BY EmptySeq, LenProperties
    <1>6. ASSUME NEW i \in 1 .. Len(Tail(c)) PROVE Tail(c)[i] = v[i]
        <2>1. i + 1 \in 1 .. Len(s) + Len(u) /\ i \in 1 .. Len(Tail(s)) + Len(u)
            BY <1>1, <1>2, <1>3, <1>5
        <2>2. c[i + 1] = IF i + 1 <= Len(s) THEN s[i + 1] ELSE u[i + 1 - Len(s)]
            BY <2>1, ConcatProperties
        <2>3. v[i] = IF i <= Len(Tail(s)) THEN Tail(s)[i] ELSE u[i - Len(Tail(s))]
            BY <2>1, <1>2, ConcatProperties
        <2>4. i - Len(Tail(s)) = i + 1 - Len(s)
            BY <1>2, <1>5
        <2> QED BY <1>2, <1>3, <1>5, <2>2, <2>3, <2>4
    <1>7. Len(Tail(c)) = Len(v)
        BY <1>1, <1>2, <1>3, <1>4, <1>5
    <1> QED BY <1>1, <1>3, <1>4, <1>6, <1>7, SeqEqual

\* Every step of the queue is a step of the mailboxes or leaves them alone.
LEMMA MailboxStep == QueueInv /\ [Next]_vars => [MB!Next]_mailbox
    <1> SUFFICES ASSUME QueueInv, [Next]_vars PROVE [MB!Next]_mailbox
        OBVIOUS
    <1> USE NoneAssumption DEF QueueInv
    <1>1. ASSUME UNCHANGED <<messages, current, batch>> PROVE mailbox' = mailbox
        BY <1>1 DEF mailbox
    <1>2. CASE CreateQueue \/ DestroyQueue
        BY <1>1, <1>2 DEF CreateQueue, DestroyQueue, lvars
    <1>3. ASSUME NEW r \in Receivers, RegisterReceiver(r) PROVE mailbox' = mailbox
        <2>1. messages' = messages
            BY <1>3 DEF RegisterReceiver, IsRegistered, ActiveIffPending, TypeOK
        <2> QED BY <1>1, <1>3, <2>1 DEF RegisterReceiver, lvars
    <1>4. ASSUME NEW r \in Receivers, UnregisterReceiver(r) PROVE mailbox' = mailbox
        BY <1>1, <1>4 DEF UnregisterReceiver, lvars
    <1>5. ASSUME NEW t \in Senders, NEW r \in Receivers, NEW m \in Messages,
                 SendMessage(t, r, m)
          PROVE  MB!Next
        <2>1. /\ messages' = [messages EXCEPT ![r] = Append(@, m)]
              /\ current' = current /\ batch' = batch
            BY <1>5 DEF SendMessage, LinkMessage, lvars
        <2>2. batch \in Seq(Messages) /\ messages[r] \in Seq(Messages)
            BY DEF TypeOK
        <2>3. batch \o Append(messages[r], m) = Append(batch \o messages[r], m)
            BY <2>2, ConcatAppend
        <2>4. mailbox' = [mailbox EXCEPT ![r] = Append(@, m)]
            BY <2>1, <2>3 DEF mailbox, TypeOK
        <2> QED BY <2>4 DEF MB!Next, MB!Send
    <1>6. ASSUME NEW t \in Senders, NEW r \in Receivers, SendNull(t, r)
          PROVE  mailbox' = mailbox
        BY <1>1, <1>6 DEF SendNull, qvars, lvars
    <1>7. ASSUME NEW t \in Senders, WriteEventfd(t) PROVE mailbox' = mailbox
        BY <1>1, <1>7 DEF WriteEventfd, qvars, lvars
    <1>8. CASE OnRead \/ QueueCbReturn
        BY <1>1, <1>8 DEF OnRead, QueueCbReturn, qvars
    <1>9. CASE DetachMessages
        <2> DEFINE r == Head(active)
        <2>1. /\ r \in Receivers /\ current = None /\ current' = r
              /\ messages' = [messages EXCEPT ![r] = <<>>] /\ batch' = messages[r]
            BY <1>9, HeadTailProperties DEF DetachMessages, TypeOK
        <2>2. messages[r] \o <<>> = messages[r]
            BY <2>1, ConcatEmptySeq DEF TypeOK
        <2> QED BY <2>1, <2>2 DEF mailbox, TypeOK
    <1>10. CASE HandleMessage
        <2>1. /\ current \in Receivers /\ batch # <<>> /\ batch' = Tail(batch)
              /\ current' = current /\ messages' = messages
            BY <1>10 DEF HandleMessage, TypeOK, qvars
        <2>2. /\ batch \o messages[current] # <<>>
              /\ Tail(batch \o messages[current]) = Tail(batch) \o messages[current]
            BY <2>1, ConcatTail DEF TypeOK
        <2>3. /\ mailbox[current] # <<>>
              /\ mailbox' = [mailbox EXCEPT ![current] = Tail(@)]
            BY <2>1, <2>2 DEF mailbox
        <2> QED BY <2>1, <2>3 DEF MB!Next, MB!Handle
    <1>11. CASE CallbackReturn
        <2>1. /\ current \in Receivers /\ current' = None /\ batch = <<>>
              /\ messages' = messages
            BY <1>11 DEF CallbackReturn, TypeOK, qvars
        <2>2. batch \o messages[current] = messages[current]
            BY <2>1, ConcatEmptySeq DEF TypeOK
        <2> QED BY <2>1, <2>2 DEF mailbox, TypeOK
    <1>12. CASE UNCHANGED vars
        BY <1>1, <1>12 DEF vars, qvars, lvars
    <1> QED
        BY <1>2, <1>3, <1>4, <1>5, <1>6, <1>7, <1>8, <1>9, <1>10, <1>11, <1>12
        DEF Next

\* The queue implements the mailboxes: for every receiver the messages come out
\* of the callback exactly once and in the order in which they were sent.
THEOREM QueueImplementsMailbox == SafeSpec => MB!SafeSpec
    <1>1. Init => MB!Init
        BY NoneAssumption DEF Init, MB!Init, mailbox
    <1> QED
        BY <1>1, QueueInvInit, QueueInvNext, MailboxStep, PTL DEF SafeSpec, MB!SafeSpec

-----------------------------------------------------------------------------
(* Second part: the timer wheel.  Arithmetic *)

(* Division with remainder *)
LEMMA DivMod ==
    ASSUME NEW a \in Nat, NEW d \in Nat \ {0}
    PROVE  /\ a \div d \in Nat /\ a % d \in 0 .. d - 1
           /\ a = (a \div d) * d + (a % d)
OBVIOUS

(* Multiplication by a positive number keeps the order and distributes. *)
LEMMA MulLess ==
    ASSUME NEW d \in Nat \ {0}, NEW x \in Int, NEW y \in Int
    PROVE  /\ x * d \in Int /\ y * d \in Int
           /\ x * d < y * d <=> x < y
           /\ x * d <= y * d <=> x <= y
           /\ (x + 1) * d = x * d + d /\ (y + 1) * d = y * d + d
           /\ (x + y) * d = x * d + y * d
           /\ (x - y) * d = x * d - y * d
OBVIOUS

(* Quotient and remainder are the only ones. *)
LEMMA DivUnique ==
    ASSUME NEW d \in Nat \ {0}, NEW q \in Nat, NEW m \in 0 .. d - 1
    PROVE  (q * d + m) \div d = q /\ (q * d + m) % d = m
OBVIOUS

(* a and b are at most one turn of the ring apart *)
LEMMA ModNear ==
    ASSUME NEW d \in Nat \ {0}, NEW a \in Nat, NEW j \in 0 .. d - 1
    PROVE  (a + j) % d = IF (a % d) + j < d THEN (a % d) + j ELSE (a % d) + j - d
<1> DEFINE q == a \div d
           m == a % d
<1>1. q \in Nat /\ m \in 0 .. d - 1 /\ a = q * d + m
    BY DivMod
<1> HIDE DEF q, m
<1>2. CASE m + j < d
  <2>1. m + j \in 0 .. d - 1
      BY <1>1, <1>2
  <2>2. (q * d + (m + j)) % d = m + j
      BY <1>1, <2>1, DivUnique
  <2>3. a + j = q * d + (m + j)
      BY <1>1
  <2> QED BY <1>2, <2>2, <2>3 DEF m
<1>3. CASE m + j >= d
  <2>1. m + j - d \in 0 .. d - 1 /\ q + 1 \in Nat
      BY <1>1, <1>3
  <2>2. ((q + 1) * d + (m + j - d)) % d = m + j - d
      BY <2>1, DivUnique
  <2>3. (q + 1) * d = q * d + d
      BY <1>1, MulLess
  <2>4. a + j = (q + 1) * d + (m + j - d)
      BY <1>1, <2>3
  <2> QED BY <1>1, <1>3, <2>2, <2>4 DEF m
<1> QED BY <1>1, <1>2, <1>3

-----------------------------------------------------------------------------
(* Span is defined by recursion: a function with that equation exists, or there *)
(* would be a least number of wheels without one.                             *)
SpanUpTo(n, f) == f = [w \in 0 .. n |-> IF w = 0 THEN 1 ELSE Slots * f[w - 1]]

(* There is a function with the recursion of Span. *)
LEMMA SpanExists == \E f : SpanUpTo(NumWheels, f)
<1> DEFINE Bad == {n \in Nat : ~ \E f : SpanUpTo(n, f)}
<1>1. SUFFICES ASSUME Bad # {} PROVE FALSE
    BY WheelAssumption
<1>2. PICK n \in Bad : \A m \in Bad : n <= m
    BY <1>1, LeastNat
<1>3. CASE n = 0
  <2> DEFINE f == [w \in 0 .. 0 |-> 1]
  <2>1. f = [w \in 0 .. 0 |-> IF w = 0 THEN 1 ELSE Slots * f[w - 1]]
      OBVIOUS
  <2> QED BY <1>2, <1>3, <2>1 DEF SpanUpTo
<1>4. CASE n # 0
  <2>1. n \in Nat /\ n - 1 \in Nat /\ n - 1 \notin Bad
      BY <1>2, <1>4
  <2>2. PICK f : SpanUpTo(n - 1, f)
      BY <2>1
  <2> DEFINE g == [w \in 0 .. n |-> IF w = n THEN Slots * f[n - 1] ELSE f[w]]
  <2>3. ASSUME NEW w \in 0 .. n PROVE g[w] = IF w = 0 THEN 1 ELSE Slots * g[w - 1]
    <3>1. CASE w = n
        BY <1>4, <2>1, <3>1
    <3>2. CASE w # n
      <4>1. w \in 0 .. n - 1 /\ g[w] = f[w] /\ (w # 0 => g[w - 1] = f[w - 1])
          BY <2>1, <2>3, <3>2
      <4>2. f[w] = IF w = 0 THEN 1 ELSE Slots * f[w - 1]
          BY <2>2, <4>1 DEF SpanUpTo
      <4> QED BY <4>1, <4>2
    <3> QED BY <3>1, <3>2
  <2>4. g = [w \in 0 .. n |-> IF w = 0 THEN 1 ELSE Slots * g[w - 1]]
    <3> HIDE DEF g
    <3>1. g = [w \in 0 .. n |-> g[w]]
        BY DEF g
    <3> QED BY <2>3, <3>1
  <2> QED BY <1>2, <2>4 DEF SpanUpTo
<1> QED BY <1>3, <1>4

(* The recursion of Span, the number of ticks that a slot of a wheel stands for *)
LEMMA SpanRec ==
    /\ Span[0] = 1
    /\ \A w \in 0 .. NumWheels - 1 : Span[w + 1] = Slots * Span[w]
<1>1. Span = CHOOSE f : SpanUpTo(NumWheels, f)
    BY DEF Span, SpanUpTo
<1>2. SpanUpTo(NumWheels, Span)
    BY <1>1, SpanExists
<1> QED BY <1>2, WheelAssumption DEF SpanUpTo

(* Spans are positive. *)
LEMMA SpanType == \A w \in 0 .. NumWheels : Span[w] \in Nat \ {0}
<1> DEFINE Bad == {w \in Nat : w <= NumWheels /\ Span[w] \notin Nat \ {0}}
<1>1. SUFFICES ASSUME Bad # {} PROVE FALSE
    BY WheelAssumption
<1>2. PICK n \in Bad : \A m \in Bad : n <= m
    BY <1>1, LeastNat
<1>3. n # 0
    BY <1>2, SpanRec
<1>4. n - 1 \in 0 .. NumWheels - 1 /\ Span[n - 1] \in Nat \ {0}
    BY <1>2, <1>3, WheelAssumption
<1>5. Span[n] = Slots * Span[n - 1]
    BY <1>4, SpanRec
<1>6. Slots * Span[n - 1] \in Nat \ {0}
    BY <1>4, WheelAssumption
<1> QED BY <1>2, <1>5, <1>6

(* The span of the next wheel *)
LEMMA SpanStep ==
    ASSUME NEW w \in Wheels
    PROVE  /\ Span[w] \in Nat \ {0} /\ Span[w + 1] \in Nat \ {0}
           /\ Span[w + 1] = Slots * Span[w] /\ Span[w] < Span[w + 1]
           /\ w \in 0 .. NumWheels /\ w + 1 \in 0 .. NumWheels
<1>1. w \in 0 .. NumWheels /\ w + 1 \in 0 .. NumWheels
    BY WheelAssumption DEF Wheels
<1>2. Span[w] \in Nat \ {0} /\ Span[w + 1] \in Nat \ {0} /\ Span[w + 1] = Slots * Span[w]
    BY <1>1, SpanType, SpanRec DEF Wheels
<1>3. 1 * Span[w] < Slots * Span[w] <=> 1 < Slots
    BY <1>2, WheelAssumption, MulLess
<1> QED BY <1>1, <1>2, <1>3, WheelAssumption

(* Multiples of the span of a wheel *)
Multiple(x, w) == \E k \in Nat : x = k * Span[w]

(* A multiple of the span of a wheel is one for every wheel below. *)
LEMMA MultipleBelow ==
    ASSUME NEW w \in 0 .. NumWheels, NEW x \in Nat, Multiple(x, w)
    PROVE  \A v \in 0 .. w : Multiple(x, v)
<1> DEFINE Bad == {i \in Nat : i <= w /\ ~ Multiple(x, w - i)}
<1>1. SUFFICES ASSUME Bad # {} PROVE FALSE
  <2>1. ASSUME NEW v \in 0 .. w, Bad = {} PROVE Multiple(x, v)
    <3>1. w - v \in Nat /\ w - v <= w /\ w - (w - v) = v
        BY WheelAssumption
    <3>2. Multiple(x, w - (w - v))
        BY <2>1, <3>1
    <3> QED BY <3>1, <3>2
  <2> QED BY <2>1
<1>2. PICK n \in Bad : \A m \in Bad : n <= m
    BY <1>1, LeastNat, WheelAssumption
<1>3. n # 0
    BY <1>2
<1>4. n - 1 \in 0 .. w /\ n - 1 \notin Bad
    BY <1>2, <1>3
<1>5. w - n \in 0 .. NumWheels - 1 /\ w - (n - 1) = (w - n) + 1
    BY <1>2, <1>3, WheelAssumption
<1>6. PICK k \in Nat : x = k * Span[(w - n) + 1]
    BY <1>4, <1>5 DEF Multiple
<1>7. Span[(w - n) + 1] = Slots * Span[w - n] /\ Span[w - n] \in Nat
    BY <1>5, SpanRec, SpanType, WheelAssumption
<1>8. k * Slots \in Nat /\ k * (Slots * Span[w - n]) = (k * Slots) * Span[w - n]
    BY <1>6, <1>7, WheelAssumption
<1>9. Multiple(x, w - n)
    BY <1>6, <1>7, <1>8 DEF Multiple
<1> QED BY <1>2, <1>9

(* The slot of a multiple of the span *)
LEMMA SlotOf ==
    ASSUME NEW w \in Wheels, NEW k \in Nat
    PROVE  timer_slot(w, k * Span[w]) = k % Slots
<1>1. Span[w] \in Nat \ {0}
    BY SpanStep
<1>2. (k * Span[w] + 0) \div Span[w] = k
    BY <1>1, DivUnique
<1>3. k * Span[w] \in Nat
    BY <1>1
<1> QED BY <1>2, <1>3 DEF timer_slot

(* timer_slot is a slot of the wheel. *)
LEMMA SlotType ==
    ASSUME NEW w \in Wheels, NEW x \in Nat
    PROVE  timer_slot(w, x) \in 0 .. Slots - 1
<1>1. x \div Span[w] \in Nat
    BY SpanStep, DivMod
<1>2. Slots \in Nat \ {0}
    BY WheelAssumption
<1>3. \A q \in Nat : q % Slots \in 0 .. Slots - 1
    BY <1>2, DivMod
<1> QED BY <1>1, <1>3 DEF timer_slot

(* The start of the slot that a time is in *)
LEMMA Floor ==
    ASSUME NEW w \in Wheels, NEW x \in Nat
    PROVE  \E T \in Nat : /\ Multiple(T, w) /\ T <= x /\ x < T + Span[w]
                          /\ timer_slot(w, T) = timer_slot(w, x)
<1> DEFINE q == x \div Span[w]
           T == q * Span[w]
<1>1. Span[w] \in Nat \ {0}
    BY SpanStep
<1>2. q \in Nat /\ x % Span[w] \in 0 .. Span[w] - 1 /\ x = T + (x % Span[w])
    BY <1>1, DivMod
<1>3. timer_slot(w, T) = q % Slots
    BY <1>2, SlotOf
<1>4. timer_slot(w, x) = q % Slots
    BY DEF timer_slot
<1>5. T \in Nat
    BY <1>1, <1>2
<1> HIDE DEF T
<1>6. T <= x /\ x < T + Span[w]
    BY <1>1, <1>2, <1>5
<1>7. Multiple(T, w)
    BY <1>2 DEF Multiple, T
<1> QED BY <1>3, <1>4, <1>5, <1>6, <1>7

(* Within one turn of the wheel, the slot tells the time. *)
LEMMA Position ==
    ASSUME NEW w \in Wheels, NEW a \in Nat, NEW T \in Nat, Multiple(a, w), Multiple(T, w),
           a <= T, T < a + Span[w + 1]
    PROVE  LET base == timer_slot(w, a)  s == timer_slot(w, T)
           IN /\ base <= s => T = a + (s - base) * Span[w]
              /\ s < base => T = a + ((Slots - base) + s) * Span[w]
<1>1. PICK i \in Nat : a = i * Span[w]
    BY DEF Multiple
<1>2. PICK k \in Nat : T = k * Span[w]
    BY DEF Multiple
<1>3. Span[w] \in Nat \ {0} /\ Span[w + 1] = Slots * Span[w]
    BY SpanStep
<1>4. i <= k
    BY <1>1, <1>2, <1>3, MulLess
<1>5. k < i + Slots
  <2>1. (i + Slots) * Span[w] = i * Span[w] + Slots * Span[w]
      BY <1>3, WheelAssumption, MulLess
  <2>2. k * Span[w] < (i + Slots) * Span[w]
      BY <1>1, <1>2, <1>3, <2>1
  <2>3. i + Slots \in Int /\ k \in Int
      BY WheelAssumption
  <2> HIDE <1>1, <1>2
  <2> QED BY <1>3, <2>2, <2>3, MulLess
<1> DEFINE j == k - i
<1>6. j \in 0 .. Slots - 1 /\ k = i + j
    BY <1>4, <1>5, WheelAssumption
<1> HIDE DEF j
<1>7. timer_slot(w, a) = i % Slots /\ timer_slot(w, T) = k % Slots
    BY <1>1, <1>2, SlotOf
<1>8. k % Slots = IF (i % Slots) + j < Slots THEN (i % Slots) + j ELSE (i % Slots) + j - Slots
  <2>1. Slots \in Nat \ {0}
      BY WheelAssumption
  <2> HIDE <1>1, <1>2, <1>3
  <2>2. (i + j) % Slots = IF (i % Slots) + j < Slots THEN (i % Slots) + j
                          ELSE (i % Slots) + j - Slots
      BY <1>6, <2>1, ModNear
  <2> QED BY <1>6, <2>2
<1>9. i % Slots \in 0 .. Slots - 1
    BY DivMod, WheelAssumption
<1>10. T = a + j * Span[w]
    BY <1>1, <1>2, <1>3, <1>6, MulLess
<1>11. CASE (i % Slots) + j < Slots
  <2>1. (k % Slots) - (i % Slots) = j /\ i % Slots <= k % Slots
      BY <1>6, <1>8, <1>9, <1>11, WheelAssumption
  <2> QED BY <1>7, <1>10, <2>1, <1>9, <1>6, WheelAssumption
<1>12. CASE (i % Slots) + j >= Slots
  <2>1. (Slots - (i % Slots)) + (k % Slots) = j /\ ~ (i % Slots <= k % Slots)
      BY <1>6, <1>8, <1>9, <1>12, WheelAssumption
  <2> QED BY <1>7, <1>10, <2>1, <1>9, <1>6, WheelAssumption
<1> QED BY <1>6, <1>9, <1>11, <1>12, WheelAssumption

(* Within one turn of the wheel, a slot is due once. *)
LEMMA SlotInjective ==
    ASSUME NEW w \in Wheels, NEW a \in Nat, NEW T \in Nat, Multiple(a, w), Multiple(T, w),
           a <= T, T < a + Span[w + 1], timer_slot(w, a) = timer_slot(w, T)
    PROVE  T = a
<1>1. timer_slot(w, a) \in 0 .. Slots - 1
    BY SlotType
<1>2. T = a + (timer_slot(w, a) - timer_slot(w, a)) * Span[w]
    BY <1>1, Position
<1>3. timer_slot(w, a) - timer_slot(w, a) = 0
    BY <1>1
<1>4. 0 * Span[w] = 0
    BY SpanStep
<1> QED BY <1>2, <1>3, <1>4

(* Multiples of a span are a span apart. *)
LEMMA MultipleStep ==
    ASSUME NEW w \in 0 .. NumWheels, NEW a \in Nat, NEW T \in Nat, Multiple(a, w), Multiple(T, w)
    PROVE  /\ a < T => a + Span[w] <= T
           /\ Multiple(a + Span[w], w)
<1>1. PICK i \in Nat : a = i * Span[w]
    BY DEF Multiple
<1>2. PICK k \in Nat : T = k * Span[w]
    BY DEF Multiple
<1>3. Span[w] \in Nat \ {0}
    BY SpanType
<1>4. (i + 1) * Span[w] = a + Span[w]
    BY <1>1, <1>3, MulLess
<1>5. a < T => i < k
    BY <1>1, <1>2, <1>3, MulLess
<1>6. i < k => (i + 1) * Span[w] <= k * Span[w]
    BY <1>3, MulLess
<1> QED BY <1>2, <1>4, <1>5, <1>6 DEF Multiple

(* A wheel is at slot 0 when the wheel above moves on. *)
LEMMA SlotZero ==
    ASSUME NEW w \in Wheels, NEW a \in Nat, Multiple(a, w)
    PROVE  timer_slot(w, a) = 0 <=> Multiple(a, w + 1)
<1>1. PICK i \in Nat : a = i * Span[w]
    BY DEF Multiple
<1>2. Span[w] \in Nat \ {0} /\ Span[w + 1] = Slots * Span[w]
    BY SpanStep
<1>3. timer_slot(w, a) = i % Slots
    BY <1>1, SlotOf
<1>4. ASSUME i % Slots = 0 PROVE Multiple(a, w + 1)
  <2>1. i \div Slots \in Nat /\ i = (i \div Slots) * Slots
    <3>1. Slots \in Nat \ {0}
        BY WheelAssumption
    <3>2. i \div Slots \in Nat /\ i = (i \div Slots) * Slots + (i % Slots)
        BY <3>1, DivMod
    <3> QED BY <1>4, <3>1, <3>2
  <2>2. ASSUME NEW q \in Nat, i = q * Slots PROVE a = q * (Slots * Span[w])
      BY <1>1, <1>2, <2>2, WheelAssumption
  <2> QED BY <1>2, <2>1, <2>2 DEF Multiple
<1>5. ASSUME Multiple(a, w + 1) PROVE i % Slots = 0
  <2>1. PICK q \in Nat : a = q * Span[w + 1]
      BY <1>5 DEF Multiple
  <2>2. (q * Slots) * Span[w] = i * Span[w] /\ q * Slots \in Nat
      BY <1>1, <1>2, <2>1, WheelAssumption
  <2>3. q * Slots = i
    <3> DEFINE y == q * Slots
    <3> HIDE DEF y
    <3>1. y \in Nat /\ y * Span[w] = i * Span[w]
        BY <2>2 DEF y
    <3>2. y <= i /\ i <= y
      <4> HIDE <1>1
      <4> QED BY <1>2, <3>1, MulLess
    <3> QED BY <3>1, <3>2 DEF y
  <2>4. (q * Slots + 0) % Slots = 0
      BY DivUnique, WheelAssumption
  <2> QED BY <2>2, <2>3, <2>4
<1> QED BY <1>3, <1>4, <1>5

(* The next slot, or the end of the wheel *)
LEMMA SlotNext ==
    ASSUME NEW w \in Wheels, NEW a \in Nat, Multiple(a, w)
    PROVE  /\ timer_slot(w, a) + 1 < Slots =>
                 /\ timer_slot(w, a + Span[w]) = timer_slot(w, a) + 1
                 /\ ~ Multiple(a + Span[w], w + 1)
           /\ timer_slot(w, a) + 1 >= Slots => Multiple(a + Span[w], w + 1)
           /\ Multiple(a + Span[w], w)
<1>1. PICK i \in Nat : a = i * Span[w]
    BY DEF Multiple
<1>2. Span[w] \in Nat \ {0} /\ w \in 0 .. NumWheels
    BY SpanStep
<1>3. a + Span[w] = (i + 1) * Span[w] /\ a + Span[w] \in Nat
    BY <1>1, <1>2, MulLess
<1>4. timer_slot(w, a) = i % Slots /\ timer_slot(w, a + Span[w]) = (i + 1) % Slots
    BY <1>1, <1>3, SlotOf
<1>5. Multiple(a + Span[w], w)
    BY <1>3 DEF Multiple
<1>6. Slots \in Nat \ {0} /\ 1 \in 0 .. Slots - 1
    BY WheelAssumption
<1>7. i % Slots \in 0 .. Slots - 1
    BY <1>6, DivMod
<1>8. (i + 1) % Slots = IF (i % Slots) + 1 < Slots THEN (i % Slots) + 1 ELSE (i % Slots) + 1 - Slots
  <2> HIDE <1>1
  <2> QED BY <1>6, ModNear
<1>9. timer_slot(w, a + Span[w]) = 0 <=> Multiple(a + Span[w], w + 1)
    BY <1>3, <1>5, SlotZero
<1> HIDE <1>1
<1> QED BY <1>4, <1>5, <1>6, <1>7, <1>8, <1>9

(* The end of the current turn of a wheel: the next multiple of the span above. *)
LEMMA NextTurn ==
    ASSUME NEW w \in Wheels, NEW a \in Nat, Multiple(a, w)
    PROVE  LET end == a + (Slots - timer_slot(w, a)) * Span[w]
           IN /\ end \in Nat /\ Multiple(end, w + 1) /\ Multiple(end, w)
              /\ a < end /\ end <= a + Span[w + 1]
              /\ \A T \in Nat : Multiple(T, w + 1) /\ a < T => end <= T
<1> DEFINE base == timer_slot(w, a)
           end == a + (Slots - base) * Span[w]
<1>1. PICK i \in Nat : a = i * Span[w]
    BY DEF Multiple
<1>2. /\ Span[w] \in Nat \ {0} /\ Span[w + 1] \in Nat \ {0} /\ Span[w + 1] = Slots * Span[w]
      /\ w + 1 \in 0 .. NumWheels
    BY SpanStep
<1>3. base = i % Slots /\ Slots \in Nat \ {0}
    BY <1>1, SlotOf, WheelAssumption
<1> DEFINE q == i \div Slots
<1>4. q \in Nat /\ base \in 0 .. Slots - 1 /\ i = q * Slots + base
    BY <1>3, DivMod
<1> HIDE DEF q, base
<1>5. q * Slots \in Nat /\ (q + 1) * Slots = q * Slots + Slots /\ q + 1 \in Nat
    BY <1>3, <1>4, MulLess
<1>6. end = (i + (Slots - base)) * Span[w]
    BY <1>1, <1>2, <1>3, <1>4, MulLess
<1>7. i + (Slots - base) = (q + 1) * Slots
    BY <1>3, <1>4, <1>5
<1>8. end = (q + 1) * Span[w + 1]
    BY <1>2, <1>3, <1>5, <1>6, <1>7
<1>9. Multiple(end, w + 1)
    BY <1>5, <1>8 DEF Multiple
<1>10. Multiple(end, w)
    BY <1>5, <1>6, <1>7, <1>3 DEF Multiple
<1>11. end \in Nat
    BY <1>2, <1>5, <1>8
<1>12. a < end
  <2>1. i < i + (Slots - base) /\ i + (Slots - base) \in Int
      BY <1>3, <1>4
  <2>2. i * Span[w] < (i + (Slots - base)) * Span[w]
    <3> DEFINE z == i + (Slots - base)
    <3> HIDE DEF z
    <3> QED BY <1>2, <2>1, MulLess DEF z
  <2> HIDE DEF end
  <2> QED BY <1>1, <1>6, <2>2
<1>13. end <= a + Span[w + 1]
  <2>1. i + (Slots - base) <= i + Slots /\ i + (Slots - base) \in Int /\ i + Slots \in Int
      BY <1>3, <1>4
  <2>2. (i + (Slots - base)) * Span[w] <= (i + Slots) * Span[w]
    <3> DEFINE z == i + (Slots - base)
               y == i + Slots
    <3> HIDE DEF z, y
    <3> QED BY <1>2, <2>1, MulLess DEF z, y
  <2>3. (i + Slots) * Span[w] = i * Span[w] + Slots * Span[w]
    <3>1. Span[w] \in Nat \ {0} /\ Slots \in Int /\ i \in Int
        BY <1>2, <1>3
    <3> QED BY <3>1, MulLess
  <2> HIDE DEF end
  <2> QED BY <1>1, <1>2, <1>6, <2>2, <2>3
<1>14. ASSUME NEW T \in Nat, Multiple(T, w + 1), a < T PROVE end <= T
  <2>1. PICK k \in Nat : T = k * Span[w + 1]
      BY <1>14 DEF Multiple
  <2>2. q * Span[w + 1] <= a
    <3>1. q * Slots <= i /\ q * Slots \in Int
        BY <1>3, <1>4, <1>5
    <3>2. (q * Slots) * Span[w] <= i * Span[w]
      <4> DEFINE z == q * Slots
      <4> HIDE DEF z
      <4> QED BY <1>2, <3>1, MulLess DEF z
    <3>3. (q * Slots) * Span[w] = q * Span[w + 1]
        BY <1>2, <1>3, <1>4
    <3> QED BY <1>1, <3>2, <3>3
  <2>3. q * Span[w + 1] < k * Span[w + 1]
    <3>1. q * Span[w + 1] \in Nat /\ k * Span[w + 1] \in Nat
        BY <1>2, <1>4
    <3> QED BY <1>14, <2>1, <2>2, <3>1
  <2>4. q < k
      BY <1>2, <1>4, <2>3, MulLess
  <2>5. (q + 1) * Span[w + 1] <= k * Span[w + 1]
    <3>1. q + 1 <= k /\ q + 1 \in Int
        BY <1>4, <2>4
    <3> DEFINE z == q + 1
    <3> HIDE DEF z
    <3> QED BY <1>2, <3>1, MulLess DEF z
  <2> QED BY <1>8, <2>1, <2>5
<1> QED BY <1>9, <1>10, <1>11, <1>12, <1>13, <1>14 DEF base

(* If the wheels between are at slot 0, the time is a multiple above them. *)
LEMMA Rising ==
    ASSUME NEW x \in Nat, NEW f \in 0 .. NumWheels, NEW w \in f .. NumWheels, Multiple(x, f),
           \A v \in f .. w - 1 : timer_slot(v, x) = 0
    PROVE  Multiple(x, w)
<1> DEFINE Bad == {n \in Nat : f <= n /\ n <= w /\ ~ Multiple(x, n)}
<1>1. SUFFICES ASSUME Bad # {} PROVE FALSE
    BY WheelAssumption
<1>2. PICK n \in Bad : \A m \in Bad : n <= m
    BY <1>1, LeastNat
<1>3. n # f
    BY <1>2
<1>4. n - 1 \in f .. w - 1 /\ n - 1 \in Wheels /\ n - 1 \in Nat /\ n - 1 <= w
    BY <1>2, <1>3, WheelAssumption DEF Wheels
<1>5. Multiple(x, n - 1)
    BY <1>2, <1>4
<1>6. Multiple(x, (n - 1) + 1)
    BY <1>4, <1>5, SlotZero
<1>7. (n - 1) + 1 = n
    BY <1>2
<1> QED BY <1>2, <1>6, <1>7

(* A larger wheel has a larger span. *)
LEMMA SpanMonotone ==
    ASSUME NEW v \in 0 .. NumWheels, NEW w \in 0 .. NumWheels, v <= w
    PROVE  Span[v] <= Span[w]
<1> DEFINE Bad == {n \in Nat : v <= n /\ n <= w /\ ~ (Span[v] <= Span[n])}
<1>1. SUFFICES ASSUME Bad # {} PROVE FALSE
    BY WheelAssumption
<1>2. PICK n \in Bad : \A m \in Bad : n <= m
    BY <1>1, LeastNat
<1>3. n # v
    BY <1>2, SpanType
<1>4. n - 1 \in Wheels /\ n - 1 \in Nat /\ v <= n - 1 /\ n - 1 <= w /\ n - 1 \notin Bad
    BY <1>2, <1>3, WheelAssumption DEF Wheels
<1>5. Span[n - 1] < Span[(n - 1) + 1] /\ Span[n - 1] \in Nat /\ Span[(n - 1) + 1] \in Nat
    BY <1>4, SpanStep
<1>6. (n - 1) + 1 = n
    BY <1>2
<1> QED BY <1>2, <1>4, <1>5, <1>6, SpanType

(* The farthest time, seen from the last run, that the highest wheel reaches. *)
LEMMA MaxTicks ==
    /\ max_ticks \in Nat /\ Span[NumWheels - 1] <= max_ticks
    /\ max_ticks + Span[NumWheels - 1] = Span[NumWheels]
    /\ NumWheels - 1 \in Wheels /\ (NumWheels - 1) + 1 = NumWheels
<1>1. NumWheels - 1 \in Wheels /\ (NumWheels - 1) + 1 = NumWheels
    BY WheelAssumption DEF Wheels
<1> DEFINE P == Span[NumWheels - 1]
<1>2. P \in Nat \ {0} /\ Span[NumWheels] = Slots * P
    BY <1>1, SpanStep
<1> HIDE DEF P
<1>3. Slots - 1 \in Nat /\ 1 <= Slots - 1 /\ Slots = (Slots - 1) + 1
    BY WheelAssumption
<1>4. ((Slots - 1) + 1) * P = (Slots - 1) * P + P
    BY <1>2, <1>3, MulLess
<1>5. 1 * P <= (Slots - 1) * P
    BY <1>2, <1>3, MulLess
<1>6. P * (Slots - 1) = (Slots - 1) * P /\ (Slots - 1) * P \in Nat
    BY <1>2, <1>3
<1>7. max_ticks = (Slots - 1) * P
    BY <1>6 DEF max_ticks, P
<1> QED BY <1>1, <1>2, <1>3, <1>4, <1>5, <1>6, <1>7 DEF P

(* timer_wheel finds the wheel with the highest digit of the time left. *)
LEMMA TimerWheelFacts ==
    ASSUME NEW delta \in 0 .. max_ticks
    PROVE  /\ timer_wheel(delta) \in Wheels
           /\ timer_wheel(delta) > 0 => Span[timer_wheel(delta)] <= delta
           /\ delta < Span[timer_wheel(delta) + 1]
<1>1. CASE delta = 0
  <2>1. timer_wheel(delta) = 0 /\ 0 \in Wheels
      BY <1>1, WheelAssumption DEF timer_wheel, Wheels
  <2>2. Span[0 + 1] \in Nat \ {0}
      BY <2>1, SpanStep
  <2> QED BY <1>1, <2>1, <2>2
<1>2. CASE delta # 0
  <2> DEFINE Big == {n \in Nat : n + 1 <= NumWheels /\ delta < Span[n + 1]}
  <2>0. delta \in Nat
      BY MaxTicks
  <2>1. NumWheels - 1 \in Big
    <3>1. NumWheels - 1 \in Nat /\ (NumWheels - 1) + 1 <= NumWheels
        BY WheelAssumption
    <3>2. delta < Span[NumWheels]
        BY MaxTicks, SpanStep
    <3> QED BY <3>1, <3>2, MaxTicks
  <2>2. PICK n \in Big : \A m \in Big : n <= m
      BY <2>1, LeastNat
  <2>3. n \in Wheels
      BY <2>2, WheelAssumption DEF Wheels
  <2>4. Span[n] <= delta
    <3>1. CASE n = 0
        BY <1>2, <2>0, <3>1, SpanRec
    <3>2. CASE n # 0
      <4>1. n - 1 \in Nat /\ (n - 1) + 1 <= NumWheels /\ (n - 1) + 1 = n /\ ~ (n <= n - 1)
          BY <2>2, <3>2, WheelAssumption
      <4>2. n - 1 \notin Big
          BY <2>2, <4>1
      <4>3. ~ (delta < Span[n])
          BY <4>1, <4>2
      <4> QED BY <2>0, <2>3, <4>3, SpanStep
    <3> QED BY <3>1, <3>2
  <2>5. Span[n] <= delta /\ delta < Span[n + 1]
      BY <2>2, <2>4
  <2>6. timer_wheel(delta) = CHOOSE w \in Wheels : Span[w] <= delta /\ delta < Span[w + 1]
      BY <1>2 DEF timer_wheel
  <2> QED BY <2>3, <2>5, <2>6
<1> QED BY <1>1, <1>2

(* link_timer puts a timer where its slot is due within a turn of the wheel, not *)
(* after its time, and not at once unless the wheel is the lowest.               *)
LEMMA SlotForFacts ==
    ASSUME NEW at \in Nat, NEW run \in Nat, run <= at
    PROVE  \E w \in Wheels, T \in 0 .. at :
              /\ SlotFor(at, run) = Slot(w, timer_slot(w, T))
              /\ Multiple(T, w) /\ (w < NumWheels - 1 => at < T + Span[w])
              /\ run <= T /\ T < run + Span[w + 1]
              /\ w > 0 => run < T
              /\ \A v \in Wheels : v > 0 /\ at < run + Span[v] => w < v
<1> DEFINE abs == IF at > run + max_ticks THEN run + max_ticks ELSE at
           delta == abs - run
           w == timer_wheel(delta)
<1>1. abs \in Nat /\ abs <= at /\ run <= abs /\ delta \in 0 .. max_ticks /\ abs = run + delta
    BY MaxTicks
<1>2. w \in Wheels /\ (w > 0 => Span[w] <= delta) /\ delta < Span[w + 1]
    BY <1>1, TimerWheelFacts
<1>3. SlotFor(at, run) = Slot(w, timer_slot(w, abs))
    BY DEF SlotFor
<1>4. w < NumWheels - 1 => abs = at
  <2>1. SUFFICES ASSUME w < NumWheels - 1, at > run + max_ticks PROVE FALSE
      OBVIOUS
  <2>2. delta = max_ticks
      BY <2>1, MaxTicks
  <2>3. Span[w + 1] <= Span[NumWheels - 1]
    <3>1. w + 1 \in 0 .. NumWheels /\ NumWheels - 1 \in 0 .. NumWheels /\ w + 1 <= NumWheels - 1
        BY <1>2, <2>1, WheelAssumption DEF Wheels
    <3> QED BY <3>1, SpanMonotone
  <2> HIDE DEF w, delta, abs
  <2> QED BY <1>2, <2>2, <2>3, MaxTicks, SpanStep
<1> HIDE DEF w, delta, abs
<1>5. PICK T \in Nat : /\ Multiple(T, w) /\ T <= abs /\ abs < T + Span[w]
                       /\ timer_slot(w, T) = timer_slot(w, abs)
    BY <1>1, <1>2, Floor
<1>6. Span[w] \in Nat \ {0} /\ Span[w + 1] \in Nat \ {0}
    BY <1>2, SpanStep
<1>7. w > 0 => run < T
    BY <1>1, <1>2, <1>5, <1>6
<1>8. run <= T
  <2>1. CASE w = 0
      BY <1>1, <1>5, <2>1, SpanRec
  <2> QED BY <1>2, <1>7, <2>1 DEF Wheels
<1>9. T < run + Span[w + 1] /\ T <= at
    BY <1>1, <1>2, <1>5, <1>6
<1>10. ASSUME NEW v \in Wheels, v > 0, at < run + Span[v] PROVE w < v
  <2>1. Span[v] \in Nat \ {0}
      BY SpanStep
  <2>2. delta < Span[v]
      BY <1>1, <1>10, <2>1
  <2>3. CASE w >= v
    <3>1. Span[v] <= Span[w]
        BY <1>2, <2>3, SpanMonotone, SpanStep
    <3>2. w > 0
        BY <1>2, <1>10, <2>3 DEF Wheels
    <3> QED BY <1>1, <1>2, <1>6, <2>1, <2>2, <3>1, <3>2
  <2> QED BY <1>2, <2>3 DEF Wheels
<1>11. w < NumWheels - 1 => at < T + Span[w]
    BY <1>4, <1>5
<1>12. T \in 0 .. at
    BY <1>9
<1> QED BY <1>2, <1>3, <1>5, <1>7, <1>8, <1>9, <1>10, <1>11, <1>12

(* A timer in slot s of wheel w: the slot is due at T, within one turn of the *)
(* wheel, and T is the start of a span that has the time of the timer in it.  *)
(* The highest wheel also holds what is farther away.                         *)
Begins(t, w, s, T) ==
    /\ Multiple(T, w) /\ s = timer_slot(w, T)
    /\ T <= expire_at[t] /\ (w < NumWheels - 1 => expire_at[t] < T + Span[w])
    /\ last_run <= T /\ T < last_run + Span[w + 1]

(* Whether a slot of wheel w may be due at the time the wheel was run until. *)
MayBeDue(w) ==
    \/ phase = "carry"
    \/ phase = "scan" /\ w \in {0, cursor.wheel}
    \/ phase \in {"pending", "callback"} /\ w = 0
    \/ phase = "poll" /\ now < last_run /\ w = 0

Placed ==
    \A t \in Timers, w \in Wheels, s \in 0 .. Slots - 1 :
        place[t] = Slot(w, s) =>
            \E T \in 0 .. expire_at[t] : Begins(t, w, s, T) /\ (T = last_run => MayBeDue(w))

(* What get_expired has passed has nothing in it. *)
Passed ==
    phase \in {"scan", "carry"} =>
        \A t \in Timers :
            /\ \A w \in 0 .. cursor.wheel - 1, s \in 0 .. Slots - 1 : place[t] # Slot(w, s)
            /\ \A s \in cursor.slot_start .. (IF phase = "scan" THEN cursor.slot - 1 ELSE Slots - 1) :
                  place[t] # Slot(cursor.wheel, s)

CursorOK ==
    /\ phase \in {"scan", "carry"} => last_run <= now
    /\ phase = "scan" => /\ Multiple(last_run, cursor.wheel)
                         /\ cursor.slot = timer_slot(cursor.wheel, last_run)
                         /\ cursor.slot_start <= cursor.slot
    /\ phase = "carry" => Multiple(last_run, cursor.wheel + 1)

ClockOK ==
    /\ phase \in {"expired", "callback"} => last_run = now
    /\ phase = "poll" => now <= last_run
    /\ rewinds = 0 => last_run <= now

ExpiredOK ==
    \A t \in Timers : place[t] = Expired => expire_at[t] <= now /\ phase \notin {"poll", "pending"}

WheelIInv == WheelTypeOK /\ fail = "no" /\ Placed /\ Passed /\ CursorOK /\ ClockOK /\ ExpiredOK

(* Slots, the list of expired timers and nowhere are different places. *)
LEMMA SlotTuple ==
    /\ Unlinked # Expired
    /\ \A w, s : Slot(w, s) # Unlinked /\ Slot(w, s) # Expired /\ Slot(w, s)[1] = "slot"
    /\ \A w, s, v, u : Slot(w, s) = Slot(v, u) <=> w = v /\ s = u
    /\ Unlinked[1] # "slot" /\ Expired[1] # "slot"
BY DEF Slot, Unlinked, Expired

(* A linked timer is in a slot of one of the wheels. *)
LEMMA LinkedIff ==
    ASSUME WheelTypeOK
    PROVE  \A t \in Timers : t \in Linked <=> \E w \in Wheels, s \in 0 .. Slots - 1 : place[t] = Slot(w, s)
BY SlotTuple DEF WheelTypeOK, Linked, Places

(* The lists of one slot hold what is due at the time of the search when the    *)
(* search is at a multiple of the span.                                         *)
LEMMA CurrentSlot ==
    ASSUME Placed, last_run \in Nat, NEW w \in Wheels, Multiple(last_run, w), NEW t \in Timers,
           place[t] = Slot(w, timer_slot(w, last_run))
    PROVE  Begins(t, w, timer_slot(w, last_run), last_run) /\ MayBeDue(w)
<1> DEFINE s == timer_slot(w, last_run)
<1>1. s \in 0 .. Slots - 1
    BY SlotType
<1>2. PICK T \in 0 .. expire_at[t] : Begins(t, w, s, T) /\ (T = last_run => MayBeDue(w))
    BY <1>1 DEF Placed
<1>3. T \in Nat
    OBVIOUS
<1>4. T = last_run
    BY <1>2, <1>3, SlotInjective DEF Begins
<1> QED BY <1>2, <1>4

-----------------------------------------------------------------------------
(* get_wake_at *)

(* The first slot in a range that has a timer, or the end of the range *)
LEMMA FirstFullFacts ==
    ASSUME NEW w \in Wheels, NEW lo \in Nat, NEW hi \in Nat, lo <= hi
    PROVE  /\ FirstFull(w, lo, hi) \in lo .. hi
           /\ FirstFull(w, lo, hi) < hi => In(w, FirstFull(w, lo, hi)) # {}
           /\ \A s \in lo .. hi - 1 : In(w, s) # {} => FirstFull(w, lo, hi) <= s
<1> DEFINE full == {s \in lo .. hi - 1 : In(w, s) # {}}
<1>1. CASE full = {}
  <2>1. FirstFull(w, lo, hi) = hi
      BY <1>1 DEF FirstFull
  <2> QED BY <1>1, <2>1
<1>2. CASE full # {}
  <2>1. full \in SUBSET Nat
      OBVIOUS
  <2>2. \E s \in full : \A u \in full : s <= u
    <3> HIDE DEF full
    <3> QED BY <1>2, <2>1, LeastNat
  <2>3. FirstFull(w, lo, hi) = CHOOSE s \in full : \A u \in full : s <= u
      BY <1>2 DEF FirstFull
  <2>4. FirstFull(w, lo, hi) \in full /\ \A u \in full : FirstFull(w, lo, hi) <= u
    <3> HIDE DEF full
    <3> QED BY <2>2, <2>3
  <2> QED BY <2>4
<1> QED BY <1>1, <1>2

(* The slot of t is due at T, later than now unless the wheel is the lowest. *)
LinkedAt(t, v, s, T) ==
    place[t] = Slot(v, s) /\ Begins(t, v, s, T) /\ (v > 0 => last_run < T)

(* Before the search of wheel w, from the time a: what is below is empty, and *)
(* nothing is due before a, nor at a if it is above w.                        *)
Searched(w, a) ==
    /\ a \in Nat /\ last_run <= a /\ Multiple(a, w)
    /\ \A t \in Timers, v \in 0 .. w - 1, s \in 0 .. Slots - 1 : place[t] # Slot(v, s)
    /\ \A t \in Timers, v \in Wheels, s \in 0 .. Slots - 1, T \in Nat :
          LinkedAt(t, v, s, T) => a <= T /\ (v > w => a < T)

NotLate(a) ==
    /\ a \in Nat
    /\ \E t \in Timers, v \in Wheels, s \in 0 .. Slots - 1 : place[t] = Slot(v, s)
    /\ \A t \in Timers, v \in Wheels, s \in 0 .. Slots - 1, T \in Nat :
          LinkedAt(t, v, s, T) => a <= T

(* A slot above w that is due at x is one that the carry looks at. *)
LEMMA CarryLooks ==
    ASSUME NEW w \in Wheels, NEW x \in Nat, NEW t \in Timers, NEW v \in Wheels,
           NEW s \in 0 .. Slots - 1, w < v, LinkedAt(t, v, s, x), ~ CarryFull(w, x)
    PROVE  FALSE
<1>1. Multiple(x, v) /\ s = timer_slot(v, x) /\ place[t] = Slot(v, s)
    BY DEF LinkedAt, Begins
<1>2. t \in In(v, timer_slot(v, x))
    BY <1>1 DEF In
<1>3. v \in w + 1 .. NumWheels - 1 /\ v \in 0 .. NumWheels
    BY WheelAssumption DEF Wheels
<1>4. ASSUME NEW u \in w + 1 .. v - 1 PROVE timer_slot(u, x) = 0
  <2>1. u \in Wheels /\ u \in 0 .. v /\ u + 1 \in 0 .. v
      BY WheelAssumption DEF Wheels
  <2>2. Multiple(x, u) /\ Multiple(x, u + 1)
      BY <1>1, <1>3, <2>1, MultipleBelow
  <2> QED BY <2>1, <2>2, SlotZero
<1> QED BY <1>2, <1>3, <1>4 DEF CarryFull

(* If the carry finds something, there is a timer. *)
LEMMA CarryLinked ==
    ASSUME NEW w \in Wheels, NEW x \in Nat, CarryFull(w, x)
    PROVE  \E t \in Timers, v \in Wheels, s \in 0 .. Slots - 1 : place[t] = Slot(v, s)
<1>1. PICK v \in w + 1 .. NumWheels - 1 : In(v, timer_slot(v, x)) # {}
    BY DEF CarryFull
<1>2. v \in Wheels
    BY WheelAssumption DEF Wheels
<1>3. timer_slot(v, x) \in 0 .. Slots - 1
    BY <1>2, SlotType
<1>4. PICK t \in Timers : place[t] = Slot(v, timer_slot(v, x))
    BY <1>1 DEF In
<1> QED BY <1>2, <1>3, <1>4

(* The search of one wheel finds a time that is not late, or gets the next wheel ready. *)
LEMMA SearchStep ==
    ASSUME NEW w \in Wheels, NEW a, Searched(w, a), last_run \in Nat
    PROVE  LET r == SearchWheel(w, a)
           IN /\ r.found \in BOOLEAN
              /\ r.found => NotLate(r.at)
              /\ ~ r.found => Searched(w + 1, r.at)
<1> DEFINE base == timer_slot(w, a)
           P == Span[w]
           first == FirstFull(w, base, Slots)
           carry == a + (Slots - base) * P
           second == FirstFull(w, 0, base)
           carry2 == carry + Slots * P
<1>1. a \in Nat /\ last_run <= a /\ Multiple(a, w)
    BY DEF Searched
<1>2. base \in 0 .. Slots - 1 /\ Slots \in Nat
    BY <1>1, SlotType, WheelAssumption
<1>3. /\ P \in Nat \ {0} /\ Span[w + 1] = Slots * P /\ Span[w + 1] \in Nat \ {0}
      /\ w \in 0 .. NumWheels /\ w + 1 \in 0 .. NumWheels
    BY SpanStep
<1>4. /\ first \in base .. Slots /\ (first < Slots => In(w, first) # {})
      /\ \A s \in base .. Slots - 1 : In(w, s) # {} => first <= s
    BY <1>2, FirstFullFacts
<1>5. /\ second \in 0 .. base /\ (second < base => In(w, second) # {})
      /\ \A s \in 0 .. base - 1 : In(w, s) # {} => second <= s
    BY <1>2, FirstFullFacts
<1>6. /\ carry \in Nat /\ Multiple(carry, w + 1) /\ Multiple(carry, w) /\ a < carry
      /\ carry <= a + Span[w + 1]
      /\ \A T \in Nat : Multiple(T, w + 1) /\ a < T => carry <= T
    BY <1>1, NextTurn
<1>7. carry2 = carry + Span[w + 1] /\ carry2 \in Nat
    BY <1>3, <1>6
<1>8. Multiple(carry2, w + 1)
    BY <1>3, <1>6, <1>7, MultipleStep
<1> DEFINE r == SearchWheel(w, a)
<1>9. r = IF first < Slots THEN Found(a + (first - base) * P)
          ELSE IF CarryFull(w, carry) THEN Found(carry)
          ELSE IF base = 0 THEN Onward(carry)
          ELSE IF second < base THEN Found(carry + second * P)
          ELSE IF CarryFull(w, carry2) THEN Found(carry2)
          ELSE Onward(carry2)
    BY DEF SearchWheel
<1> HIDE DEF base, P, first, second, carry, carry2, r
(* where a timer of this wheel is, and one of a wheel above *)
<1>10. ASSUME NEW t \in Timers, NEW s \in 0 .. Slots - 1, NEW T \in Nat, LinkedAt(t, w, s, T)
       PROVE  /\ In(w, s) # {}
              /\ base <= s => T = a + (s - base) * P
              /\ s < base => T = carry + s * P
  <2>1. Multiple(T, w) /\ s = timer_slot(w, T) /\ T < last_run + Span[w + 1] /\ place[t] = Slot(w, s)
      BY <1>10 DEF LinkedAt, Begins
  <2>2. a <= T
      BY <1>10 DEF Searched
  <2>3. T < a + Span[w + 1]
      BY <1>1, <1>3, <2>1
  <2>4. /\ base <= s => T = a + (s - base) * P
        /\ s < base => T = a + ((Slots - base) + s) * P
      BY <1>1, <2>1, <2>2, <2>3, Position DEF base, P
  <2>5. ((Slots - base) + s) * P = (Slots - base) * P + s * P
      BY <1>2, <1>3, MulLess
  <2>6. (Slots - base) * P \in Int /\ s * P \in Int
      BY <1>2, <1>3
  <2>7. s < base => T = carry + s * P
      BY <1>1, <2>4, <2>5, <2>6 DEF carry
  <2>8. t \in In(w, s)
      BY <2>1 DEF In
  <2> QED BY <2>4, <2>7, <2>8
<1>11. ASSUME NEW t \in Timers, NEW v \in Wheels, NEW s \in 0 .. Slots - 1, NEW T \in Nat,
              LinkedAt(t, v, s, T), v # w
       PROVE  v > w /\ carry <= T /\ Multiple(T, w + 1) /\ (T # carry => carry2 <= T)
  <2>1. v > w
    <3>1. ASSUME v < w PROVE FALSE
      <4>1. v \in 0 .. w - 1 /\ place[t] = Slot(v, s)
          BY <1>11, <3>1 DEF LinkedAt, Wheels
      <4> QED BY <4>1 DEF Searched
    <3> QED BY <1>11, <3>1 DEF Wheels
  <2>2. a < T
      BY <1>11, <2>1 DEF Searched
  <2>3. Multiple(T, v)
      BY <1>11 DEF LinkedAt, Begins
  <2>4. w + 1 \in 0 .. v /\ v \in 0 .. NumWheels
      BY <2>1, WheelAssumption DEF Wheels
  <2>5. Multiple(T, w + 1)
      BY <2>3, <2>4, MultipleBelow
  <2>6. carry <= T
      BY <1>6, <2>2, <2>5
  <2>7. carry < T => carry + Span[w + 1] <= T
      BY <1>3, <1>6, <2>5, MultipleStep
  <2> QED BY <1>6, <1>7, <2>1, <2>5, <2>6, <2>7
<1>12. ASSUME NEW s \in 0 .. Slots - 1, In(w, s) # {}
       PROVE  \E t \in Timers, v \in Wheels, u \in 0 .. Slots - 1 : place[t] = Slot(v, u)
    BY <1>12 DEF In
<1>13. CASE first < Slots
  <2> DEFINE f == first - base
  <2>1. f \in Nat /\ first \in 0 .. Slots - 1 /\ f <= Slots - base /\ Slots - base \in Nat
      BY <1>2, <1>4, <1>13
  <2>2. f * P <= (Slots - base) * P /\ f * P \in Nat
      BY <1>3, <2>1, MulLess
  <2>3. ASSUME NEW t \in Timers, NEW v \in Wheels, NEW s \in 0 .. Slots - 1, NEW T \in Nat,
               LinkedAt(t, v, s, T)
        PROVE  a + f * P <= T
    <3>1. CASE v # w
      <4>1. carry <= T
          BY <1>11, <2>3, <3>1
      <4>2. (Slots - base) * P \in Nat
          BY <1>3, <2>1
      <4> QED BY <1>1, <2>2, <4>1, <4>2 DEF carry
    <3>2. CASE v = w /\ base <= s
      <4>1. T = a + (s - base) * P /\ first <= s /\ s - base \in Nat
          BY <1>2, <1>4, <1>10, <2>3, <3>2
      <4>2. f <= s - base
          BY <1>2, <2>1, <4>1
      <4>3. f * P <= (s - base) * P /\ (s - base) * P \in Nat
          BY <1>3, <2>1, <4>1, <4>2, MulLess
      <4> QED BY <1>1, <2>2, <4>1, <4>3
    <3>3. CASE v = w /\ s < base
      <4>1. T = carry + s * P
          BY <1>10, <2>3, <3>3
      <4>2. s * P \in Nat /\ (Slots - base) * P \in Nat
          BY <1>3, <2>1
      <4> QED BY <1>1, <2>2, <4>1, <4>2 DEF carry
    <3> QED BY <1>2, <3>1, <3>2, <3>3
  <2>4. NotLate(a + f * P)
      BY <1>1, <1>4, <1>12, <1>13, <2>1, <2>2, <2>3 DEF NotLate
  <2>5. r = Found(a + f * P)
      BY <1>9, <1>13
  <2> QED BY <2>4, <2>5 DEF Found, r
<1>14. CASE ~ (first < Slots)
  (* no timer of this wheel before the carry *)
  <2>1. ASSUME NEW t \in Timers, NEW s \in 0 .. Slots - 1, NEW T \in Nat, LinkedAt(t, w, s, T)
        PROVE  s < base /\ second <= s /\ T = carry + s * P
    <3>1. ~ (base <= s)
        BY <1>2, <1>4, <1>10, <1>14, <2>1
    <3> QED BY <1>2, <1>5, <1>10, <2>1, <3>1
  <2>2. ASSUME NEW t \in Timers, NEW v \in Wheels, NEW s \in 0 .. Slots - 1, NEW T \in Nat,
               LinkedAt(t, v, s, T)
        PROVE  carry <= T
    <3>1. CASE v = w
      <4>1. T = carry + s * P /\ s * P \in Nat
          BY <1>3, <2>1, <2>2, <3>1
      <4> QED BY <1>6, <4>1
    <3> QED BY <1>11, <2>2, <3>1
  <2>3. CASE CarryFull(w, carry)
    <3>1. r = Found(carry)
        BY <1>9, <1>14, <2>3
    <3>2. NotLate(carry)
        BY <1>6, <2>2, <2>3, CarryLinked DEF NotLate
    <3> QED BY <3>1, <3>2 DEF Found, r
  <2>4. CASE ~ CarryFull(w, carry)
    <3>1. ASSUME NEW t \in Timers, NEW v \in Wheels, NEW s \in 0 .. Slots - 1, NEW T \in Nat,
                 LinkedAt(t, v, s, T), v # w
          PROVE  carry < T /\ carry2 <= T
        BY <1>6, <1>11, <2>4, <3>1, CarryLooks
    <3>2. CASE base = 0
      <4>1. r = Onward(carry)
          BY <1>9, <1>14, <2>4, <3>2
      <4>2. ASSUME NEW t \in Timers, NEW v \in 0 .. (w + 1) - 1, NEW s \in 0 .. Slots - 1,
                   place[t] = Slot(v, s)
            PROVE  FALSE
        <5>1. v \in 0 .. w - 1 \/ v = w
            BY DEF Wheels
        <5>2. v = w
            BY <4>2, <5>1 DEF Searched
        <5>3. In(w, s) # {}
            BY <4>2, <5>2 DEF In
        <5> QED BY <1>2, <1>4, <1>14, <3>2, <5>3
      <4>3. ASSUME NEW t \in Timers, NEW v \in Wheels, NEW s \in 0 .. Slots - 1, NEW T \in Nat,
                   LinkedAt(t, v, s, T)
            PROVE  carry < T
        <5>1. v # w
            BY <1>2, <2>1, <3>2, <4>3
        <5> QED BY <3>1, <4>3, <5>1
      <4>4. Searched(w + 1, carry)
          BY <1>1, <1>6, <2>2, <4>2, <4>3 DEF Searched
      <4> QED BY <4>1, <4>4 DEF Onward, r
    <3>3. CASE base # 0 /\ second < base
      <4>1. r = Found(carry + second * P)
          BY <1>9, <1>14, <2>4, <3>3
      <4>2. second \in Nat /\ second \in 0 .. Slots - 1 /\ second <= Slots /\ second * P \in Nat
          BY <1>2, <1>3, <1>5, <3>3
      <4>3. second * P <= Slots * P
          BY <1>2, <1>3, <4>2, MulLess
      <4>4. ASSUME NEW t \in Timers, NEW v \in Wheels, NEW s \in 0 .. Slots - 1, NEW T \in Nat,
                   LinkedAt(t, v, s, T)
            PROVE  carry + second * P <= T
        <5>1. CASE v = w
          <6>1. second <= s /\ T = carry + s * P
              BY <2>1, <4>4, <5>1
          <6>2. second * P <= s * P /\ s * P \in Nat
              BY <1>3, <4>2, <6>1, MulLess
          <6> QED BY <1>6, <4>2, <6>1, <6>2
        <5>2. CASE v # w
          <6>1. carry2 <= T
              BY <3>1, <4>4, <5>2
          <6> QED BY <1>3, <1>6, <1>7, <4>2, <4>3, <6>1
        <5> QED BY <5>1, <5>2
      <4>5. NotLate(carry + second * P)
          BY <1>5, <1>6, <1>12, <3>3, <4>2, <4>4 DEF NotLate
      <4> QED BY <4>1, <4>5 DEF Found, r
    <3>4. CASE base # 0 /\ ~ (second < base)
      <4>1. ASSUME NEW t \in Timers, NEW s \in 0 .. Slots - 1, place[t] = Slot(w, s)
            PROVE  FALSE
        <5>1. In(w, s) # {}
            BY <4>1 DEF In
        <5> QED BY <1>2, <1>4, <1>5, <1>14, <3>4, <5>1
      <4>2. ASSUME NEW t \in Timers, NEW v \in Wheels, NEW s \in 0 .. Slots - 1, NEW T \in Nat,
                   LinkedAt(t, v, s, T)
            PROVE  v # w /\ v > w /\ carry2 <= T
        <5>1. v # w
            BY <4>1, <4>2 DEF LinkedAt
        <5> QED BY <1>11, <3>1, <4>2, <5>1
      <4>3. CASE CarryFull(w, carry2)
        <5>1. r = Found(carry2)
            BY <1>9, <1>14, <2>4, <3>4, <4>3
        <5>2. NotLate(carry2)
            BY <1>7, <4>2, <4>3, CarryLinked DEF NotLate
        <5> QED BY <5>1, <5>2 DEF Found, r
      <4>4. CASE ~ CarryFull(w, carry2)
        <5>1. r = Onward(carry2)
            BY <1>9, <1>14, <2>4, <3>4, <4>4
        <5>2. ASSUME NEW t \in Timers, NEW v \in 0 .. (w + 1) - 1, NEW s \in 0 .. Slots - 1,
                     place[t] = Slot(v, s)
              PROVE  FALSE
          <6>1. v \in 0 .. w - 1 \/ v = w
              BY DEF Wheels
          <6> QED BY <4>1, <5>2, <6>1 DEF Searched
        <5>3. ASSUME NEW t \in Timers, NEW v \in Wheels, NEW s \in 0 .. Slots - 1, NEW T \in Nat,
                     LinkedAt(t, v, s, T)
              PROVE  carry2 < T
            BY <1>7, <4>2, <4>4, <5>3, CarryLooks
        <5>4. last_run <= carry2
            BY <1>1, <1>3, <1>6, <1>7
        <5>5. Searched(w + 1, carry2)
            BY <1>7, <1>8, <4>2, <5>2, <5>3, <5>4 DEF Searched
        <5> QED BY <5>1, <5>5 DEF Onward, r
      <4> QED BY <4>3, <4>4
    <3> QED BY <3>2, <3>3, <3>4
  <2> QED BY <2>3, <2>4
<1> QED BY <1>13, <1>14

SearchUpTo(n, f) ==
    f = [w \in -1 .. n |-> IF w = -1 THEN Onward(last_run)
                           ELSE IF f[w - 1].found THEN f[w - 1] ELSE SearchWheel(w, f[w - 1].at)]

(* The search of all wheels is defined by recursion, too. *)
LEMMA SearchExists == \E f : SearchUpTo(NumWheels - 1, f)
<1> DEFINE Bad == {n \in Nat : ~ \E f : SearchUpTo(n - 1, f)}
<1>1. SUFFICES ASSUME Bad # {} PROVE FALSE
    BY WheelAssumption
<1>2. PICK n \in Bad : \A m \in Bad : n <= m
    BY <1>1, LeastNat
<1>3. CASE n = 0
  <2> DEFINE f == [w \in -1 .. -1 |-> Onward(last_run)]
  <2>1. f = [w \in -1 .. -1 |-> IF w = -1 THEN Onward(last_run)
                           ELSE IF f[w - 1].found THEN f[w - 1] ELSE SearchWheel(w, f[w - 1].at)]
      OBVIOUS
  <2>2. n - 1 = -1
      BY <1>3
  <2> QED BY <1>2, <2>1, <2>2 DEF SearchUpTo
<1>4. CASE n # 0
  <2>1. n \in Nat /\ n - 1 \in Nat /\ n - 1 \notin Bad
      BY <1>2, <1>4
  <2>2. PICK f : SearchUpTo((n - 1) - 1, f)
      BY <2>1
  <2> DEFINE last == IF f[n - 2].found THEN f[n - 2] ELSE SearchWheel(n - 1, f[n - 2].at)
             g == [w \in -1 .. n - 1 |-> IF w = n - 1 THEN last ELSE f[w]]
             Body(w) == IF w = -1 THEN Onward(last_run)
                        ELSE IF g[w - 1].found THEN g[w - 1] ELSE SearchWheel(w, g[w - 1].at)
  <2>3. ASSUME NEW w \in -1 .. n - 1 PROVE g[w] = Body(w)
    <3>1. CASE w = n - 1
      <4>1. w # -1 /\ w - 1 = n - 2 /\ w - 1 \in -1 .. n - 1 /\ w - 1 # n - 1
          BY <2>1, <3>1
      <4>2. g[w - 1] = f[n - 2] /\ g[w] = last
          BY <3>1, <4>1
      <4> HIDE DEF g
      <4> QED BY <3>1, <4>1, <4>2
    <3>2. CASE w # n - 1
      <4>1. w \in -1 .. (n - 1) - 1 /\ (w # -1 => w - 1 \in -1 .. n - 1 /\ w - 1 # n - 1)
          BY <2>1, <3>2
      <4>2. g[w] = f[w] /\ (w # -1 => g[w - 1] = f[w - 1])
          BY <3>2, <4>1
      <4>3. f[w] = IF w = -1 THEN Onward(last_run)
                   ELSE IF f[w - 1].found THEN f[w - 1] ELSE SearchWheel(w, f[w - 1].at)
          BY <2>2, <4>1 DEF SearchUpTo
      <4> HIDE DEF g
      <4> QED BY <4>2, <4>3
    <3> QED BY <3>1, <3>2
  <2>4. g = [w \in -1 .. n - 1 |-> Body(w)]
    <3>1. g = [w \in -1 .. n - 1 |-> g[w]]
        OBVIOUS
    <3> HIDE DEF g, Body
    <3> QED BY <2>3, <3>1
  <2> HIDE DEF g
  <2>5. SearchUpTo(n - 1, g)
      BY <2>4 DEF SearchUpTo
  <2> QED BY <1>2, <2>5
<1> QED BY <1>3, <1>4

(* The recursion of the search *)
LEMMA SearchRec ==
    /\ search[-1] = Onward(last_run)
    /\ \A w \in Wheels : search[w] = IF search[w - 1].found THEN search[w - 1]
                                     ELSE SearchWheel(w, search[w - 1].at)
<1>1. search = CHOOSE f : SearchUpTo(NumWheels - 1, f)
    BY DEF search, SearchUpTo
<1>2. SearchUpTo(NumWheels - 1, search)
    BY <1>1, SearchExists
<1>3. -1 \in -1 .. NumWheels - 1 /\ \A w \in Wheels : w \in -1 .. NumWheels - 1 /\ w # -1
    BY WheelAssumption DEF Wheels
<1> QED BY <1>2, <1>3 DEF SearchUpTo

(* Every time is a multiple of the span of wheel 0. *)
LEMMA MultipleOfOne ==
    ASSUME NEW x \in Nat
    PROVE  Multiple(x, 0)
<1>1. x = x * Span[0]
    BY SpanRec
<1> QED BY <1>1 DEF Multiple

(* The search of all wheels finds a time that is not late, or there is no timer. *)
LEMMA SearchFinds ==
    ASSUME last_run \in Nat
    PROVE  LET r == search[NumWheels - 1]
           IN /\ r.found => NotLate(r.at)
              /\ ~ r.found => Searched(NumWheels, r.at)
<1> DEFINE Good(w) == /\ search[w].found \in BOOLEAN
                      /\ search[w].found => NotLate(search[w].at)
                      /\ ~ search[w].found => Searched(w + 1, search[w].at)
           Bad == {n \in Nat : n <= NumWheels /\ ~ Good(n - 1)}
<1>1. SUFFICES ASSUME Bad # {} PROVE FALSE
  <2>1. NumWheels \in Nat /\ (NumWheels - 1) + 1 = NumWheels
      BY WheelAssumption
  <2>2. ASSUME Bad = {} PROVE Good(NumWheels - 1)
    <3> HIDE DEF Good
    <3>1. NumWheels <= NumWheels
        BY <2>1
    <3>2. NumWheels \notin Bad
      <4> HIDE DEF Bad
      <4> QED BY <2>2
    <3> QED BY <2>1, <3>1, <3>2
  <2> QED BY <2>1, <2>2
<1>2. PICK n \in Bad : \A m \in Bad : n <= m
    BY <1>1, LeastNat
<1>3. CASE n = 0
  <2>1. search[-1].found = FALSE /\ search[-1].at = last_run
      BY SearchRec DEF Onward
  <2>2. Searched(0, last_run)
    <3>1. ASSUME NEW t \in Timers, NEW v \in Wheels, NEW s \in 0 .. Slots - 1, NEW T \in Nat,
                 LinkedAt(t, v, s, T)
          PROVE  last_run <= T /\ (v > 0 => last_run < T)
        BY <3>1 DEF LinkedAt, Begins
    <3>2. 0 .. 0 - 1 = {}
        OBVIOUS
    <3> QED BY <3>1, <3>2, MultipleOfOne DEF Searched
  <2>3. n - 1 = -1 /\ -1 + 1 = 0
      BY <1>3
  <2>4. Good(-1)
      BY <2>1, <2>2, <2>3
  <2> QED BY <1>2, <2>3, <2>4
<1>4. CASE n # 0
  <2> DEFINE w == n - 1
  <2>1. w \in Wheels /\ w - 1 = (n - 1) - 1 /\ (w - 1) + 1 = w /\ n - 1 \in Nat /\ n - 1 <= NumWheels
      BY <1>2, <1>4, WheelAssumption DEF Wheels
  <2>2. n - 1 \notin Bad
      BY <1>2, <2>1
  <2>3. Good((n - 1) - 1)
      BY <2>1, <2>2
  <2>4. Good(w - 1)
      BY <2>1, <2>3
  <2>5. search[w] = IF search[w - 1].found THEN search[w - 1] ELSE SearchWheel(w, search[w - 1].at)
      BY <2>1, SearchRec
  <2>6. CASE search[w - 1].found
      BY <1>2, <2>4, <2>5, <2>6
  <2>7. CASE ~ search[w - 1].found
    <3>1. Searched(w, search[w - 1].at)
        BY <2>1, <2>4, <2>7
    <3>2. Good(w)
        BY <2>1, <2>5, <2>7, <3>1, SearchStep
    <3> QED BY <1>2, <3>2
  <2> QED BY <2>4, <2>6, <2>7
<1> QED BY <1>3, <1>4

(* vhttp_timerwheel_get_wake_at: not later than any timer, and never only without timers. *)
LEMMA Wakes ==
    ASSUME WheelIInv
    PROVE  WakesInTime
<1>1. SUFFICES ASSUME phase = "poll"
               PROVE  /\ (get_wake_at = UINT64_MAX) <=> (Linked = {})
                      /\ \A t \in Linked : get_wake_at <= expire_at[t]
    BY DEF WakesInTime
<1>2. WheelTypeOK /\ last_run \in Nat /\ expire_at \in [Timers -> 0 .. MaxNow]
    BY DEF WheelIInv, WheelTypeOK
<1> DEFINE r == search[NumWheels - 1]
<1>3. (r.found => NotLate(r.at)) /\ (~ r.found => Searched(NumWheels, r.at))
    BY <1>2, SearchFinds
<1>4. get_wake_at = IF r.found THEN r.at ELSE UINT64_MAX
    BY DEF get_wake_at
<1> HIDE DEF r
<1>5. CASE r.found
  <2>1. Linked # {}
      BY <1>2, <1>3, <1>5, LinkedIff DEF NotLate
  <2>2. r.at \in Nat /\ r.at # UINT64_MAX
      BY <1>3, <1>5 DEF NotLate, UINT64_MAX
  <2>3. ASSUME NEW t \in Linked PROVE r.at <= expire_at[t]
    <3>1. t \in Timers
        BY DEF Linked
    <3>2. PICK w \in Wheels, s \in 0 .. Slots - 1 : place[t] = Slot(w, s)
        BY <1>2, <3>1, LinkedIff
    <3>3. PICK T \in 0 .. expire_at[t] : Begins(t, w, s, T) /\ (T = last_run => MayBeDue(w))
        BY <3>1, <3>2 DEF WheelIInv, Placed
    <3>4. T \in Nat /\ T <= expire_at[t] /\ expire_at[t] \in Nat
        BY <1>2, <3>1
    <3>5. w > 0 => last_run < T
        BY <1>1, <1>2, <3>3, <3>4 DEF MayBeDue, Begins
    <3>6. LinkedAt(t, w, s, T)
        BY <3>2, <3>3, <3>5 DEF LinkedAt
    <3>7. r.at <= T
        BY <1>3, <1>5, <3>1, <3>4, <3>6 DEF NotLate
    <3> QED BY <2>2, <3>4, <3>7
  <2> QED BY <1>4, <1>5, <2>1, <2>2, <2>3
<1>6. CASE ~ r.found
  <2>1. ASSUME NEW t \in Timers, NEW w \in Wheels, NEW s \in 0 .. Slots - 1 PROVE place[t] # Slot(w, s)
    <3>1. w \in 0 .. NumWheels - 1
        BY DEF Wheels
    <3> QED BY <1>3, <1>6, <3>1 DEF Searched
  <2>2. Linked = {}
      BY <1>2, <2>1, LinkedIff DEF Linked
  <2> QED BY <1>4, <1>6, <2>2
<1> QED BY <1>5, <1>6

(* The start of the span of a timer, for a step that leaves the timer where it is. *)
LEMMA StaysPlaced ==
    ASSUME WheelTypeOK, WheelTypeOK', NEW t \in Timers, NEW w \in Wheels, NEW s \in 0 .. Slots - 1,
           NEW T \in 0 .. expire_at[t], Begins(t, w, s, T), expire_at'[t] = expire_at[t],
           last_run <= last_run', last_run' <= T
    PROVE  Begins(t, w, s, T)' /\ T \in 0 .. expire_at'[t]
<1>1. last_run \in Nat /\ last_run' \in Nat /\ T \in Nat /\ expire_at[t] \in Nat
    BY DEF WheelTypeOK
<1>2. Span[w + 1] \in Nat \ {0}
    BY SpanStep
<1> QED BY <1>1, <1>2 DEF Begins, Multiple, timer_slot

(* Polling. That the clock stays within its bound rests on Wakes. *)
LEMMA ProceedInv ==
    ASSUME WheelIInv, ProceedTimeout \/ ProceedEvent \/ ProceedRewind
    PROVE  WheelIInv'
<1> USE DEF WheelIInv
<1>1. /\ phase = "poll" /\ phase' = "pending"
      /\ UNCHANGED <<last_run, expire_at, place, cursor, fail>>
    BY DEF ProceedTimeout, ProceedEvent, ProceedRewind
<1>2. now' \in 0 .. MaxNow /\ rewinds' \in 0 .. MaxRewinds /\ (rewinds' = 0 => last_run <= now')
  <2>1. CASE ProceedTimeout
    <3>1. PICK t \in Linked : TRUE
        BY <1>1, <2>1, Wakes DEF ProceedTimeout, WakesInTime
    <3>2. get_wake_at <= expire_at[t] /\ expire_at[t] \in 0 .. MaxNow
        BY <1>1, Wakes DEF WakesInTime, WheelTypeOK, Linked
    <3>3. get_wake_at \in Nat
      <4>1. search[NumWheels - 1].found => NotLate(search[NumWheels - 1].at)
          BY SearchFinds DEF WheelTypeOK
      <4> QED BY <2>1, <4>1 DEF ProceedTimeout, get_wake_at, NotLate
    <3>4. now' = (IF get_wake_at <= now THEN now ELSE get_wake_at) /\ rewinds' = rewinds
        BY <2>1 DEF ProceedTimeout
    <3> QED BY <3>2, <3>3, <3>4, WheelAssumption DEF WheelTypeOK, ClockOK
  <2>2. CASE ProceedEvent
      BY <2>2, WheelAssumption DEF ProceedEvent, WheelTypeOK, ClockOK
  <2>3. CASE ProceedRewind
      BY <2>3, WheelAssumption DEF ProceedRewind, WheelTypeOK
  <2> QED BY <2>1, <2>2, <2>3
<1>3. WheelTypeOK'
    BY <1>1, <1>2 DEF WheelTypeOK, Phases
<1>4. Placed'
  <2>1. ASSUME NEW t \in Timers, NEW w \in Wheels, NEW s \in 0 .. Slots - 1, place'[t] = Slot(w, s)
        PROVE  \E T \in 0 .. expire_at'[t] : Begins(t, w, s, T)' /\ (T = last_run' => MayBeDue(w)')
    <3>1. PICK T \in 0 .. expire_at[t] : Begins(t, w, s, T) /\ (T = last_run => MayBeDue(w))
        BY <1>1, <2>1 DEF Placed
    <3>2. Begins(t, w, s, T)'
        BY <1>1, <3>1 DEF Begins, Multiple, timer_slot
    <3>3. T = last_run' => MayBeDue(w)'
        BY <1>1, <3>1 DEF MayBeDue
    <3> QED BY <1>1, <3>2, <3>3
  <2> QED BY <2>1 DEF Placed
<1>5. Passed' /\ CursorOK' /\ ClockOK' /\ ExpiredOK'
    BY <1>1, <1>2 DEF Passed, CursorOK, ClockOK, ExpiredOK
<1> QED BY <1>1, <1>3, <1>4, <1>5

(* vhttp_timerwheel_link from a callback *)
LEMMA LinkInv ==
    ASSUME WheelIInv, NEW t \in Timers, NEW delay \in Delays, Link(t, delay)
    PROVE  WheelIInv'
<1> USE DEF WheelIInv
<1> DEFINE at == now + delay
           clipped == IF at < last_run THEN last_run ELSE at
<1>1. /\ phase \in {"pending", "callback"} /\ place[t] = Unlinked /\ clipped <= MaxNow
      /\ expire_at' = [expire_at EXCEPT ![t] = clipped]
      /\ place' = [place EXCEPT ![t] = SlotFor(clipped, last_run)]
      /\ UNCHANGED <<now, last_run, phase, cursor, rewinds, fail>>
    BY DEF Link
<1>2. clipped \in Nat /\ last_run \in Nat /\ last_run <= clipped
    BY WheelAssumption DEF WheelTypeOK
<1> HIDE DEF clipped
<1>3. PICK w \in Wheels, T \in 0 .. clipped :
              /\ SlotFor(clipped, last_run) = Slot(w, timer_slot(w, T))
              /\ Multiple(T, w) /\ (w < NumWheels - 1 => clipped < T + Span[w])
              /\ last_run <= T /\ T < last_run + Span[w + 1]
              /\ w > 0 => last_run < T
    BY <1>2, SlotForFacts
<1>4. timer_slot(w, T) \in 0 .. Slots - 1
    BY SlotType
<1>5. place'[t] = Slot(w, timer_slot(w, T)) /\ expire_at'[t] = clipped
    BY <1>1, <1>3 DEF WheelTypeOK
<1>6. WheelTypeOK'
    BY <1>1, <1>2, <1>3, <1>4, WheelAssumption DEF WheelTypeOK, Places
<1>7. ASSUME NEW u \in Timers, u # t
      PROVE  place'[u] = place[u] /\ expire_at'[u] = expire_at[u]
    BY <1>1, <1>7 DEF WheelTypeOK
<1>8. Placed'
  <2>1. ASSUME NEW u \in Timers, NEW v \in Wheels, NEW s \in 0 .. Slots - 1, place'[u] = Slot(v, s)
        PROVE  \E X \in 0 .. expire_at'[u] : Begins(u, v, s, X)' /\ (X = last_run' => MayBeDue(v)')
    <3>1. CASE u = t
      <4>1. v = w /\ s = timer_slot(w, T)
          BY <1>5, <2>1, <3>1, SlotTuple
      <4>2. Begins(t, w, s, T)'
          BY <1>1, <1>3, <1>5, <4>1 DEF Begins, Multiple, timer_slot
      <4>3. T = last_run' => MayBeDue(w)'
          BY <1>1, <1>2, <1>3 DEF MayBeDue, Wheels
      <4> QED BY <1>5, <3>1, <4>1, <4>2, <4>3
    <3>2. CASE u # t
      <4>1. PICK X \in 0 .. expire_at[u] : Begins(u, v, s, X) /\ (X = last_run => MayBeDue(v))
          BY <1>7, <2>1, <3>2 DEF Placed
      <4>2. Begins(u, v, s, X)' /\ (X = last_run' => MayBeDue(v)')
          BY <1>1, <1>7, <3>2, <4>1 DEF Begins, Multiple, timer_slot, MayBeDue
      <4> QED BY <1>7, <3>2, <4>1, <4>2
    <3> QED BY <3>1, <3>2
  <2> QED BY <2>1 DEF Placed
<1>9. ExpiredOK'
  <2>1. ASSUME NEW u \in Timers, place'[u] = Expired
        PROVE  expire_at'[u] <= now' /\ phase' \notin {"poll", "pending"}
    <3>1. u # t
        BY <1>5, <2>1, SlotTuple
    <3> QED BY <1>1, <1>7, <2>1, <3>1 DEF ExpiredOK
  <2> QED BY <2>1 DEF ExpiredOK
<1>10. Passed' /\ CursorOK' /\ ClockOK'
    BY <1>1 DEF Passed, CursorOK, ClockOK
<1> QED BY <1>1, <1>6, <1>8, <1>9, <1>10

(* Unlink and Fire take one timer out; the others stay where they are. *)
LEMMA RemoveInv ==
    ASSUME WheelIInv, NEW t \in Timers, Unlink(t) \/ Fire(t)
    PROVE  WheelIInv'
<1> USE DEF WheelIInv
<1>1. /\ \/ phase \in {"pending", "callback"} /\ phase' = phase
         \/ phase \in {"expired", "callback"} /\ phase' = "callback"
      /\ place' = [place EXCEPT ![t] = Unlinked] /\ expire_at' = [expire_at EXCEPT ![t] = 0]
      /\ UNCHANGED <<now, last_run, cursor, rewinds, fail>>
    BY DEF Unlink, Fire
<1>2. WheelTypeOK'
    BY <1>1, WheelAssumption DEF WheelTypeOK, Phases, Places
<1>3. place'[t] = Unlinked
    BY <1>1 DEF WheelTypeOK
<1>4. ASSUME NEW u \in Timers, u # t
      PROVE  place'[u] = place[u] /\ expire_at'[u] = expire_at[u]
    BY <1>1, <1>4 DEF WheelTypeOK
<1>5. Placed'
  <2>1. ASSUME NEW u \in Timers, NEW v \in Wheels, NEW s \in 0 .. Slots - 1, place'[u] = Slot(v, s)
        PROVE  \E X \in 0 .. expire_at'[u] : Begins(u, v, s, X)' /\ (X = last_run' => MayBeDue(v)')
    <3>1. u # t
        BY <1>3, <2>1, SlotTuple
    <3>2. PICK X \in 0 .. expire_at[u] : Begins(u, v, s, X) /\ (X = last_run => MayBeDue(v))
        BY <1>4, <2>1, <3>1 DEF Placed
    <3>3. Begins(u, v, s, X)'
        BY <1>1, <1>4, <3>1, <3>2 DEF Begins, Multiple, timer_slot
    <3>4. X = last_run' => MayBeDue(v)'
        BY <1>1, <3>2 DEF MayBeDue
    <3> QED BY <1>4, <3>1, <3>2, <3>3, <3>4
  <2> QED BY <2>1 DEF Placed
<1>6. ExpiredOK'
  <2>1. ASSUME NEW u \in Timers, place'[u] = Expired
        PROVE  expire_at'[u] <= now' /\ phase' \notin {"poll", "pending"}
    <3>1. u # t
        BY <1>3, <2>1, SlotTuple
    <3> QED BY <1>1, <1>4, <2>1, <3>1 DEF ExpiredOK
  <2> QED BY <2>1 DEF ExpiredOK
<1>7. Passed' /\ CursorOK' /\ ClockOK'
    BY <1>1 DEF Passed, CursorOK, ClockOK
<1> QED BY <1>1, <1>2, <1>5, <1>6, <1>7

(* The call of vhttp_timerwheel_get_expired, or none if the clock went back *)
LEMMA GetExpiredInv ==
    ASSUME WheelIInv, GetExpired
    PROVE  WheelIInv'
<1> USE DEF WheelIInv
<1>1. /\ phase \in {"pending", "callback"} /\ \A t \in Timers : place[t] # Expired
      /\ UNCHANGED <<now, last_run, expire_at, place, rewinds, fail>>
      /\ \/ now >= last_run /\ Redo(0, last_run)
         \/ now < last_run /\ phase' = "poll" /\ cursor' = cursor
    BY DEF GetExpired
<1>2. last_run \in Nat /\ 0 \in Wheels /\ now \in Nat
    BY WheelAssumption DEF WheelTypeOK, Wheels
<1>3. timer_slot(0, last_run) \in 0 .. Slots - 1
    BY <1>2, SlotType
<1>4. \/ /\ now >= last_run /\ phase' = "scan"
         /\ cursor' = [wheel |-> 0, slot |-> timer_slot(0, last_run), slot_start |-> timer_slot(0, last_run)]
      \/ now < last_run /\ phase' = "poll" /\ cursor' = cursor
    BY <1>1 DEF Redo
<1>5. WheelTypeOK'
    BY <1>1, <1>2, <1>3, <1>4 DEF WheelTypeOK, Phases
<1>6. Placed'
  <2>1. ASSUME NEW t \in Timers, NEW w \in Wheels, NEW s \in 0 .. Slots - 1, place'[t] = Slot(w, s)
        PROVE  \E T \in 0 .. expire_at'[t] : Begins(t, w, s, T)' /\ (T = last_run' => MayBeDue(w)')
    <3>1. PICK T \in 0 .. expire_at[t] : Begins(t, w, s, T) /\ (T = last_run => MayBeDue(w))
        BY <1>1, <2>1 DEF Placed
    <3>2. Begins(t, w, s, T)'
        BY <1>1, <3>1 DEF Begins, Multiple, timer_slot
    <3>3. T = last_run' => MayBeDue(w)'
        BY <1>1, <1>4, <3>1 DEF MayBeDue
    <3> QED BY <1>1, <3>2, <3>3
  <2> QED BY <2>1 DEF Placed
<1>7. ExpiredOK'
    BY <1>1 DEF ExpiredOK
<1>8. CASE phase' = "poll"
    BY <1>1, <1>2, <1>4, <1>5, <1>6, <1>7, <1>8 DEF Passed, CursorOK, ClockOK
<1>9. CASE phase' = "scan"
  <2>1. Multiple(last_run', 0) /\ timer_slot(0, last_run') = timer_slot(0, last_run)
      BY <1>1, <1>2, MultipleOfOne
  <2>2. cursor'.wheel = 0 /\ cursor'.slot = timer_slot(0, last_run)
        /\ cursor'.slot_start = timer_slot(0, last_run) /\ last_run' <= now'
      BY <1>1, <1>2, <1>4, <1>9
  <2>3. Passed'
      BY <1>3, <1>9, <2>2 DEF Passed
  <2>4. CursorOK'
      BY <1>1, <1>3, <1>9, <2>1, <2>2 DEF CursorOK
  <2>5. ClockOK'
      BY <1>1, <1>9 DEF ClockOK
  <2> QED BY <1>1, <1>5, <1>6, <1>7, <2>3, <2>4, <2>5
<1> QED BY <1>4, <1>8, <1>9

(* get_expired returns: the wheel has been run until now, and nothing is left due. *)
LEMMA ExitInv ==
    ASSUME WheelTypeOK', fail' = "no", Exit, last_run' = now',
           \A t \in Timers, w \in Wheels, s \in 0 .. Slots - 1 : place'[t] = Slot(w, s) =>
               \E T \in 0 .. expire_at'[t] : Begins(t, w, s, T)' /\ last_run' < T,
           \A t \in Timers : place'[t] = Expired => expire_at'[t] <= now'
    PROVE  WheelIInv'
<1>1. phase' \in {"expired", "poll"} /\ (phase' = "poll" => \A t \in Timers : place'[t] # Expired)
    BY DEF Exit
<1>2. last_run' \in Nat /\ now' \in Nat
    BY DEF WheelTypeOK
<1>3. Placed'
  <2>1. ASSUME NEW t \in Timers, NEW w \in Wheels, NEW s \in 0 .. Slots - 1, place'[t] = Slot(w, s)
        PROVE  \E T \in 0 .. expire_at'[t] : Begins(t, w, s, T)' /\ (T = last_run' => MayBeDue(w)')
    <3>1. PICK T \in 0 .. expire_at'[t] : Begins(t, w, s, T)' /\ last_run' < T
        BY <2>1
    <3>2. T # last_run'
        BY <1>2, <3>1
    <3> QED BY <3>1, <3>2
  <2> QED BY <2>1 DEF Placed
<1>4. Passed' /\ CursorOK'
    BY <1>1 DEF Passed, CursorOK
<1>5. ClockOK'
    BY <1>1, <1>2 DEF ClockOK
<1>6. ExpiredOK'
    BY <1>1 DEF ExpiredOK
<1> QED BY <1>3, <1>4, <1>5, <1>6 DEF WheelIInv

(* The search starts again at wheel w. *)
LEMMA RedoInv ==
    ASSUME WheelTypeOK', fail' = "no", NEW w \in Wheels, Redo(w, last_run), last_run' = last_run,
           last_run' <= now', Multiple(last_run, w),
           \A t \in Timers, v \in Wheels, s \in 0 .. Slots - 1 : place'[t] = Slot(v, s) =>
               /\ w <= v
               /\ \E T \in 0 .. expire_at'[t] : Begins(t, v, s, T)' /\ (T = last_run' => v = 0),
           \A t \in Timers : place'[t] = Expired => expire_at'[t] <= now'
    PROVE  WheelIInv'
<1>1. /\ phase' = "scan" /\ cursor'.wheel = w
      /\ cursor'.slot = timer_slot(w, last_run) /\ cursor'.slot_start = timer_slot(w, last_run)
    BY DEF Redo
<1>2. timer_slot(w, last_run) \in 0 .. Slots - 1 /\ last_run \in Nat
  <2>1. last_run \in Nat
      BY DEF WheelTypeOK
  <2> QED BY <2>1, SlotType
<1>3. Placed'
  <2>1. ASSUME NEW t \in Timers, NEW v \in Wheels, NEW s \in 0 .. Slots - 1, place'[t] = Slot(v, s)
        PROVE  \E T \in 0 .. expire_at'[t] : Begins(t, v, s, T)' /\ (T = last_run' => MayBeDue(v)')
    <3>1. PICK T \in 0 .. expire_at'[t] : Begins(t, v, s, T)' /\ (T = last_run' => v = 0)
        BY <2>1
    <3>2. T = last_run' => MayBeDue(v)'
        BY <1>1, <3>1 DEF MayBeDue
    <3> QED BY <3>1, <3>2
  <2> QED BY <2>1 DEF Placed
<1>4. Passed'
  <2>1. ASSUME NEW t \in Timers, NEW v \in 0 .. w - 1, NEW s \in 0 .. Slots - 1, place'[t] = Slot(v, s)
        PROVE  FALSE
    <3>1. v \in Wheels /\ ~ (w <= v)
        BY WheelAssumption DEF Wheels
    <3> QED BY <2>1, <3>1
  <2>2. timer_slot(w, last_run) .. (timer_slot(w, last_run) - 1) = {}
      BY <1>2
  <2> QED BY <1>1, <2>1, <2>2 DEF Passed
<1>5. CursorOK'
    BY <1>1, <1>2 DEF CursorOK
<1>6. ClockOK' /\ ExpiredOK'
    BY <1>1 DEF ClockOK, ExpiredOK
<1> QED BY <1>3, <1>4, <1>5, <1>6 DEF WheelIInv

(* What is not in the slot that the search is at is due a span later at the earliest. *)
LEMMA Ahead ==
    ASSUME WheelIInv, phase = "scan", NEW t \in Timers, NEW v \in Wheels, NEW s \in 0 .. Slots - 1,
           place[t] = Slot(v, s), t \notin In(cursor.wheel, cursor.slot)
    PROVE  /\ cursor.wheel <= v
           /\ \E T \in 0 .. expire_at[t] :
                  Begins(t, v, s, T) /\ last_run + Span[cursor.wheel] <= T
<1> USE DEF WheelIInv
<1> DEFINE w == cursor.wheel
<1>1. w \in Wheels /\ last_run \in Nat /\ Multiple(last_run, w) /\ cursor.slot = timer_slot(w, last_run)
    BY DEF WheelTypeOK, CursorOK
<1> HIDE DEF w
<1>2. w <= v
  <2>1. ASSUME v < w PROVE FALSE
    <3>1. v \in 0 .. w - 1
        BY <1>1, <2>1 DEF Wheels
    <3> QED BY <3>1 DEF Passed, w
  <2> QED BY <1>1, <2>1 DEF Wheels
<1>3. PICK T \in 0 .. expire_at[t] : Begins(t, v, s, T) /\ (T = last_run => MayBeDue(v))
    BY DEF Placed
<1>4. T \in Nat /\ Multiple(T, v) /\ s = timer_slot(v, T) /\ last_run <= T
    BY <1>3 DEF Begins
<1>5. T # last_run
  <2>1. ASSUME T = last_run PROVE FALSE
    <3>1. v = w
        BY <1>1, <1>2, <1>3, <2>1 DEF MayBeDue, Wheels, w
    <3>2. s = cursor.slot
        BY <1>1, <1>4, <2>1, <3>1
    <3> QED BY <3>1, <3>2 DEF In, w
  <2> QED BY <2>1
<1>6. w \in 0 .. v /\ v \in 0 .. NumWheels /\ w \in 0 .. NumWheels
    BY <1>1, <1>2, WheelAssumption DEF Wheels
<1>7. Multiple(T, w)
    BY <1>4, <1>6, MultipleBelow
<1>8. last_run + Span[w] <= T
    BY <1>1, <1>4, <1>5, <1>6, <1>7, MultipleStep
<1> QED BY <1>2, <1>3, <1>8 DEF w

(* The search goes on to the next slot, or to the end of the wheel. *)
LEMMA AdvanceInv ==
    ASSUME WheelIInv, phase = "scan", Advance, last_run' = last_run + Span[cursor.wheel],
           last_run' <= now, UNCHANGED <<now, expire_at, rewinds, fail>>,
           place' = [t \in Timers |-> IF t \in In(cursor.wheel, cursor.slot) THEN Expired ELSE place[t]],
           \A t \in In(cursor.wheel, cursor.slot) : expire_at[t] <= now
    PROVE  WheelIInv'
<1> USE DEF WheelIInv
<1> DEFINE w == cursor.wheel
           P == Span[w]
<1>1. /\ w \in Wheels /\ last_run \in Nat /\ now \in 0 .. MaxNow /\ Multiple(last_run, w)
      /\ cursor.slot = timer_slot(w, last_run) /\ cursor.slot \in 0 .. Slots - 1
      /\ cursor.slot_start \in 0 .. Slots - 1 /\ cursor.slot_start <= cursor.slot
    BY DEF WheelTypeOK, CursorOK
<1>2. P \in Nat \ {0} /\ w + 1 \in 0 .. NumWheels
    BY <1>1, SpanStep
<1>3. last_run' = last_run + P /\ last_run' \in Nat /\ last_run' \in 0 .. MaxNow
    BY <1>1, <1>2, WheelAssumption
<1>4. /\ cursor.slot + 1 < Slots =>
            /\ timer_slot(w, last_run') = cursor.slot + 1
            /\ ~ Multiple(last_run', w + 1)
      /\ cursor.slot + 1 >= Slots => Multiple(last_run', w + 1)
      /\ Multiple(last_run', w)
    BY <1>1, <1>3, SlotNext
<1>5. \/ cursor.slot + 1 < Slots /\ phase' = "scan" /\ cursor' = [cursor EXCEPT !.slot = cursor.slot + 1]
      \/ ~ (cursor.slot + 1 < Slots) /\ phase' = "carry" /\ cursor' = cursor
    BY DEF Advance
<1>6. /\ cursor'.wheel = w /\ cursor'.slot_start = cursor.slot_start
      /\ phase' = "scan" => cursor'.slot = cursor.slot + 1
      /\ phase' = "scan" => cursor.slot + 1 < Slots
      /\ phase' = "carry" => cursor.slot = Slots - 1
    BY <1>1, <1>5, WheelAssumption DEF WheelTypeOK
<1>7. phase' \in {"scan", "carry"}
    BY <1>5
<1>8. WheelTypeOK'
  <2>1. cursor' \in [wheel : Wheels, slot : 0 .. Slots - 1, slot_start : 0 .. Slots - 1]
      BY <1>1, <1>5, WheelAssumption DEF WheelTypeOK
  <2>2. phase' \in Phases
      BY <1>7 DEF Phases
  <2>3. place' \in [Timers -> Places]
      BY DEF WheelTypeOK, Places
  <2> QED BY <1>3, <2>1, <2>2, <2>3 DEF WheelTypeOK
<1>9. ASSUME NEW t \in Timers, NEW v \in Wheels, NEW s \in 0 .. Slots - 1, place'[t] = Slot(v, s)
      PROVE  place[t] = Slot(v, s) /\ t \notin In(w, cursor.slot)
    BY <1>9, SlotTuple
<1> HIDE DEF w, P
<1>10. Placed'
  <2>1. ASSUME NEW t \in Timers, NEW v \in Wheels, NEW s \in 0 .. Slots - 1, place'[t] = Slot(v, s)
        PROVE  \E T \in 0 .. expire_at'[t] : Begins(t, v, s, T)' /\ (T = last_run' => MayBeDue(v)')
    <3>1. PICK T \in 0 .. expire_at[t] : Begins(t, v, s, T) /\ last_run' <= T /\ w <= v
        BY <1>9, <2>1, Ahead DEF w
    <3>2. Begins(t, v, s, T)' /\ T \in 0 .. expire_at'[t]
        BY <1>1, <1>2, <1>3, <1>8, <3>1, StaysPlaced
    <3>3. ASSUME T = last_run', phase' = "scan", v # w PROVE FALSE
      <4>1. w + 1 \in 0 .. v /\ v \in 0 .. NumWheels /\ T \in Nat
          BY <1>1, <3>1, <3>3, WheelAssumption DEF Wheels
      <4>2. Multiple(T, v)
          BY <3>1 DEF Begins
      <4>3. Multiple(T, w + 1)
          BY <4>1, <4>2, MultipleBelow
      <4> QED BY <1>4, <1>6, <3>3, <4>3
    <3>4. T = last_run' => MayBeDue(v)'
        BY <1>6, <1>7, <3>3 DEF MayBeDue
    <3> QED BY <3>2, <3>4
  <2> QED BY <2>1 DEF Placed
<1>11. Passed'
  <2>1. ASSUME NEW t \in Timers, NEW v \in 0 .. w - 1, NEW s \in 0 .. Slots - 1, place'[t] = Slot(v, s)
        PROVE  FALSE
    <3>1. v \in Wheels
        BY <1>1, WheelAssumption DEF Wheels
    <3> QED BY <1>9, <2>1, <3>1 DEF Passed, w
  <2>2. ASSUME NEW t \in Timers, NEW s \in cursor.slot_start .. cursor.slot, place'[t] = Slot(w, s)
        PROVE  FALSE
    <3>1. s \in 0 .. Slots - 1
        BY <1>1, WheelAssumption
    <3>2. place[t] = Slot(w, s) /\ t \notin In(w, cursor.slot)
        BY <1>1, <1>9, <2>2, <3>1
    <3>3. s # cursor.slot
        BY <3>2 DEF In
    <3>4. s \in cursor.slot_start .. cursor.slot - 1
        BY <1>1, <3>3
    <3> QED BY <3>2, <3>4 DEF Passed, w
  <2>3. (IF phase' = "scan" THEN cursor'.slot - 1 ELSE Slots - 1) = cursor.slot
      BY <1>1, <1>6, <1>7
  <2> QED BY <1>6, <2>1, <2>2, <2>3 DEF Passed
<1>12. CursorOK'
  <2>1. last_run' <= now'
      OBVIOUS
  <2>2. CASE phase' = "scan"
    <3>1. /\ Multiple(last_run', cursor'.wheel) /\ cursor'.slot = timer_slot(cursor'.wheel, last_run')
          /\ cursor'.slot_start <= cursor'.slot
        BY <1>1, <1>4, <1>6, <2>2
    <3> QED BY <2>1, <2>2, <3>1 DEF CursorOK
  <2>3. CASE phase' = "carry"
    <3>1. Multiple(last_run', cursor'.wheel + 1)
      <4>1. cursor.slot + 1 >= Slots
          BY <1>6, <2>3, WheelAssumption
      <4> QED BY <1>4, <1>6, <4>1
    <3> QED BY <2>1, <2>3, <3>1 DEF CursorOK
  <2> QED BY <1>7, <2>2, <2>3
<1>13. ClockOK'
    BY <1>1, <1>3, <1>7 DEF ClockOK
<1>14. ExpiredOK'
  <2>1. ASSUME NEW t \in Timers, place'[t] = Expired PROVE expire_at'[t] <= now'
      BY <2>1 DEF ExpiredOK
  <2> QED BY <1>7, <2>1 DEF ExpiredOK
<1> QED BY <1>8, <1>10, <1>11, <1>12, <1>13, <1>14

(* What is in the slot of wheel 0 is due, all of it and nothing else. *)
LEMMA CollectInv ==
    ASSUME WheelIInv, Collect
    PROVE  WheelIInv'
<1> USE DEF WheelIInv
<1>1. /\ phase = "scan" /\ cursor.wheel = 0
      /\ place' = [t \in Timers |-> IF t \in In(0, cursor.slot) THEN Expired ELSE place[t]]
      /\ UNCHANGED <<now, expire_at, rewinds, fail>>
      /\ \/ last_run = now /\ Exit /\ last_run' = last_run
         \/ last_run # now /\ Advance /\ last_run' = last_run + 1
    BY DEF Collect
<1>2. /\ last_run \in Nat /\ now \in 0 .. MaxNow /\ last_run <= now /\ 0 \in Wheels
      /\ cursor.slot = timer_slot(0, last_run) /\ Multiple(last_run, 0)
    BY <1>1, MultipleOfOne DEF WheelTypeOK, CursorOK
<1>3. ASSUME NEW t \in In(0, cursor.slot) PROVE t \in Timers /\ expire_at[t] <= now
  <2>1. t \in Timers /\ place[t] = Slot(0, timer_slot(0, last_run))
      BY <1>2 DEF In
  <2>2. Begins(t, 0, timer_slot(0, last_run), last_run)
      BY <1>2, <2>1, CurrentSlot
  <2>3. expire_at[t] < last_run + Span[0] /\ expire_at[t] \in Nat
      BY <2>1, <2>2, WheelAssumption DEF Begins, WheelTypeOK
  <2> QED BY <1>2, <2>1, <2>3, SpanRec
<1>4. CASE Advance /\ last_run # now /\ last_run' = last_run + 1
  <2>1. last_run' = last_run + Span[cursor.wheel] /\ last_run' <= now
      BY <1>1, <1>2, <1>4, SpanRec
  <2> QED BY <1>1, <1>3, <1>4, <2>1, AdvanceInv
<1>5. CASE last_run = now /\ Exit /\ last_run' = last_run
  <2>1. WheelTypeOK'
    <3>1. place' \in [Timers -> Places]
        BY <1>1 DEF WheelTypeOK, Places
    <3>2. cursor' \in [wheel : Wheels, slot : 0 .. Slots - 1, slot_start : 0 .. Slots - 1]
        BY <1>2, <1>5, WheelAssumption DEF Exit, NoCursor
    <3>3. phase' \in Phases
        BY <1>5 DEF Exit, Phases
    <3> QED BY <1>1, <1>5, <3>1, <3>2, <3>3 DEF WheelTypeOK
  <2>2. ASSUME NEW t \in Timers, NEW w \in Wheels, NEW s \in 0 .. Slots - 1, place'[t] = Slot(w, s)
        PROVE  \E T \in 0 .. expire_at'[t] : Begins(t, w, s, T)' /\ last_run' < T
    <3>1. place[t] = Slot(w, s) /\ t \notin In(cursor.wheel, cursor.slot)
        BY <1>1, <2>2, SlotTuple
    <3>2. PICK T \in 0 .. expire_at[t] : Begins(t, w, s, T) /\ last_run + Span[cursor.wheel] <= T
        BY <1>1, <3>1, Ahead
    <3>3. last_run < T /\ last_run' <= T /\ last_run <= last_run'
        BY <1>1, <1>2, <1>5, <3>2, SpanRec
    <3>4. Begins(t, w, s, T)' /\ T \in 0 .. expire_at'[t]
        BY <1>1, <2>1, <3>2, <3>3, StaysPlaced
    <3> QED BY <1>5, <3>3, <3>4
  <2>3. ASSUME NEW t \in Timers, place'[t] = Expired PROVE expire_at'[t] <= now'
      BY <1>1, <1>3, <2>3 DEF ExpiredOK
  <2> QED BY <1>1, <1>5, <2>1, <2>2, <2>3, ExitInv
<1> QED BY <1>1, <1>4, <1>5

(* cascade_one: timers whose slot is due move to a later or a smaller slot. *)
LEMMA CascadeFacts ==
    ASSUME WheelIInv, NEW slots, Cascade(slots), UNCHANGED <<last_run, expire_at>>,
           \A t \in Timers : place[t] \in slots =>
               \E w \in Wheels : /\ w > 0 /\ place[t] = Slot(w, timer_slot(w, last_run))
                                 /\ Multiple(last_run, w)
    PROVE  /\ fail' = "no"
           /\ place' \in [Timers -> Places]
           /\ \A t \in Timers : place[t] \notin slots => place'[t] = place[t]
           /\ \A t \in Timers : place'[t] = Expired => place[t] = Expired
           /\ \A t \in Timers, v \in Wheels, s \in 0 .. Slots - 1 :
                 place[t] \in slots /\ place'[t] = Slot(v, s) =>
                    \E T \in 0 .. expire_at'[t] : Begins(t, v, s, T)' /\ (T = last_run' => v = 0)
<1> USE DEF WheelIInv
<1> DEFINE moved == {t \in Timers : place[t] \in slots}
<1>1. /\ place' = [t \in Timers |-> IF t \in moved THEN SlotFor(expire_at[t], last_run) ELSE place[t]]
      /\ fail' = IF \E t \in moved : expire_at[t] < last_run THEN "corrupt timer"
                 ELSE IF \E t \in moved : place'[t] = place[t] THEN "same slot" ELSE fail
    BY DEF Cascade
<1>1a. ASSUME NEW t \in Timers
      PROVE  /\ t \in moved => place'[t] = SlotFor(expire_at[t], last_run)
             /\ t \notin moved => place'[t] = place[t]
  <2>1. place' = [x \in Timers |-> IF x \in moved THEN SlotFor(expire_at[x], last_run) ELSE place[x]]
      BY <1>1
  <2> HIDE DEF moved
  <2> QED BY <2>1
<1>2. last_run \in Nat
    BY DEF WheelTypeOK
<1>3. ASSUME NEW t \in moved
      PROVE  /\ ~ (expire_at[t] < last_run)
             /\ place'[t] # place[t]
             /\ \E v \in Wheels, T \in 0 .. expire_at[t] :
                   /\ place'[t] = Slot(v, timer_slot(v, T))
                   /\ Begins(t, v, timer_slot(v, T), T)' /\ (T = last_run' => v = 0)
  <2>1. t \in Timers /\ expire_at[t] \in Nat /\ place'[t] = SlotFor(expire_at[t], last_run)
    <3>1. t \in Timers
        OBVIOUS
    <3> QED BY <1>1a, <3>1 DEF WheelTypeOK
  <2>2. PICK w \in Wheels : /\ w > 0 /\ place[t] = Slot(w, timer_slot(w, last_run))
                            /\ Multiple(last_run, w)
      OBVIOUS
  <2>3. Begins(t, w, timer_slot(w, last_run), last_run)
      BY <1>2, <2>1, <2>2, CurrentSlot
  <2>4. last_run <= expire_at[t] /\ (w < NumWheels - 1 => expire_at[t] < last_run + Span[w])
      BY <2>3 DEF Begins
  <2>5. PICK v \in Wheels, T \in 0 .. expire_at[t] :
              /\ SlotFor(expire_at[t], last_run) = Slot(v, timer_slot(v, T))
              /\ Multiple(T, v) /\ (v < NumWheels - 1 => expire_at[t] < T + Span[v])
              /\ last_run <= T /\ T < last_run + Span[v + 1]
              /\ v > 0 => last_run < T
              /\ \A u \in Wheels : u > 0 /\ expire_at[t] < last_run + Span[u] => v < u
      BY <1>2, <2>1, <2>4, SlotForFacts
  <2>6. place'[t] # place[t]
    <3>1. SUFFICES ASSUME v = w, timer_slot(v, T) = timer_slot(w, last_run) PROVE FALSE
        BY <2>1, <2>2, <2>5, SlotTuple
    <3>2. T \in Nat /\ T # last_run
        BY <1>2, <2>2, <2>5, <3>1
    <3>3. T = last_run
        BY <1>2, <2>2, <2>5, <3>1, <3>2, SlotInjective
    <3> QED BY <3>2, <3>3
  <2>7. Begins(t, v, timer_slot(v, T), T)'
    <3>1. last_run' = last_run /\ expire_at'[t] = expire_at[t]
        OBVIOUS
    <3> QED BY <2>5, <3>1 DEF Begins, Multiple, timer_slot
  <2>8. T = last_run' => v = 0
      BY <1>2, <2>5 DEF Wheels
  <2>9. ~ (expire_at[t] < last_run)
      BY <1>2, <2>1, <2>4
  <2> QED BY <2>1, <2>5, <2>6, <2>7, <2>8, <2>9
<1>4. fail' = "no"
    BY <1>1, <1>3
<1>5. ASSUME NEW t \in Timers
      PROVE  place'[t] \in Places
  <2>1. CASE t \in moved
    <3>1. PICK v \in Wheels, T \in 0 .. expire_at[t] : place'[t] = Slot(v, timer_slot(v, T))
        BY <1>3, <2>1
    <3>2. timer_slot(v, T) \in 0 .. Slots - 1
        BY SlotType
    <3> QED BY <3>1, <3>2 DEF Places
  <2>2. CASE t \notin moved
      BY <1>1a, <2>2 DEF WheelTypeOK
  <2> QED BY <2>1, <2>2
<1>6. ASSUME NEW t \in Timers, place'[t] = Expired PROVE place[t] = Expired
  <2>1. t \notin moved
      BY <1>3, <1>6, SlotTuple
  <2> QED BY <1>1, <1>6, <2>1
<1>7. ASSUME NEW t \in Timers, place[t] \notin slots PROVE place'[t] = place[t]
    BY <1>1, <1>7
<1>8. ASSUME NEW t \in Timers, NEW v \in Wheels, NEW s \in 0 .. Slots - 1,
             place[t] \in slots, place'[t] = Slot(v, s)
      PROVE  \E T \in 0 .. expire_at'[t] : Begins(t, v, s, T)' /\ (T = last_run' => v = 0)
  <2>1. PICK u \in Wheels, T \in 0 .. expire_at[t] :
           /\ place'[t] = Slot(u, timer_slot(u, T))
           /\ Begins(t, u, timer_slot(u, T), T)' /\ (T = last_run' => u = 0)
      BY <1>3, <1>8
  <2>2. u = v /\ timer_slot(u, T) = s
    <3>1. Slot(u, timer_slot(u, T)) = Slot(v, s)
        BY <1>8, <2>1
    <3> QED BY <3>1 DEF Slot
  <2>3. expire_at'[t] = expire_at[t]
      OBVIOUS
  <2> QED BY <2>1, <2>2, <2>3
<1>9. place' = [t \in Timers |-> place'[t]]
    BY <1>1
<1>10. place' \in [Timers -> Places]
    BY <1>5, <1>9
<1> QED BY <1>4, <1>6, <1>7, <1>8, <1>10

(* Redo starts at a slot. *)
LEMMA CursorType ==
    ASSUME NEW w \in Wheels, last_run \in Nat, Redo(w, last_run)
    PROVE  /\ cursor' \in [wheel : Wheels, slot : 0 .. Slots - 1, slot_start : 0 .. Slots - 1]
           /\ phase' \in Phases
BY SlotType DEF Redo, Phases

(* After the search there is no cursor. *)
LEMMA ExitType ==
    ASSUME Exit
    PROVE  /\ cursor' \in [wheel : Wheels, slot : 0 .. Slots - 1, slot_start : 0 .. Slots - 1]
           /\ phase' \in Phases
BY WheelAssumption DEF Exit, NoCursor, Phases, Wheels

(* A slot of a higher wheel is skipped or distributed. *)
LEMMA SkipOrCascadeInv ==
    ASSUME WheelIInv, SkipOrCascade
    PROVE  WheelIInv'
<1> USE DEF WheelIInv
<1> DEFINE w == cursor.wheel
<1>1. phase = "scan" /\ w > 0 /\ UNCHANGED <<now, expire_at, rewinds>>
    BY DEF SkipOrCascade
<1>2. /\ w \in Wheels /\ last_run \in Nat /\ now \in 0 .. MaxNow /\ last_run <= now
      /\ Multiple(last_run, w) /\ cursor.slot = timer_slot(w, last_run)
    BY <1>1 DEF WheelTypeOK, CursorOK
<1>3. CASE In(w, cursor.slot) # {}
  <2>1. Cascade({Slot(w, cursor.slot)}) /\ Redo(0, last_run) /\ last_run' = last_run
      BY <1>3 DEF SkipOrCascade
  <2> DEFINE slots == {Slot(w, cursor.slot)}
  <2>2. \A t \in Timers : place[t] \in slots =>
               \E x \in Wheels : /\ x > 0 /\ place[t] = Slot(x, timer_slot(x, last_run))
                                 /\ Multiple(last_run, x)
      BY <1>1, <1>2
  <2> HIDE DEF slots
  <2>3. /\ fail' = "no"
        /\ place' \in [Timers -> Places]
        /\ \A t \in Timers : place[t] \notin slots => place'[t] = place[t]
        /\ \A t \in Timers : place'[t] = Expired => place[t] = Expired
        /\ \A t \in Timers, v \in Wheels, s \in 0 .. Slots - 1 :
              place[t] \in slots /\ place'[t] = Slot(v, s) =>
                 \E T \in 0 .. expire_at'[t] : Begins(t, v, s, T)' /\ (T = last_run' => v = 0)
      BY <1>1, <2>1, <2>2, CascadeFacts DEF slots
  <2>4. 0 \in Wheels /\ Multiple(last_run, 0)
      BY <1>2, MultipleOfOne, WheelAssumption DEF Wheels
  <2>5. WheelTypeOK'
    <3>1. /\ cursor' \in [wheel : Wheels, slot : 0 .. Slots - 1, slot_start : 0 .. Slots - 1]
          /\ phase' \in Phases
        BY <1>2, <2>1, <2>4, CursorType
    <3> QED BY <1>1, <2>1, <2>3, <3>1 DEF WheelTypeOK
  <2>6. ASSUME NEW t \in Timers, NEW v \in Wheels, NEW s \in 0 .. Slots - 1, place'[t] = Slot(v, s)
        PROVE  /\ 0 <= v
               /\ \E T \in 0 .. expire_at'[t] : Begins(t, v, s, T)' /\ (T = last_run' => v = 0)
    <3>1. CASE place[t] \notin slots
      <4>1. place[t] = Slot(v, s) /\ t \notin In(cursor.wheel, cursor.slot)
          BY <2>3, <2>6, <3>1 DEF In, slots
      <4>2. PICK T \in 0 .. expire_at[t] : Begins(t, v, s, T) /\ last_run + Span[cursor.wheel] <= T
          BY <1>1, <4>1, Ahead
      <4>3. last_run < T /\ last_run' <= T /\ last_run <= last_run'
          BY <1>2, <2>1, <4>2, SpanStep
      <4>4. Begins(t, v, s, T)' /\ T \in 0 .. expire_at'[t]
          BY <1>1, <2>5, <4>2, <4>3, StaysPlaced
      <4>5. T # last_run'
          BY <1>2, <2>1, <4>3
      <4> QED BY <4>4, <4>5 DEF Wheels
    <3> QED BY <2>3, <2>6, <3>1 DEF Wheels
  <2>7. \A t \in Timers : place'[t] = Expired => expire_at'[t] <= now'
      BY <1>1, <2>3 DEF ExpiredOK
  <2> QED BY <1>1, <1>2, <2>1, <2>3, <2>4, <2>5, <2>6, <2>7, RedoInv
<1>4. CASE In(w, cursor.slot) = {}
  <2> DEFINE run == last_run + Span[w]
  <2>1. /\ UNCHANGED <<place, fail>>
        /\ \/ run > now /\ Exit /\ last_run' = now
           \/ ~ (run > now) /\ Advance /\ last_run' = run
      BY <1>4 DEF SkipOrCascade
  <2>2. Span[w] \in Nat \ {0}
      BY <1>2, SpanStep
  <2>3. CASE ~ (run > now) /\ Advance /\ last_run' = run
    <3>1. last_run' <= now
        BY <1>2, <2>2, <2>3
    <3>2. place' = [t \in Timers |-> IF t \in In(cursor.wheel, cursor.slot) THEN Expired ELSE place[t]]
        BY <1>4, <2>1 DEF WheelTypeOK
    <3> QED BY <1>1, <1>4, <2>1, <2>3, <3>1, <3>2, AdvanceInv
  <2>4. CASE run > now /\ Exit /\ last_run' = now
    <3>1. WheelTypeOK'
      <4>1. /\ cursor' \in [wheel : Wheels, slot : 0 .. Slots - 1, slot_start : 0 .. Slots - 1]
            /\ phase' \in Phases
          BY <2>4, ExitType
      <4> QED BY <1>1, <1>2, <2>1, <2>4, <4>1 DEF WheelTypeOK
    <3>2. ASSUME NEW t \in Timers, NEW v \in Wheels, NEW s \in 0 .. Slots - 1, place'[t] = Slot(v, s)
          PROVE  \E T \in 0 .. expire_at'[t] : Begins(t, v, s, T)' /\ last_run' < T
      <4>1. PICK T \in 0 .. expire_at[t] : Begins(t, v, s, T) /\ last_run + Span[cursor.wheel] <= T
          BY <1>1, <1>4, <2>1, <3>2, Ahead
      <4>2. last_run' < T /\ last_run' <= T /\ last_run <= last_run'
          BY <1>2, <2>2, <2>4, <4>1
      <4>3. Begins(t, v, s, T)' /\ T \in 0 .. expire_at'[t]
          BY <1>1, <3>1, <4>1, <4>2, StaysPlaced
      <4> QED BY <4>2, <4>3
    <3>3. \A t \in Timers : place'[t] = Expired => expire_at'[t] <= now'
        BY <1>1, <2>1 DEF ExpiredOK
    <3> QED BY <1>1, <2>1, <2>4, <3>1, <3>2, <3>3, ExitInv
  <2> QED BY <2>1, <2>3, <2>4
<1> QED BY <1>3, <1>4

(* cascade_all takes all slots of the higher wheels that are due, and only those. *)
LEMMA CascadedSlotsFacts ==
    ASSUME WheelIInv, phase = "carry"
    PROVE  /\ \A t \in Timers : place[t] \in CascadedSlots =>
                 \E w \in Wheels : /\ w > 0 /\ place[t] = Slot(w, timer_slot(w, last_run))
                                   /\ Multiple(last_run, w)
           /\ \A t \in Timers, v \in Wheels, s \in 0 .. Slots - 1 :
                 place[t] = Slot(v, s) /\ place[t] \notin CascadedSlots =>
                    /\ cursor.wheel <= v
                    /\ \E T \in 0 .. expire_at[t] : Begins(t, v, s, T) /\ (T = last_run => v = 0)
<1> USE DEF WheelIInv
<1> DEFINE w == cursor.wheel
           first == IF w = 0 THEN 1 ELSE w
           ticking == {x \in first .. NumWheels - 1 :
                           \A v \in first .. x - 1 : timer_slot(v, last_run) = 0}
<1>1. /\ w \in Wheels /\ last_run \in Nat /\ w + 1 \in 0 .. NumWheels /\ first \in 0 .. w + 1
      /\ first \in 0 .. NumWheels /\ first > 0 /\ w <= first
    BY WheelAssumption DEF WheelTypeOK, Wheels
<1>2. Multiple(last_run, w + 1)
    BY DEF CursorOK
<1>3. Multiple(last_run, first)
    BY <1>1, <1>2, MultipleBelow
<1>4. CascadedSlots = {Slot(x, timer_slot(x, last_run)) : x \in ticking}
    BY DEF CascadedSlots
<1> HIDE DEF w, first
<1>5. ASSUME NEW x \in ticking PROVE x \in Wheels /\ x > 0 /\ Multiple(last_run, x)
  <2>1. x \in Wheels /\ x > 0 /\ x \in first .. NumWheels
      BY <1>1, WheelAssumption DEF Wheels
  <2>2. \A v \in first .. x - 1 : timer_slot(v, last_run) = 0
      OBVIOUS
  <2>3. Multiple(last_run, x)
      BY <1>1, <1>3, <2>1, <2>2, Rising
  <2> QED BY <2>1, <2>3
<1>6. ASSUME NEW t \in Timers, place[t] \in CascadedSlots
      PROVE  \E x \in Wheels : /\ x > 0 /\ place[t] = Slot(x, timer_slot(x, last_run))
                               /\ Multiple(last_run, x)
    BY <1>4, <1>5, <1>6
<1>7. ASSUME NEW t \in Timers, NEW v \in Wheels, NEW s \in 0 .. Slots - 1,
             place[t] = Slot(v, s), place[t] \notin CascadedSlots
      PROVE  /\ w <= v
             /\ \E T \in 0 .. expire_at[t] : Begins(t, v, s, T) /\ (T = last_run => v = 0)
  <2>1. w <= v
    <3>1. ASSUME v < w PROVE FALSE
      <4>1. v \in 0 .. w - 1
          BY <1>1, <3>1 DEF Wheels
      <4> QED BY <1>7, <4>1 DEF Passed, w
    <3> QED BY <1>1, <3>1 DEF Wheels
  <2>2. PICK T \in 0 .. expire_at[t] : Begins(t, v, s, T)
      BY <1>7 DEF Placed
  <2>3. T \in Nat /\ Multiple(T, v) /\ s = timer_slot(v, T)
      BY <2>2 DEF Begins
  <2>4. ASSUME T = last_run, v # 0 PROVE FALSE
    <3>1. v \in first .. NumWheels - 1 /\ v \in 0 .. NumWheels
        BY <1>1, <2>1, <2>4, WheelAssumption DEF Wheels, first
    <3>2. ASSUME NEW u \in first .. v - 1 PROVE timer_slot(u, last_run) = 0
      <4>1. u \in Wheels /\ u \in 0 .. v /\ u + 1 \in 0 .. v
          BY <1>1, <3>1, WheelAssumption DEF Wheels
      <4>2. Multiple(last_run, u) /\ Multiple(last_run, u + 1)
          BY <1>1, <2>3, <2>4, <3>1, <4>1, MultipleBelow
      <4> QED BY <1>1, <4>1, <4>2, SlotZero
    <3>3. v \in ticking
        BY <3>1, <3>2
    <3> QED BY <1>4, <1>7, <2>3, <2>4, <3>3
  <2> QED BY <2>1, <2>2, <2>4
<1> QED BY <1>6, <1>7 DEF w

(* The end of a wheel: the wheels above tick, and the search goes on where something may be. *)
LEMMA CarryInv ==
    ASSUME WheelIInv, Carry
    PROVE  WheelIInv'
<1> USE DEF WheelIInv
<1> DEFINE w == cursor.wheel
           any == \E t \in Timers : place[t] \in CascadedSlots
<1>1. /\ phase = "carry" /\ Cascade(CascadedSlots) /\ UNCHANGED <<now, expire_at, rewinds>>
      /\ \/ any /\ Redo(0, last_run) /\ last_run' = last_run
         \/ ~ any /\ cursor.slot_start # 0 /\ Redo(w, last_run) /\ last_run' = last_run
         \/ /\ ~ any /\ cursor.slot_start = 0 /\ w + 1 < NumWheels /\ Redo(w + 1, last_run)
            /\ last_run' = last_run
         \/ /\ ~ any /\ cursor.slot_start = 0 /\ ~ (w + 1 < NumWheels) /\ Exit
            /\ last_run' = IF last_run < now THEN now ELSE last_run
    BY DEF Carry
<1>2. /\ w \in Wheels /\ last_run \in Nat /\ now \in 0 .. MaxNow /\ last_run <= now
      /\ Multiple(last_run, w + 1) /\ w + 1 \in 0 .. NumWheels
    BY <1>1, WheelAssumption DEF WheelTypeOK, CursorOK, Wheels
<1>3. Multiple(last_run, w)
  <2>1. w \in 0 .. w + 1
      BY <1>2 DEF Wheels
  <2> QED BY <1>2, <2>1, MultipleBelow
<1>4. \A t \in Timers : place[t] \in CascadedSlots =>
          \E x \in Wheels : /\ x > 0 /\ place[t] = Slot(x, timer_slot(x, last_run))
                            /\ Multiple(last_run, x)
    BY <1>1, CascadedSlotsFacts
<1>5. ASSUME NEW t \in Timers, NEW v \in Wheels, NEW s \in 0 .. Slots - 1,
             place[t] = Slot(v, s), place[t] \notin CascadedSlots
      PROVE  /\ w <= v
             /\ \E T \in 0 .. expire_at[t] : Begins(t, v, s, T) /\ (T = last_run => v = 0)
    BY <1>1, <1>5, CascadedSlotsFacts
<1>6. ASSUME last_run' = last_run
      PROVE  /\ fail' = "no" /\ place' \in [Timers -> Places]
             /\ \A t \in Timers : place[t] \notin CascadedSlots => place'[t] = place[t]
             /\ \A t \in Timers : place'[t] = Expired => place[t] = Expired
             /\ \A t \in Timers, v \in Wheels, s \in 0 .. Slots - 1 :
                   place[t] \in CascadedSlots /\ place'[t] = Slot(v, s) =>
                      \E T \in 0 .. expire_at'[t] : Begins(t, v, s, T)' /\ (T = last_run' => v = 0)
    BY <1>1, <1>4, <1>6, CascadeFacts
<1>7. ASSUME last_run' = last_run, WheelTypeOK',
             NEW t \in Timers, NEW v \in Wheels, NEW s \in 0 .. Slots - 1, place'[t] = Slot(v, s)
      PROVE  /\ ~ any => w <= v /\ place[t] = Slot(v, s)
             /\ \E T \in 0 .. expire_at'[t] : Begins(t, v, s, T)' /\ (T = last_run' => v = 0)
  <2>1. CASE place[t] \in CascadedSlots
      BY <1>6, <1>7, <2>1
  <2>2. CASE place[t] \notin CascadedSlots
    <3>1. place[t] = Slot(v, s)
        BY <1>6, <1>7, <2>2
    <3>2. PICK T \in 0 .. expire_at[t] : Begins(t, v, s, T) /\ (T = last_run => v = 0)
        BY <1>5, <2>2, <3>1
    <3>3. last_run' <= T /\ last_run <= last_run'
        BY <1>2, <1>7, <3>2 DEF Begins
    <3>4. Begins(t, v, s, T)' /\ T \in 0 .. expire_at'[t]
        BY <1>1, <1>7, <3>2, <3>3, StaysPlaced
    <3> QED BY <1>5, <1>7, <2>2, <3>1, <3>2, <3>4
  <2> QED BY <2>1, <2>2
<1>8. ASSUME last_run' = last_run, NEW x \in Wheels, Redo(x, last_run) PROVE WheelTypeOK'
  <2>1. /\ cursor' \in [wheel : Wheels, slot : 0 .. Slots - 1, slot_start : 0 .. Slots - 1]
        /\ phase' \in Phases
      BY <1>2, <1>8, CursorType
  <2> QED BY <1>1, <1>6, <1>8, <2>1 DEF WheelTypeOK
<1>9. ASSUME last_run' = last_run
      PROVE  /\ \A t \in Timers : place'[t] = Expired => expire_at'[t] <= now'
             /\ last_run' <= now' /\ fail' = "no"
    BY <1>1, <1>2, <1>6, <1>9 DEF ExpiredOK
<1> HIDE DEF any, w
<1>10. CASE any /\ Redo(0, last_run) /\ last_run' = last_run
  <2>1. 0 \in Wheels /\ Multiple(last_run, 0)
      BY <1>2, MultipleOfOne, WheelAssumption DEF Wheels
  <2>2. WheelTypeOK'
      BY <1>8, <1>10, <2>1
  <2>3. \A t \in Timers, v \in Wheels, s \in 0 .. Slots - 1 : place'[t] = Slot(v, s) =>
            /\ 0 <= v
            /\ \E T \in 0 .. expire_at'[t] : Begins(t, v, s, T)' /\ (T = last_run' => v = 0)
      BY <1>7, <1>10, <2>2 DEF Wheels
  <2> QED BY <1>9, <1>10, <2>1, <2>2, <2>3, RedoInv
<1>11. CASE ~ any /\ Redo(w, last_run) /\ last_run' = last_run
  <2>1. WheelTypeOK'
      BY <1>2, <1>8, <1>11
  <2>2. \A t \in Timers, v \in Wheels, s \in 0 .. Slots - 1 : place'[t] = Slot(v, s) =>
            /\ w <= v
            /\ \E T \in 0 .. expire_at'[t] : Begins(t, v, s, T)' /\ (T = last_run' => v = 0)
      BY <1>7, <1>11, <2>1
  <2> QED BY <1>2, <1>3, <1>9, <1>11, <2>1, <2>2, RedoInv
(* the search went through all slots of the wheel *)
<1>12. ASSUME cursor.slot_start = 0, NEW t \in Timers, NEW s \in 0 .. Slots - 1
       PROVE  place[t] # Slot(w, s)
    BY <1>1, <1>12 DEF Passed, w
<1>13. CASE ~ any /\ cursor.slot_start = 0 /\ w + 1 < NumWheels /\ Redo(w + 1, last_run) /\ last_run' = last_run
  <2>1. w + 1 \in Wheels
      BY <1>2, <1>13, WheelAssumption DEF Wheels
  <2>2. WheelTypeOK'
      BY <1>8, <1>13, <2>1
  <2>3. ASSUME NEW t \in Timers, NEW v \in Wheels, NEW s \in 0 .. Slots - 1, place'[t] = Slot(v, s)
        PROVE  /\ w + 1 <= v
               /\ \E T \in 0 .. expire_at'[t] : Begins(t, v, s, T)' /\ (T = last_run' => v = 0)
    <3>1. /\ w <= v /\ place[t] = Slot(v, s)
          /\ \E T \in 0 .. expire_at'[t] : Begins(t, v, s, T)' /\ (T = last_run' => v = 0)
        BY <1>7, <1>13, <2>2, <2>3
    <3>2. v # w
        BY <1>12, <1>13, <3>1
    <3> QED BY <1>2, <3>1, <3>2 DEF Wheels
  <2> QED BY <1>2, <1>9, <1>13, <2>1, <2>2, <2>3, RedoInv
<1>14. CASE /\ ~ any /\ cursor.slot_start = 0 /\ ~ (w + 1 < NumWheels) /\ Exit
            /\ last_run' = IF last_run < now THEN now ELSE last_run
  <2>1. last_run' = now /\ w = NumWheels - 1
      BY <1>2, <1>14, WheelAssumption DEF Wheels
  <2>2. place' = place /\ fail' = fail
    <3> DEFINE moved == {t \in Timers : place[t] \in CascadedSlots}
    <3>1. moved = {}
        BY <1>14 DEF any
    <3>2. /\ place' = [t \in Timers |-> IF t \in moved THEN SlotFor(expire_at[t], last_run) ELSE place[t]]
          /\ fail' = IF \E t \in moved : expire_at[t] < last_run THEN "corrupt timer"
                     ELSE IF \E t \in moved : place'[t] = place[t] THEN "same slot" ELSE fail
        BY <1>1 DEF Cascade
    <3> HIDE DEF moved
    <3>3. place' = [t \in Timers |-> place[t]]
        BY <3>1, <3>2
    <3> QED BY <3>1, <3>2, <3>3 DEF WheelTypeOK
  <2>3. WheelTypeOK'
    <3>1. /\ cursor' \in [wheel : Wheels, slot : 0 .. Slots - 1, slot_start : 0 .. Slots - 1]
          /\ phase' \in Phases
        BY <1>14, ExitType
    <3> QED BY <1>1, <1>2, <2>1, <2>2, <3>1 DEF WheelTypeOK
  <2>4. ASSUME NEW t \in Timers, NEW v \in Wheels, NEW s \in 0 .. Slots - 1, place'[t] = Slot(v, s)
        PROVE  FALSE
    <3>1. CASE v = w
        BY <1>12, <1>14, <2>2, <2>4, <3>1
    <3>2. CASE v # w
      <4>1. v \in 0 .. w - 1
          BY <2>1, <3>2, WheelAssumption DEF Wheels
      <4> QED BY <1>1, <2>2, <2>4, <4>1 DEF Passed, w
    <3> QED BY <3>1, <3>2
  <2>5. \A t \in Timers : place'[t] = Expired => expire_at'[t] <= now'
      BY <1>1, <2>2 DEF ExpiredOK
  <2> QED BY <1>1, <1>14, <2>1, <2>2, <2>3, <2>4, <2>5, ExitInv
<1> QED BY <1>1, <1>10, <1>11, <1>13, <1>14

(* The inductive invariant holds when the loop is created. *)
LEMMA WheelInitInv ==
    ASSUME WheelInit
    PROVE  WheelIInv
<1>1. /\ now \in 0 .. MaxNow /\ last_run = now /\ phase = "poll" /\ cursor = NoCursor
      /\ expire_at = [t \in Timers |-> 0] /\ place = [t \in Timers |-> Unlinked]
      /\ rewinds = 0 /\ fail = "no"
    BY WheelAssumption DEF WheelInit
<1>2. WheelTypeOK
    BY <1>1, WheelAssumption DEF WheelTypeOK, Phases, Places, NoCursor, Wheels
<1>3. Placed /\ ExpiredOK
    BY <1>1, SlotTuple DEF Placed, ExpiredOK
<1>4. Passed /\ CursorOK /\ ClockOK
    BY <1>1 DEF Passed, CursorOK, ClockOK
<1> QED BY <1>1, <1>2, <1>3, <1>4 DEF WheelIInv

(* Every step keeps the inductive invariant. *)
LEMMA WheelNextInv ==
    ASSUME WheelIInv, [WheelNext]_wheel_vars
    PROVE  WheelIInv'
<1>1. CASE UNCHANGED wheel_vars
    BY <1>1 DEF wheel_vars, WheelIInv, WheelTypeOK, Placed, Begins, Multiple, timer_slot, MayBeDue, Passed,
                CursorOK, ClockOK, ExpiredOK
<1>2. CASE ProceedTimeout \/ ProceedEvent \/ ProceedRewind
    BY <1>2, ProceedInv
<1>3. CASE \E t \in Timers, d \in Delays : Link(t, d)
    BY <1>3, LinkInv
<1>4. CASE \E t \in Timers : Unlink(t) \/ Fire(t)
    BY <1>4, RemoveInv
<1>5. CASE Scan
    BY <1>5, GetExpiredInv, CollectInv, SkipOrCascadeInv, CarryInv DEF Scan
<1> QED BY <1>1, <1>2, <1>3, <1>4, <1>5 DEF WheelNext

-----------------------------------------------------------------------------
(* calc_expire_for_slot computes the time a slot is due. *)
LEMMA AtMinIs ==
    ASSUME NEW w \in Wheels, NEW T \in Nat, last_run \in Nat, Multiple(T, w),
           last_run <= T, w > 0 => last_run < T, T < last_run + Span[w + 1]
    PROVE  AtMin(w, timer_slot(w, T)) = T
<1> DEFINE P == Span[w]
           Q == Span[w + 1]
           s == timer_slot(w, T)
           b == last_run \div Q
           m == last_run % Q
<1>1. P \in Nat \ {0} /\ Q \in Nat \ {0} /\ Q = Slots * P
    BY SpanStep
<1>2. b \in Nat /\ m \in 0 .. Q - 1 /\ last_run = b * Q + m
    BY <1>1, DivMod
<1>3. PICK k \in Nat : T = k * P
    BY DEF Multiple
<1>4. s = k % Slots /\ Slots \in Nat \ {0}
    BY <1>3, SlotOf, WheelAssumption
<1> DEFINE q == k \div Slots
<1>5. q \in Nat /\ s \in 0 .. Slots - 1 /\ k = q * Slots + s
    BY <1>4, DivMod
<1> DEFINE turn == last_run - m + s * P
           past == IF w = 0 THEN turn < last_run ELSE turn <= last_run
<1>6. AtMin(w, s) = IF past THEN turn + Q ELSE turn
    BY DEF AtMin
<1> HIDE DEF P, Q, s, b, m, q
<1>7. T = q * Q + s * P
  <2>1. q * Slots \in Nat /\ s \in Nat
      BY <1>4, <1>5
  <2>2. (q * Slots + s) * P = (q * Slots) * P + s * P
    <3> DEFINE z == q * Slots
    <3> HIDE DEF z
    <3>1. z \in Int /\ s \in Int
        BY <2>1 DEF z
    <3>2. (z + s) * P = z * P + s * P
        BY <1>1, <3>1, MulLess
    <3> QED BY <3>2 DEF z
  <2>3. (q * Slots) * P = q * Q
      BY <1>1, <1>4, <1>5
  <2> QED BY <1>3, <1>5, <2>2, <2>3
<1>8. turn = b * Q + s * P
  <2>1. b * Q \in Nat /\ s * P \in Nat
      BY <1>1, <1>2, <1>5
  <2> QED BY <1>1, <1>2, <2>1
<1>9. s * P \in Nat /\ s * P + P <= Q
  <2>1. (s + 1) * P <= Slots * P /\ (s + 1) * P = s * P + P
      BY <1>1, <1>4, <1>5, MulLess
  <2> QED BY <1>1, <1>5, <2>1
<1> DEFINE bQ == b * Q
           qQ == q * Q
           sP == s * P
<1>10. bQ \in Nat /\ qQ \in Nat /\ (b + 1) * Q = bQ + Q /\ (q + 1) * Q = qQ + Q /\ (b + 2) * Q = bQ + 2 * Q
    BY <1>1, <1>2, <1>5, MulLess
<1>11. /\ turn = bQ + sP /\ T = qQ + sP /\ last_run = bQ + m /\ sP < Q /\ sP \in Nat
       /\ m \in 0 .. Q - 1 /\ Q \in Nat
    BY <1>1, <1>2, <1>7, <1>8, <1>9
(* the turns of T and of last_run are the same or follow one another *)
<1>12. b <= q
  <2>1. b * Q < (q + 1) * Q
    <3> HIDE DEF turn, past, bQ, qQ, sP
    <3>1. bQ < qQ + Q
        BY <1>10, <1>11
    <3> QED BY <1>10, <3>1 DEF bQ
  <2>2. b < q + 1
    <3>1. q + 1 \in Int /\ b \in Int
        BY <1>2, <1>5
    <3> DEFINE z == q + 1
    <3> HIDE DEF z
    <3> QED BY <1>1, <2>1, <3>1, MulLess DEF z
  <2> QED BY <1>2, <1>5, <2>2
<1>13. q < b + 2
  <2>1. q * Q < (b + 2) * Q
    <3> HIDE DEF turn, past, bQ, qQ, sP
    <3>1. qQ < bQ + 2 * Q
        BY <1>10, <1>11 DEF Q
    <3> QED BY <1>10, <3>1 DEF qQ
  <2>2. b + 2 \in Int /\ q \in Int
      BY <1>2, <1>5
  <2> DEFINE z == b + 2
  <2> HIDE DEF z
  <2> QED BY <1>1, <2>1, <2>2, MulLess DEF z
<1>14. CASE q = b
  <2>1. T = turn
      BY <1>7, <1>8, <1>14
  <2>2. ~ past
    <3> HIDE DEF turn
    <3> QED BY <2>1 DEF Wheels
  <2> QED BY <1>6, <2>1, <2>2 DEF s
<1>15. CASE q = b + 1
  <2>1. qQ = bQ + Q
      BY <1>10, <1>15
  <2>2. T = turn + Q
    <3> HIDE DEF turn, past, bQ, qQ, sP
    <3> QED BY <1>10, <1>11, <2>1
  <2>3. turn < last_run /\ turn \in Int
    <3> HIDE DEF turn, past, bQ, qQ, sP
    <3> QED BY <1>10, <1>11, <2>2 DEF Q
  <2>4. past
    <3> HIDE DEF turn
    <3> QED BY <2>3
  <2> QED BY <1>6, <2>2, <2>4 DEF s
<1> QED BY <1>2, <1>5, <1>12, <1>13, <1>14, <1>15

(* What calc_expire_for_slot gives is the time at which the slot of the timer is due. *)
LEMMA InvValidates == ASSUME WheelIInv PROVE Validates
<1> USE DEF WheelIInv
<1>1. CaughtUp
    BY DEF CaughtUp, ClockOK, WheelTypeOK
<1>2. ASSUME phase \in Phases \ {"scan", "carry"}, NEW t \in Linked
      PROVE  /\ AtMin(place[t][2], place[t][3]) <= expire_at[t]
             /\ expire_at[t] <= AtMax(place[t][2], place[t][3])
  <2>1. t \in Timers
      BY DEF Linked
  <2>2. PICK w \in Wheels, s \in 0 .. Slots - 1 : place[t] = Slot(w, s)
      BY <2>1, LinkedIff
  <2>3. place[t][2] = w /\ place[t][3] = s
      BY <2>2 DEF Slot
  <2>4. PICK T \in 0 .. expire_at[t] : Begins(t, w, s, T) /\ (T = last_run => MayBeDue(w))
      BY <2>1, <2>2 DEF Placed
  <2>5. last_run \in Nat /\ T \in Nat /\ expire_at[t] \in 0 .. MaxNow /\ Span[w] \in Nat /\ T <= expire_at[t]
      BY <2>1, SpanStep DEF WheelTypeOK
  <2>6. w > 0 => last_run < T
      BY <1>2, <2>4, <2>5 DEF MayBeDue, Begins, Phases
  <2>7. AtMin(w, s) = T
      BY <2>4, <2>5, <2>6, AtMinIs DEF Begins
  <2>8. expire_at[t] <= AtMax(w, s)
    <3>1. CASE w = NumWheels - 1
        BY <2>5, <3>1 DEF AtMax
    <3>2. CASE w # NumWheels - 1
      <4>1. AtMax(w, s) = T + Span[w] - 1
          BY <2>7, <3>2 DEF AtMax
      <4>2. expire_at[t] < T + Span[w]
          BY <2>4, <3>2, WheelAssumption DEF Begins, Wheels
      <4> QED BY <2>5, <4>1, <4>2
    <3> QED BY <3>1, <3>2
  <2> QED BY <2>3, <2>5, <2>7, <2>8
<1> QED BY <1>1, <1>2 DEF Validates

(* When the search is over, a slot that has a timer is due later. *)
LEMMA InvExactlyDue == ASSUME WheelIInv PROVE ExactlyDue
<1> USE DEF WheelIInv
<1>1. \A t \in Timers : place[t] = Expired => expire_at[t] <= now
    BY DEF ExpiredOK
<1>2. ASSUME phase \in {"expired", "poll"}, now >= last_run, NEW t \in Linked
      PROVE  expire_at[t] > now
  <2>1. t \in Timers
      BY DEF Linked
  <2>2. PICK w \in Wheels, s \in 0 .. Slots - 1 : place[t] = Slot(w, s)
      BY <2>1, LinkedIff
  <2>3. PICK T \in 0 .. expire_at[t] : Begins(t, w, s, T) /\ (T = last_run => MayBeDue(w))
      BY <2>1, <2>2 DEF Placed
  <2>4. last_run \in Nat /\ now \in Nat /\ T \in Nat /\ expire_at[t] \in Nat /\ T <= expire_at[t]
      BY <2>1 DEF WheelTypeOK
  <2>5. last_run = now
      BY <1>2, <2>4 DEF ClockOK
  <2>6. T # last_run
      BY <1>2, <2>3, <2>4, <2>5 DEF MayBeDue
  <2> QED BY <2>3, <2>4, <2>5, <2>6 DEF Begins
<1> QED BY <1>1, <1>2 DEF ExactlyDue

(* The inductive invariant of the wheel: each timer is in a slot that is due within
   one turn of its wheel, not after the time of the timer, and not already passed. *)
THEOREM WheelInvariant == WheelSpec => []WheelIInv
<1>1. WheelInit => WheelIInv
    BY WheelInitInv
<1>2. WheelIInv /\ [WheelNext]_wheel_vars => WheelIInv'
    BY WheelNextInv
<1> QED BY <1>1, <1>2, PTL DEF WheelSpec

(* vhttp_timerwheel_validate never fails, no timer is cascaded into the slot it
   came from, and get_expired catches up with the clock. *)
THEOREM WheelValid == WheelSpec => []Validates
<1>1. WheelIInv => Validates
    BY InvValidates
<1> QED BY <1>1, WheelInvariant, PTL

(* vhttp_timerwheel_get_expired returns the timers that are due, all of them and
   no other. *)
THEOREM WheelExact == WheelSpec => []ExactlyDue
<1>1. WheelIInv => ExactlyDue
    BY InvExactlyDue
<1> QED BY <1>1, WheelInvariant, PTL

(* The loop never sleeps beyond the time of a timer, and sleeps without a limit
   exactly if there is none. *)
THEOREM WheelWakes == WheelSpec => []WakesInTime
<1>1. WheelIInv => WakesInTime
    BY Wakes
<1> QED BY <1>1, WheelInvariant, PTL
================================================================================
