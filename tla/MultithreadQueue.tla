--------------------------- MODULE MultithreadQueue ---------------------------
(***************************************************************************)
(* The inter-thread message queue of lib/common/multithread.c.  A queue    *)
(* belongs to the event loop of one thread.  Receivers registered with it  *)
(* are linked in `receivers.active' when they hold undelivered messages,   *)
(* in `receivers.inactive' otherwise; any thread may send.  The loop is    *)
(* woken through an eventfd, written outside the mutex and only by the     *)
(* sender that found the receiver empty.                                   *)
(*                                                                         *)
(* A critical section of queue->mutex is one step.  What happens outside   *)
(* of it (the write to the eventfd, its read by the loop, the callback) is *)
(* a step of its own, so that sends interleave with all of them.           *)
(***************************************************************************)
EXTENDS Naturals, Sequences

CONSTANTS
    Senders,    \* threads that call vhttp_multithread_send_message
    Receivers,  \* vhttp_multithread_receiver_t objects of this queue
    Messages,   \* vhttp_multithread_message_t objects
    None        \* no receiver

ASSUME NoneAssumption == None \notin Receivers

VARIABLES
    created,    \* between create_queue and destroy_queue
    active,     \* receivers.active, in list order
    inactive,   \* receivers.inactive
    messages,   \* receiver->_messages, in list order
    eventfd,    \* the eventfd counter is not zero
    sender,     \* "idle", or "write": past the mutex with do_send = 1
    loop,       \* "poll": in the event loop; "scan": at the head of the while
                \* of queue_cb; "dispatch": in receiver->cb
    current,    \* the receiver whose callback runs
    batch,      \* the detached list handed to the callback
    notified    \* a NULL message was sent and the loop did not poll since

qvars == <<created, active, inactive, messages>>
lvars == <<loop, current, batch>>
vars == <<qvars, lvars, eventfd, sender, notified>>

InList(m, s) == \E i \in DOMAIN s : s[i] = m

\* vhttp_linklist_is_linked(&message->link)
IsLinked(m) == InList(m, batch) \/ \E r \in Receivers : InList(m, messages[r])

IsRegistered(r) == r \in inactive \/ InList(r, active)

\* vhttp_linklist_unlink(&receiver->_link), as seen by the active list
UnlinkActive(r) ==
    IF InList(r, active) THEN SelectSeq(active, LAMBDA x : x # r) ELSE active

Init ==
    /\ created = TRUE
    /\ active = <<>> /\ inactive = {}
    /\ messages = [r \in Receivers |-> <<>>]
    /\ eventfd = FALSE
    /\ sender = [t \in Senders |-> "idle"]
    /\ loop = "poll" /\ current = None /\ batch = <<>>
    /\ notified = FALSE

------------------------------------------------------------------------------
(* The queue and its receivers: called by the thread that owns the loop.   *)

CreateQueue ==
    /\ ~created
    /\ created' = TRUE /\ active' = <<>> /\ inactive' = {} /\ eventfd' = FALSE
    /\ UNCHANGED <<messages, lvars, sender, notified>>

\* The context that owns the queue is disposed when its loop no longer runs
\* and no other thread is inside a send.
DestroyQueue ==
    /\ created
    /\ active = <<>> /\ inactive = {}
    /\ loop = "poll" /\ \A t \in Senders : sender[t] = "idle"
    /\ created' = FALSE /\ eventfd' = FALSE /\ notified' = FALSE
    /\ UNCHANGED <<active, inactive, messages, lvars, sender>>

RegisterReceiver(r) ==
    /\ created /\ ~IsRegistered(r) /\ loop # "scan" /\ current # r
    /\ messages' = [messages EXCEPT ![r] = <<>>]
    /\ inactive' = inactive \cup {r}
    /\ UNCHANGED <<created, active, lvars, eventfd, sender, notified>>

\* The assertion on _messages is the caller's obligation.
UnregisterReceiver(r) ==
    /\ created /\ IsRegistered(r) /\ loop # "scan" /\ current # r
    /\ messages[r] = <<>>
    /\ inactive' = inactive \ {r}
    /\ active' = UnlinkActive(r)
    /\ UNCHANGED <<created, messages, lvars, eventfd, sender, notified>>

------------------------------------------------------------------------------
(* vhttp_multithread_send_message: the critical section, then the write.   *)

\* Mutation: inserted at the wrong end of the list.
LinkAtHead(r, m) ==
    /\ IF messages[r] = <<>>
       THEN /\ inactive' = inactive \ {r}
            /\ active' = Append(UnlinkActive(r), r)
       ELSE UNCHANGED <<inactive, active>>
    /\ messages' = [messages EXCEPT ![r] = <<m>> \o @]

LinkMessage(r, m) ==
    /\ IF messages[r] = <<>>
       THEN /\ inactive' = inactive \ {r}
            /\ active' = Append(UnlinkActive(r), r)
       ELSE UNCHANGED <<inactive, active>>
    /\ messages' = [messages EXCEPT ![r] = Append(@, m)]

\* Mutation: the emptiness is tested after the message was linked.
DoSendAfterLinking(t, r) ==
    sender' = [sender EXCEPT ![t] = IF messages'[r] = <<>> THEN "write" ELSE "idle"]

DoSend(t, r) ==
    sender' = [sender EXCEPT ![t] = IF messages[r] = <<>> THEN "write" ELSE "idle"]

SendMessage(t, r, m) ==
    /\ created /\ IsRegistered(r) /\ sender[t] = "idle"
    /\ ~IsLinked(m)
    /\ LinkMessage(r, m)
    /\ DoSend(t, r)
    /\ UNCHANGED <<created, lvars, eventfd, notified>>

\* message == NULL: only wake up the receiving thread
SendNull(t, r) ==
    /\ created /\ IsRegistered(r) /\ sender[t] = "idle"
    /\ UNCHANGED <<qvars, lvars, eventfd>>
    /\ DoSend(t, r)
    /\ notified' = TRUE

\* Mutation: a write that cannot succeed is retried for ever, not only on EINTR.
WriteRetried(t) == sender[t] = "write" /\ UNCHANGED vars

WriteEventfd(t) ==
    /\ sender[t] = "write"
    /\ eventfd' = TRUE
    /\ sender' = [sender EXCEPT ![t] = "idle"]
    /\ UNCHANGED <<qvars, lvars, notified>>

------------------------------------------------------------------------------
(* The loop thread: on_read, then queue_cb.                                *)

OnRead ==
    /\ created /\ loop = "poll" /\ eventfd
    /\ eventfd' = FALSE
    /\ loop' = "scan"
    /\ UNCHANGED <<qvars, current, batch, sender, notified>>

DetachMessages ==
    /\ loop = "scan" /\ active # <<>>
    /\ LET r == Head(active) IN
        /\ batch' = messages[r]
        /\ messages' = [messages EXCEPT ![r] = <<>>]
        /\ active' = Tail(active)
        /\ inactive' = inactive \cup {r}
        /\ current' = r
    /\ loop' = "dispatch"
    /\ UNCHANGED <<created, eventfd, sender, notified>>

\* receiver->cb unlinks and handles the messages one after another
HandleMessage ==
    /\ loop = "dispatch" /\ batch # <<>>
    /\ batch' = Tail(batch)
    /\ UNCHANGED <<qvars, loop, current, eventfd, sender, notified>>

\* assert(vhttp_linklist_is_empty(&messages)) holds of every callback
CallbackReturn ==
    /\ loop = "dispatch" /\ batch = <<>>
    /\ loop' = "scan" /\ current' = None
    /\ UNCHANGED <<qvars, batch, eventfd, sender, notified>>

\* No active receiver is left: back to the event loop, whose caller looks at
\* its flags (run_loop of src/main.c) before it polls again.
QueueCbReturn ==
    /\ loop = "scan" /\ active = <<>>
    /\ loop' = "poll"
    /\ notified' = FALSE
    /\ UNCHANGED <<qvars, current, batch, eventfd, sender>>

------------------------------------------------------------------------------
Next ==
    \/ CreateQueue \/ DestroyQueue
    \/ \E r \in Receivers : RegisterReceiver(r) \/ UnregisterReceiver(r)
    \/ \E t \in Senders, r \in Receivers :
        SendNull(t, r) \/ \E m \in Messages : SendMessage(t, r, m)
    \/ \E t \in Senders : WriteEventfd(t)
    \/ OnRead \/ DetachMessages \/ HandleMessage \/ CallbackReturn
    \/ QueueCbReturn

SafeSpec == Init /\ [][Next]_vars

\* A thread inside the library goes on, and a readable eventfd is read; no
\* thread has to send, register or unregister.
Fairness ==
    /\ \A t \in Senders : WF_vars(WriteEventfd(t))
    /\ WF_vars(OnRead) /\ WF_vars(DetachMessages) /\ WF_vars(HandleMessage)
    /\ WF_vars(CallbackReturn) /\ WF_vars(QueueCbReturn)

Spec == SafeSpec /\ Fairness

------------------------------------------------------------------------------
TypeOK ==
    /\ created \in BOOLEAN /\ eventfd \in BOOLEAN /\ notified \in BOOLEAN
    /\ active \in Seq(Receivers) /\ inactive \subseteq Receivers
    /\ messages \in [Receivers -> Seq(Messages)] /\ batch \in Seq(Messages)
    /\ sender \in [Senders -> {"idle", "write"}]
    /\ loop \in {"poll", "scan", "dispatch"}
    /\ current \in Receivers \cup {None}

\* The loop thread is running, or something makes its next poll return.
WakeupPending ==
    eventfd \/ loop # "poll" \/ \E t \in Senders : sender[t] = "write"

\* A receiver is linked in the active list exactly while it has messages, and
\* never in both lists.  vhttp_multithread_send_message decides from the
\* emptiness of _messages alone whether to relink the receiver and to wake the
\* loop up, whatever queue_cb did to it in between.
ActiveIffPending ==
    \A r \in Receivers :
        /\ InList(r, active) <=> messages[r] # <<>>
        /\ ~(InList(r, active) /\ r \in inactive)

\* No lost wakeup: while a receiver holds a message, or a NULL notification
\* was sent, the loop runs or is going to be woken.  The eventfd is written
\* after the mutex is released and cleared by on_read before queue_cb takes
\* it, and senders that find messages queued do not write at all.
NoLostWakeup ==
    (notified \/ \E r \in Receivers : messages[r] # <<>>) => WakeupPending

NoDuplicates(s) == \A i, j \in DOMAIN s : s[i] = s[j] => i = j

\* The inductive invariant.  Besides the two properties it needs that no
\* receiver is listed twice (queue_cb unlinks the first entry only), that a
\* destroyed queue is drained, and where the detached list lives.
QueueInv ==
    /\ TypeOK
    /\ ActiveIffPending
    /\ NoLostWakeup
    /\ NoDuplicates(active)
    /\ ~created => active = <<>> /\ ~notified
    /\ loop = "dispatch" <=> current # None
    /\ loop # "dispatch" => batch = <<>>

\* The undelivered messages of a receiver: those its callback was given, then
\* those that were sent since.
mailbox ==
    [r \in Receivers |->
        IF r = current THEN batch \o messages[r] ELSE messages[r]]

\* The queue implements one fair FIFO mailbox per receiver: messages sent to it
\* while its callback is running are neither lost, duplicated, reordered nor
\* left behind.
MB == INSTANCE Mailbox
RefinesMailbox == MB!Spec

\* A thread woken by a NULL message (on_sigterm_set_flag_notify_threads sends
\* one to every thread) gets back to its main loop, where it reads the flags,
\* provided senders do not keep queue_cb busy for ever.
NotificationServed == ([]<>(loop = "poll")) => (notified ~> ~notified)
==============================================================================
