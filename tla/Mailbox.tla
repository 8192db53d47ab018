------------------------------- MODULE Mailbox -------------------------------
(***************************************************************************)
(* What the inter-thread message queue of lib/common/multithread.c         *)
(* promises its users: every receiver owns a first-in first-out mailbox;   *)
(* a message enters it once, when it is sent, and leaves it once, from the *)
(* front, when the receiver's callback handles it.  Nothing else touches a *)
(* mailbox, and a mailbox that is not empty is served.                     *)
(***************************************************************************)
EXTENDS Sequences

CONSTANTS Receivers, Messages

VARIABLE mailbox

Init == mailbox = [r \in Receivers |-> <<>>]

Send(r, m) == mailbox' = [mailbox EXCEPT ![r] = Append(@, m)]

Handle(r) ==
    /\ mailbox[r] # <<>>
    /\ mailbox' = [mailbox EXCEPT ![r] = Tail(@)]

Next == \E r \in Receivers : Handle(r) \/ \E m \in Messages : Send(r, m)

SafeSpec == Init /\ [][Next]_mailbox

Spec == SafeSpec /\ \A r \in Receivers : WF_mailbox(Handle(r))
==============================================================================
