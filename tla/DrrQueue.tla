------------------------------ MODULE DrrQueue ------------------------------
(***************************************************************************)
(* The deficit round-robin queue of the HTTP/2 scheduler                   *)
(* (src/lib/http2/scheduler.c, st_vhttp_http2_scheduler_queue_t): a ring   *)
(* of anchors, a bitmap that caches which anchors hold nodes, and one list *)
(* (anchor257) that is served before the ring.                             *)
(*                                                                         *)
(* The bitmap is the set of the distances whose bit is set: bit 63 - k of  *)
(* queue->bits is distance k, the anchor k places after queue->offset.     *)
(* queue_unset unlinks a node without clearing the bit, so that a bit may  *)
(* be stale; queue_pop skips such bits.                                    *)
(***************************************************************************)
EXTENDS Integers, Sequences, FiniteSets

CONSTANTS
    Items,      \* the queue nodes (one per stream that depends on the owner)
    None,       \* the NULL that queue_pop returns
    Slots,      \* number of anchors of the ring (64)
    Unit,       \* the fixed point unit of a deficit (65536)
    MaxWeight,  \* the heaviest weight of the ring (256); one more is anchor257
    Weights     \* the weights that the callers pass, a subset of 1..MaxWeight + 1

ASSUME DrrAssumption ==
    /\ Slots \in Nat \ {0} /\ Unit \in Nat \ {0} /\ MaxWeight \in Nat \ {0}
    /\ Weights \subseteq 1 .. MaxWeight + 1
    /\ None \notin Items

VARIABLES
    bits,       \* set of distances
    offset,     \* the anchor that is served now
    anchors,    \* anchor -> sequence of the nodes linked to it
    anchor257,  \* nodes of weight MaxWeight + 1
    deficit,    \* _deficit of each node, kept while it is not linked
    popped      \* result of the last queue_pop

vars == <<bits, offset, anchors, anchor257, deficit, popped>>

Ring == 0 .. Slots - 1

-----------------------------------------------------------------------------
(* Entry w of OFFSET_TABLE: (Slots - 1) * Unit / w, rounded. *)
OffsetTable(w) == (2 * (Slots - 1) * Unit + w) \div (2 * w)

Slot(k) == (offset + k) % Slots

Elems(s) == {s[i] : i \in 1 .. Len(s)}

RemoveAtIndex(s, i) == SubSeq(s, 1, i - 1) \o SubSeq(s, i + 1, Len(s))

Linked(n) == n \in Elems(anchor257) \/ \E a \in Ring : n \in Elems(anchors[a])

QueueTypeOK ==
    /\ bits \subseteq Ring
    /\ offset \in Ring
    /\ anchors \in [Ring -> Seq(Items)]
    /\ anchor257 \in Seq(Items)
    /\ deficit \in [Items -> 0 .. Unit - 1]
    /\ popped \in Items \cup {None}

queue_init ==
    /\ bits = {} /\ offset = 0
    /\ anchors = [a \in Ring |-> <<>>]
    /\ anchor257 = <<>>
    /\ deficit = [n \in Items |-> 0]
    /\ popped = None

queue_is_empty == bits = {} /\ anchor257 = <<>>

(* Mutation: the remainder of the division is thrown away. *)
SetForgetsDeficit(n, w) ==
    /\ ~Linked(n)
    /\ LET dist == OffsetTable(w) \div Unit IN
         /\ bits' = bits \cup {dist}
         /\ anchors' = [anchors EXCEPT ![Slot(dist)] = Append(@, n)]
    /\ UNCHANGED <<offset, anchor257, deficit, popped>>

(* queue_set links a node, once it is known that it is not linked (the     *)
(* function asserts it).                                                   *)
SetInRing(n, w) ==
    /\ ~Linked(n)
    /\ LET total == OffsetTable(w) + deficit[n]
           dist  == total \div Unit
       IN /\ deficit' = [deficit EXCEPT ![n] = total % Unit]
          /\ bits' = bits \cup {dist}
          /\ anchors' = [anchors EXCEPT ![Slot(dist)] = Append(@, n)]
    /\ UNCHANGED <<offset, anchor257, popped>>

SetFirst(n) ==
    /\ ~Linked(n)
    /\ anchor257' = Append(anchor257, n)
    /\ UNCHANGED <<bits, offset, anchors, deficit, popped>>

queue_set(n, w) ==
    \/ w > MaxWeight /\ SetFirst(n)
    \/ w <= MaxWeight /\ SetInRing(n, w)

(* queue_unset unlinks a node from the list it is in; no bit is cleared. *)
UnsetFirst(n) ==
    \E i \in 1 .. Len(anchor257) :
        /\ anchor257[i] = n
        /\ anchor257' = RemoveAtIndex(anchor257, i)
        /\ UNCHANGED <<bits, offset, anchors, deficit, popped>>

UnsetInRing(n) ==
    \E a \in Ring : \E i \in 1 .. Len(anchors[a]) :
        /\ anchors[a][i] = n
        /\ anchors' = [anchors EXCEPT ![a] = RemoveAtIndex(@, i)]
        /\ UNCHANGED <<bits, offset, anchor257, deficit, popped>>

queue_unset(n) == UnsetFirst(n) \/ UnsetInRing(n)

(* The distances of the loop of queue_pop that have a node. *)
Served == {k \in bits : anchors[Slot(k)] # <<>>}

PopFirst ==
    /\ anchor257 # <<>>
    /\ popped' = Head(anchor257)
    /\ anchor257' = Tail(anchor257)
    /\ UNCHANGED <<bits, offset, anchors, deficit>>

(* Mutation: the bit of the anchor is cleared although nodes remain in it. *)
PopClearsBit ==
    /\ anchor257 = <<>>
    /\ \E k \in Served :
         /\ \A j \in Served : k <= j
         /\ popped' = Head(anchors[Slot(k)])
         /\ anchors' = [anchors EXCEPT ![Slot(k)] = Tail(@)]
         /\ offset' = Slot(k)
         /\ bits' = {b \in Ring : b # 0 /\ b + k \in bits}
    /\ UNCHANGED <<anchor257, deficit>>

(* Mutation: the ring turns past the anchor that was served although nodes  *)
(* remain in it.                                                           *)
PopMovesOn ==
    /\ anchor257 = <<>>
    /\ \E k \in Served :
         /\ \A j \in Served : k <= j
         /\ popped' = Head(anchors[Slot(k)])
         /\ anchors' = [anchors EXCEPT ![Slot(k)] = Tail(@)]
         /\ offset' = Slot(k + 1)
         /\ bits' = {b \in Ring : b + k + 1 \in bits}
                      \cup {b \in {Slots - 1} : Len(anchors[Slot(k)]) > 1}
    /\ UNCHANGED <<anchor257, deficit>>

(* The loop shifts to the first bit whose anchor holds a node, discarding   *)
(* the stale bits before it, and takes the first node; the bit goes when    *)
(* the anchor becomes empty.                                               *)
PopRing ==
    /\ anchor257 = <<>>
    /\ \E k \in Served :
         /\ \A j \in Served : k <= j
         /\ popped' = Head(anchors[Slot(k)])
         /\ anchors' = [anchors EXCEPT ![Slot(k)] = Tail(@)]
         /\ offset' = Slot(k)
         /\ bits' = {b \in Ring : /\ b + k \in bits
                                  /\ b = 0 => Len(anchors[Slot(k)]) > 1}
    /\ UNCHANGED <<anchor257, deficit>>

(* All bits are stale: the loop ends with none and the offset at the last. *)
PopNull ==
    /\ anchor257 = <<>> /\ Served = {}
    /\ popped' = None
    /\ bits' = {}
    /\ \/ bits = {} /\ offset' = offset
       \/ \E k \in bits : /\ \A j \in bits : j <= k
                           /\ offset' = Slot(k)
    /\ UNCHANGED <<anchors, anchor257, deficit>>

queue_pop == PopFirst \/ PopRing \/ PopNull

QueueNext ==
    \/ \E n \in Items, w \in Weights : queue_set(n, w)
    \/ \E n \in Items : queue_unset(n)
    \/ queue_pop

QueueSpec == queue_init /\ [][QueueNext]_vars

(* vhttp_http2_scheduler_run keeps popping as long as the queue has nodes.  *)
FairSpec == QueueSpec /\ WF_vars(queue_pop)

-----------------------------------------------------------------------------
(* The bitmap has no false negative: an anchor with nodes has its bit set,  *)
(* however the ring has turned and whatever was unlinked. With it          *)
(* queue_is_empty never hides a node, and queue_pop never returns NULL     *)
(* while a node is linked.                                                 *)
BitsCover == \A k \in Ring : anchors[Slot(k)] # <<>> => k \in bits

Distance(n) == CHOOSE k \in Ring : n \in Elems(anchors[Slot(k)])
InRing(n) == \E a \in Ring : n \in Elems(anchors[a])

(* A step never moves a waiting node further from being served: the ring    *)
(* turns only towards the nodes that wait, never past one of them.         *)
NeverPassedOver ==
    [][\A n \in Items : InRing(n) /\ InRing(n)' => Distance(n)' <= Distance(n)]_vars

OutOfTurn(n) == queue_unset(n) \/ \E w \in Weights : w > MaxWeight /\ queue_set(n, w)

(* No starvation: once nothing arrives in anchor257 and no node is unlinked *)
(* out of turn any more, a node of any weight that waits in the ring is     *)
(* served, although heavier nodes are requeued at once each time they are   *)
(* served: their deficits add up. (A node that is linked and unlinked again *)
(* and again loses the ground its deficit gained.)                         *)
EventuallyServed ==
    <>[][\A n \in Items : ~OutOfTurn(n)]_vars
        => \A n \in Items : InRing(n) ~> ~InRing(n)
=============================================================================
