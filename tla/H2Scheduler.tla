----------------------------- MODULE H2Scheduler -----------------------------
(***************************************************************************)
(* The dependency tree that schedules the responses of an HTTP/2           *)
(* connection (src/lib/http2/scheduler.c), with the ring of recently       *)
(* closed priorities that connection.c keeps in it.                        *)
(*                                                                         *)
(* The queue of a node is reduced to the set of nodes linked to it: which  *)
(* of them queue_pop returns is the subject of module DrrQueue, and here   *)
(* any of them may be. An operator takes the tree and returns the tree     *)
(* that the function leaves; the conjunction of the assertions the         *)
(* function evaluates on its way is kept in the field ok.                  *)
(***************************************************************************)
EXTENDS Integers, Sequences, FiniteSets, Lists

CONSTANTS
    OfStreams,      \* the nodes embedded in the streams of the connection
    RecentlyClosed, \* the entries of _recently_closed_streams, a sequence of nodes
    Root,           \* conn->scheduler
    Closed,         \* parent of a node that is not open; queue of an unlinked node
    GivenWeights    \* the weights that clients and the server choose, in 1..257

TopWeight == 256

ASSUME SchedulerAssumption ==
    /\ IsFiniteSet(OfStreams)
    /\ RecentlyClosed # <<>> /\ Distinct(RecentlyClosed) /\ Elements(RecentlyClosed) \cap OfStreams = {}
    /\ Root # Closed /\ {Root, Closed} \cap (OfStreams \cup Elements(RecentlyClosed)) = {}
    /\ GivenWeights \subseteq 1 .. TopWeight + 1
    /\ RecentlyClosed \in Seq(Elements(RecentlyClosed))

Nodes == OfStreams \cup Elements(RecentlyClosed)

Inner == Nodes \cup {Root}

VARIABLES
    tree,       \* the nodes, see Tree
    next_slot   \* _recently_closed_streams.next_slot, from 1

tree_vars == <<tree, next_slot>>

(* parent, weight, _active_cnt, _self_is_active, the queue a node is linked   *)
(* in, the children in the order of _all_refs; ok: no assertion failed        *)
Tree ==
    [parent : [Nodes -> Inner \cup {Closed}], refs : [Inner -> Seq(Nodes)],
     weight : [Nodes -> 1 .. TopWeight + 1], cnt : [Nodes -> Int],
     self : [Nodes -> BOOLEAN], linked : [Nodes -> Inner \cup {Closed}], ok : BOOLEAN]

TreeTypeOK ==
    /\ tree \in Tree
    /\ \A p \in Inner : Distinct(tree.refs[p])
    /\ \A n \in Nodes : tree.cnt[n] \in 0 .. Cardinality(Nodes)
    /\ next_slot \in 1 .. Len(RecentlyClosed)

TreeInit ==
    /\ tree = [parent |-> [n \in Nodes |-> Closed],
               refs   |-> [p \in Inner |-> <<>>],
               weight |-> [n \in Nodes |-> 1],
               cnt    |-> [n \in Nodes |-> 0],
               self   |-> [n \in Nodes |-> FALSE],
               linked |-> [n \in Nodes |-> Closed],
               ok     |-> TRUE]
    /\ next_slot = 1

IsOpen(t, n) == t.parent[n] # Closed

Checked(t, cond) == IF cond THEN t ELSE [t EXCEPT !.ok = FALSE]

-----------------------------------------------------------------------------
(* The queues *)

(* queue_set *)
Link(t, p, n) ==
    [Checked(t, t.linked[n] = Closed) EXCEPT !.linked[n] = p]

(* queue_unset *)
Unlink(t, n) ==
    [Checked(t, t.linked[n] # Closed) EXCEPT !.linked[n] = Closed]

(* A climb is at a node whose count is to be changed next; at Root it ends. *)

IncrStep(s) ==
    LET n == s.at
        u == [s.tree EXCEPT !.cnt[n] = @ + 1]
    IN IF n = Root THEN s
       ELSE IF u.cnt[n] # 1 THEN [tree |-> u, at |-> Root]
       ELSE [tree |-> Link(u, u.parent[n], n), at |-> u.parent[n]]

(* The recursion of incr_active_cnt: no path is longer than there are nodes. *)
IncrClimb(t, n) ==
    LET climb[k \in 0 .. Cardinality(Nodes)] ==
            IF k = 0 THEN [tree |-> t, at |-> n] ELSE IncrStep(climb[k - 1])
    IN climb

incr_active_cnt(t, n) == IncrClimb(t, n)[Cardinality(Nodes)].tree

DecrStep(s) ==
    LET n == s.at
        u == [s.tree EXCEPT !.cnt[n] = @ - 1]
    IN IF n = Root THEN s
       ELSE IF u.cnt[n] # 0 THEN [tree |-> u, at |-> Root]
       ELSE [tree |-> Unlink(u, n), at |-> u.parent[n]]

DecrClimb(t, n) ==
    LET climb[k \in 0 .. Cardinality(Nodes)] ==
            IF k = 0 THEN [tree |-> t, at |-> n] ELSE DecrStep(climb[k - 1])
    IN climb

decr_active_cnt(t, n) == DecrClimb(t, n)[Cardinality(Nodes)].tree

(* Mutation: the new ancestors do not learn of the activity that moves in. *)
MoveWithoutIncr(t, n, p) ==
    LET q == t.parent[n]
        u == [t EXCEPT !.refs[q] = Without(@, {n})]
        v == [u EXCEPT !.refs[p] = Append(@, n)]
        w == IF v.cnt[n] = 0 THEN v
             ELSE decr_active_cnt(Link(Unlink(v, n), p, n), q)
    IN [w EXCEPT !.parent[n] = p]

(* do_rebind, without its last step convert_to_exclusive *)
Move(t, n, p) ==
    LET q == t.parent[n]
        u == [t EXCEPT !.refs[q] = Without(@, {n})]
        v == [u EXCEPT !.refs[p] = Append(@, n)]
        w == IF v.cnt[n] = 0 THEN v
             ELSE incr_active_cnt(
                    decr_active_cnt(Link(Unlink(v, n), p, n), q), p)
    IN [w EXCEPT !.parent[n] = p]

(* The nodes that following the parents leads to *)
Ancestors(parent, n) ==
    {a \in Inner : \A S \in SUBSET Inner :
        (n # Root => parent[n] \in S) /\ (\A x \in S \ {Root} : parent[x] \in S) => a \in S}

(* Mutation: only a child of the moved node is treated as dependent on it. *)
RebindChecksChild(t, n, p, w) ==
    LET a == Checked(t, IsOpen(t, n) /\ n # p /\ w \in 1 .. TopWeight + 1)
        u == [a EXCEPT !.weight[n] = w]
    IN Move(IF p # Root /\ t.parent[p] = n THEN Move(u, p, t.parent[n]) ELSE u, n, p)

(* vhttp_http2_scheduler_rebind, not exclusive: when the new parent depends *)
(* on the node, it is first made a sibling of the node.                    *)
Rebind(t, n, p, w) ==
    LET a == Checked(t, IsOpen(t, n) /\ n # p /\ w \in 1 .. TopWeight + 1)
        u == [a EXCEPT !.weight[n] = w]
        v == IF t.refs[n] # <<>> /\ n \in Ancestors(t.parent, p) THEN Move(u, p, t.parent[n]) ELSE u
    IN IF t.parent[n] = p /\ t.weight[n] = w THEN a ELSE Move(v, n, p)

(* The first child of p, unless it is n, becomes a child of n. *)
ExclusiveStep(t, p, n) ==
    LET first == Head(t.refs[p])
    IN IF first = n THEN t ELSE Rebind(t, first, n, t.weight[first])

ExclusiveEach(t, p, n) ==
    LET pass[k \in 0 .. Len(t.refs[p])] ==
            IF k = 0 THEN t ELSE ExclusiveStep(pass[k - 1], p, n)
    IN pass

(* The siblings of the added node become its children, one by one, until    *)
(* the added node is first in the list; it must then be the only one.       *)
convert_to_exclusive(t, p, n) ==
    LET u == ExclusiveEach(t, p, n)[Len(t.refs[p])]
    IN Checked(u, u.refs[p] = <<n>>)

(* vhttp_http2_scheduler_rebind, exclusive *)
RebindExclusive(t, n, p, w) ==
    LET a == Checked(t, IsOpen(t, n) /\ n # p /\ w \in 1 .. TopWeight + 1)
        u == [a EXCEPT !.weight[n] = w]
        v == IF t.refs[n] # <<>> /\ n \in Ancestors(t.parent, p) THEN Move(u, p, t.parent[n]) ELSE u
    IN convert_to_exclusive(Move(v, n, p), p, n)

OpenNode(t, n, p, w) ==
    [t EXCEPT !.parent[n] = p, !.refs[n] = <<>>, !.weight[n] = w, !.cnt[n] = 0,
              !.self[n] = FALSE, !.linked[n] = Closed, !.refs[p] = Append(@, n)]

(* The weight of the first children of p, and of all of them *)
WeightSums(t, p) ==
    LET sum[k \in 0 .. Len(t.refs[p])] ==
            IF k = 0 THEN 0 ELSE sum[k - 1] + t.weight[t.refs[p][k]]
    IN sum

Total(t, p) == WeightSums(t, p)[Len(t.refs[p])]

(* The part of the weight w of a closing node that a child takes over, in   *)
(* fixed point with 16 fractional bits, rounded, and clipped.              *)
Share(w, total, child) ==
    LET factor == (w * 65536 + total \div 2) \div total
        share  == ((child * factor) \div 32768 + 1) \div 2
    IN IF share < 1 THEN 1 ELSE IF share > TopWeight THEN TopWeight ELSE share

(* Mutation: the dependent keeps its weight. *)
HandOverAll(t, old, n, total, kid) == Rebind(t, kid, old.parent[n], old.weight[kid])

(* A dependent kid of the closing node n moves to the parent of n. *)
HandOver(t, old, n, total, kid) ==
    Rebind(t, kid, old.parent[n], Share(old.weight[n], total, old.weight[kid]))

HandOverEach(t, n) ==
    LET total == Total(t, n)
        pass[k \in 0 .. Len(t.refs[n])] ==
            IF k = 0 THEN t ELSE HandOver(pass[k - 1], t, n, total, t.refs[n][k])
    IN pass

(* What is left of the node when it has no dependents *)
Detach(t, n) ==
    LET p == t.parent[n]
        d == [t EXCEPT !.refs[p] = Without(@, {n}), !.parent[n] = Closed, !.weight[n] = 1]
    IN IF d.self[n]
       THEN [decr_active_cnt(Unlink(Checked(d, d.cnt[n] = 1), n), p)
                EXCEPT !.self[n] = FALSE, !.cnt[n] = 0]
       ELSE Checked(d, d.cnt[n] = 0)

(* vhttp_http2_scheduler_close: the dependents become those of the parent   *)
(* and share the weight of the node; then the node leaves the tree.         *)
Close(t, n) ==
    Detach(HandOverEach(Checked(t, IsOpen(t, n)), n)[Len(t.refs[n])], n)

Renamed(x, dst, src) == IF x = src THEN dst ELSE x

(* The parents, and the lists of children, once dst is in the place of src *)
NewParent(par, dst, src) ==
    [m \in Nodes |-> IF m = dst THEN par[src] ELSE IF m = src THEN Closed ELSE Renamed(par[m], dst, src)]

NewRefs(par, refs, dst, src) ==
    [x \in Inner |-> IF x = dst THEN refs[src] ELSE IF x = src THEN <<>>
                     ELSE IF x = par[src] THEN [k \in DOMAIN refs[x] |-> Renamed(refs[x][k], dst, src)]
                     ELSE refs[x]]

(* vhttp_http2_scheduler_relocate: dst takes the place of src in the list  *)
(* of the parent, in its queue, and as the parent of its dependents, whose *)
(* queue moves along.                                                      *)
Relocate(t, dst, src) ==
    [Checked(t, \A kid \in Elements(t.refs[src]) : t.parent[kid] = src)
        EXCEPT !.parent = NewParent(t.parent, dst, src),
               !.refs   = NewRefs(t.parent, t.refs, dst, src),
               !.weight = [t.weight EXCEPT ![src] = 1, ![dst] = t.weight[src]],
               !.cnt    = [t.cnt EXCEPT ![dst] = t.cnt[src], ![src] = 0],
               !.self   = [t.self EXCEPT ![dst] = t.self[src], ![src] = FALSE],
               !.linked = [[n \in Nodes |-> Renamed(t.linked[n], dst, src)]
                               EXCEPT ![dst] = t.linked[src], ![src] = Closed]]

DeactivateNode(t, n) ==
    IF t.self[n] THEN decr_active_cnt([t EXCEPT !.self[n] = FALSE], n) ELSE t

ActivateNode(t, n) ==
    IF t.self[n] THEN t ELSE incr_active_cnt([t EXCEPT !.self[n] = TRUE], n)

(* The callback has been called for n: link it again as far as anything of  *)
(* it is still active.                                                     *)
AfterCallback(t, n, still_is_active) ==
    LET p == t.parent[n]
        u == IF still_is_active THEN t ELSE [t EXCEPT !.self[n] = FALSE, !.cnt[n] = @ - 1]
    IN IF u.cnt[n] # 0 THEN Link(u, p, n) ELSE decr_active_cnt(u, p)

-----------------------------------------------------------------------------
(* The operations *)

OpenNodes == {n \in Nodes : IsOpen(tree, n)}

vhttp_http2_scheduler_open(n, p, w, exclusive) ==
    /\ ~IsOpen(tree, n)
    /\ tree' = LET t == OpenNode(tree, n, p, w)
               IN IF exclusive THEN convert_to_exclusive(t, p, n) ELSE t
    /\ UNCHANGED next_slot

vhttp_http2_scheduler_rebind(n, p, w, exclusive) ==
    /\ IsOpen(tree, n) /\ n # p
    /\ tree' = IF exclusive THEN RebindExclusive(tree, n, p, w) ELSE Rebind(tree, n, p, w)
    /\ UNCHANGED next_slot

vhttp_http2_scheduler_close(n) ==
    /\ IsOpen(tree, n)
    /\ tree' = Close(tree, n)
    /\ UNCHANGED next_slot

vhttp_http2_scheduler_activate(n) ==
    /\ IsOpen(tree, n) /\ tree' = ActivateNode(tree, n) /\ UNCHANGED next_slot

vhttp_http2_scheduler_deactivate(n) ==
    /\ IsOpen(tree, n) /\ tree' = DeactivateNode(tree, n) /\ UNCHANGED next_slot

(* vhttp_http2_conn_preserve_stream_scheduler: the priority of a stream     *)
(* that closes moves to the next entry of the ring; the priority that the   *)
(* entry held is given up.                                                 *)
preserve_stream_scheduler(src) ==
    LET dst == RecentlyClosed[next_slot]
        t   == IF IsOpen(tree, dst) THEN Close(tree, dst) ELSE tree
    IN /\ IsOpen(tree, src)
       /\ tree' = DeactivateNode(Relocate(t, dst, src), dst)
       /\ next_slot' = (next_slot % Len(RecentlyClosed)) + 1

(* proceed: the nodes that queue_pop may lead to, going down from the root  *)
(* through linked nodes that are not active themselves                      *)
Elected(t) ==
    LET down[k \in 0 .. Cardinality(Nodes)] ==
            IF k = 0 THEN {Root}
            ELSE {n \in Nodes : t.linked[n] \in {x \in down[k - 1] : x = Root \/ ~t.self[x]}}
    IN {n \in Nodes : t.self[n] /\ \E k \in 1 .. Cardinality(Nodes) : n \in down[k]}

proceed(still_is_active) ==
    \E n \in Elected(tree) :
        /\ tree' = AfterCallback(Checked(Unlink(tree, n), tree.cnt[n] # 0), n, still_is_active)
        /\ UNCHANGED next_slot

TreeNext ==
    \/ \E n \in OfStreams, p \in OpenNodes \cup {Root}, w \in GivenWeights, x \in BOOLEAN :
          vhttp_http2_scheduler_open(n, p, w, x) \/ vhttp_http2_scheduler_rebind(n, p, w, x)
    \/ \E n \in Nodes : vhttp_http2_scheduler_close(n)
    \/ \E n \in OfStreams : \/ vhttp_http2_scheduler_activate(n)
                          \/ vhttp_http2_scheduler_deactivate(n)
                          \/ preserve_stream_scheduler(n)
    \/ \E b \in BOOLEAN : proceed(b)

TreeSpec == TreeInit /\ [][TreeNext]_tree_vars

-----------------------------------------------------------------------------
(* No assertion of scheduler.c fails: a node is linked once, it is counted  *)
(* out as often as it was counted in, an added exclusive node is the only   *)
(* child, a closed node has nothing active left.                           *)
NoneFailed == tree.ok

(* The lists of children and the parents describe one tree: every open node *)
(* is in the list of its parent and in no other, and following the parents  *)
(* leads to the root, also after a node was moved below its own dependent.  *)
Rooted ==
    /\ \A p \in Inner : Elements(tree.refs[p]) = {n \in Nodes : tree.parent[n] = p}
    /\ \A S \in SUBSET OpenNodes :
          S # {} => \E n \in S : tree.parent[n] \in (OpenNodes \cup {Root}) \ S

(* The tree stays a tree, and no assertion fails on the way.               *)
TreeInv == NoneFailed /\ Rooted

(* _active_cnt counts the node itself and its children that have something  *)
(* active, whatever moved, closed or was served in between.                *)
CountExact ==
    \A n \in Nodes :
        tree.cnt[n] = (IF tree.self[n] THEN 1 ELSE 0)
                      + Cardinality({kid \in Nodes : tree.parent[kid] = n /\ tree.cnt[kid] > 0})

(* A node is linked in the queue of its present parent exactly when it or   *)
(* a dependent is active. Going down from the root through linked nodes     *)
(* therefore always ends at an active stream, and reaches each of them      *)
(* that has no active ancestor.                                            *)
LinkedWhereActive ==
    \A n \in Nodes : tree.linked[n] = IF tree.cnt[n] > 0 THEN tree.parent[n] ELSE Closed

(* The counts and the queues agree with the tree, and every value with its  *)
(* type.                                                                    *)
QueuesAgree == TreeTypeOK /\ CountExact /\ LinkedWhereActive

(* What a dependent of weight child gets of the weight w is its part of it  *)
(* within one unit, except that it is not less than 1 nor more than 256.   *)
Proportional(share, w, total, child) ==
    /\ share = 1 \/ share * total - child * w <= total
    /\ share = TopWeight \/ child * w - share * total <= total

(* When a node closes, its dependents take over its weight in proportion to *)
(* theirs: none is starved, and none gains on the siblings of the node.    *)
SharesProportional ==
    [][\A n \in OpenNodes :
        ~IsOpen(tree', n) /\ vhttp_http2_scheduler_close(n) =>
            \A kid \in Elements(tree.refs[n]) :
                Proportional(tree'.weight[kid], tree.weight[n], Total(tree, n), tree.weight[kid])]_tree_vars
=============================================================================
