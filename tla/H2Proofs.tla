------------------------------ MODULE H2Proofs -------------------------------
(***************************************************************************)
(* Proofs about the output side of an HTTP/2 connection.                   *)
(*                                                                         *)
(* The first part is about H2Output, the buffer and its writes, for every  *)
(* set of streams and every size of the buffer.                            *)
(* OutputInv is about the states between callbacks only. Inv extends it to *)
(* the middle of on_read, on_write_complete and do_emit_writereq, where    *)
(* handlers call back, and adds what makes it inductive: there is one      *)
(* write at a time, a stopped read or a stream that waits for its turn has *)
(* bytes to wait for, and nothing of a connection outlives it.             *)
(* A lemma per function of connection.c states which fields it leaves      *)
(* alone and what it does to the others; one per action rests on them.     *)
(*                                                                         *)
(* The second part is about DrrQueue, the queue in which the scheduler     *)
(* keeps the streams that have something to send, for rings of any size:   *)
(* the arithmetic of distances in the ring, the bit vector that covers the *)
(* anchors (QueueInv), and the distances that only shrink (RingInv, which  *)
(* adds that no node is linked to two anchors).                            *)
(*                                                                         *)
(* The third part is about H2Scheduler, the tree of these queues, for any  *)
(* number of streams, any size of the ring of closed priorities and all    *)
(* weights. The functions of scheduler.c change a tree in several places   *)
(* at once, so the invariant Sane is a predicate of a tree, and there is a *)
(* lemma per function: given a Sane tree it returns one. In between, while *)
(* incr_active_cnt or decr_active_cnt climbs towards the root, Underway    *)
(* says at which node a count is one too low or too high; every step of    *)
(* the climb moves that node to its parent. That the climb ends, and that  *)
(* the two climbs of a move do not get into each other's way, rests on     *)
(* Hangs: no set of open nodes is its own parents.                         *)
(***************************************************************************)
EXTENDS H2Output, DrrQueue, H2Scheduler, Counting


(* Of no request has more been received than the headers. *)
Quiet(d) == \A i \in Streams : d.s[i] \in {"none", "recv", "late"}

(* There is something to write, or to wait a write for, and it is scheduled. *)
Sched(d) ==
    (d.buf # 0 \/ ToProceed(d) # {} \/ ~d.reading \/ (Active(d) # {} /\ d.window))
        => IsWriting(d) \/ d.write_timer

(* Streams on streams_to_proceed and stopped reads wait for bytes to be sent. *)
Held(d) == ToProceed(d) # {} \/ ~d.reading => d.buf # 0 \/ d.flight # 0

(* One write at a time, and the timeout that guards it; no assertion failed  *)
(* but the one on shutting down gracefully again.                            *)
Core(d) ==
    /\ d \in Conn
    /\ d.write_timer => ~IsWriting(d)
    /\ d.flight # 0 => ~d.notify /\ d.idle_timer
    /\ d.fail \subseteq {"graceful"} /\ (d.fail # {} => d.initiated >= 2)
    /\ d.cb # "NULL" => d.initiated >= 1

(* In the middle of the functions that call others for each stream. *)
Midway(d) ==
    /\ d.phase \in {"emit", "proceed"} => ~IsWriting(d)
    /\ d.phase = "emit" => ~d.write_timer

(* What waits for a write has one. *)
Waits(d) ==
    /\ d.phase # "proceed" /\ d.state < IS_CLOSING => Held(d)
    /\ d.phase \in {"loop", "parse"} /\ d.state < IS_CLOSING => Sched(d)
    /\ d.phase \in {"loop", "parse"} /\ d.state = IS_CLOSING => d.flight # 0 \/ d.write_timer

(* While no request has got beyond its headers the idle timeout is on. *)
IdleOn(d) ==
    d.phase \in {"loop", "emit"} /\ d.state < IS_CLOSING /\ Quiet(d) => d.idle_timer

(* close_connection_now leaves nothing behind. *)
Freed(d) ==
    d.state = FREED =>
        /\ d.phase = "loop" /\ \A i \in Streams : d.s[i] = "none"
        /\ ~d.write_timer /\ ~IsWriting(d) /\ ~d.idle_timer /\ ~d.reading /\ ~d.graceful_timer

(* The inductive invariant. *)
Inv(d) == Core(d) /\ Midway(d) /\ Waits(d) /\ IdleOn(d) /\ Freed(d)

USE DEF OPEN, HALF_CLOSED, IS_CLOSING, FREED


(* The fields of the connection that most operators leave alone ... *)
Frame(d, e) ==
    /\ e.state = d.state /\ e.window = d.window /\ e.flight = d.flight /\ e.notify = d.notify
    /\ e.graceful_timer = d.graceful_timer /\ e.cb = d.cb /\ e.initiated = d.initiated
    /\ e.phase = d.phase /\ e.fail = d.fail

(* ... and those that the invariant refers to besides. *)
Same(d, e) ==
    /\ Frame(d, e)
    /\ e.s = d.s /\ e.buf = d.buf /\ e.reading = d.reading
    /\ e.write_timer = d.write_timer /\ e.idle_timer = d.idle_timer

(* e is d after something was put into the buffer and its write requested. *)
Written(d, e) ==
    /\ e \in Conn /\ Frame(d, e) /\ e.s = d.s /\ e.idle_timer = d.idle_timer
    /\ e.buf # 0
    /\ d.state < IS_CLOSING => (e.write_timer <=> d.write_timer \/ ~IsWriting(d))
    /\ d.state = IS_CLOSING => e.write_timer = d.write_timer

(* The invariant depends on the fields of Same only. *)
LEMMA SameInv ==
  ASSUME NEW d, NEW e \in Conn, Inv(d), Same(d, e)
  PROVE  Inv(e)
BY DEF Inv, Core, Midway, Waits, IdleOn, Freed, Same, Frame, Held, Sched, Quiet,
       ToProceed, Active, In, IsWriting

(* Encoding a frame leaves the buffer non-empty. *)
LEMMA EncodeFacts ==
  ASSUME NEW d \in Conn
  PROVE  LET e == Encode(d)
         IN /\ e \in Conn /\ Frame(d, e) /\ e.s = d.s /\ e.idle_timer = d.idle_timer
            /\ e.buf # 0 /\ e.reading = d.reading /\ e.write_timer = d.write_timer
<1>1. Capped(d.buf + 1) \in 1 .. SoftMax
    BY H2OutputAssumption DEF Conn, Capped
<1> QED
    BY <1>1, H2OutputAssumption DEF Conn, Encode, Frame

(* vhttp_http2_conn_request_write starts the timer unless a write will follow anyway. *)
LEMMA RequestFacts ==
  ASSUME NEW d \in Conn, d.state < IS_CLOSING
  PROVE  LET e == request_write(d)
         IN /\ e \in Conn /\ Frame(d, e) /\ e.s = d.s /\ e.idle_timer = d.idle_timer
            /\ e.buf = d.buf
            /\ e.reading <=> d.reading /\ d.buf + d.flight < SoftMax
            /\ e.write_timer <=> d.write_timer \/ ~IsWriting(d)
<1> DEFINE r == d.reading /\ bytes_in_buf(d) < SoftMax
           e == [d EXCEPT !.reading = r]
           w == d.write_timer \/ ~IsWriting(d)
<1>1. r \in BOOLEAN /\ w \in BOOLEAN
    BY DEF Conn
<1>2. request_write(d) = request_gathered_write(e)
    BY DEF request_write, Conn
<1>3. e \in Conn /\ Frame(d, e) /\ e.s = d.s /\ e.idle_timer = d.idle_timer /\ e.buf = d.buf
      /\ e.reading = r /\ e.write_timer = d.write_timer
  <2> HIDE DEF r
  <2> QED BY <1>1 DEF Conn, Frame
<1>4. IsWriting(e) = IsWriting(d)
    BY <1>3 DEF IsWriting, Frame
<1> HIDE DEF e
<1>5. request_gathered_write(e) = [e EXCEPT !.write_timer = w]
    BY <1>3, <1>4 DEF request_gathered_write, Check, Frame
<1> DEFINE f == [e EXCEPT !.write_timer = w]
<1>6. f \in Conn /\ Frame(e, f) /\ f.s = e.s /\ f.idle_timer = e.idle_timer /\ f.buf = e.buf
      /\ f.reading = e.reading /\ f.write_timer = w
  <2> HIDE DEF w
  <2> QED BY <1>1, <1>3 DEF Conn, Frame
<1> HIDE DEF f
<1> QED BY <1>2, <1>3, <1>5, <1>6 DEF f, Frame, bytes_in_buf

(* Encoding a frame and requesting its write. *)
LEMMA WriteFacts ==
  ASSUME NEW d \in Conn, d.state # FREED
  PROVE  Written(d, request_write(Encode(d)))
<1> DEFINE e == Encode(d)
<1>1. /\ e \in Conn /\ Frame(d, e) /\ e.s = d.s /\ e.idle_timer = d.idle_timer
      /\ e.buf # 0 /\ e.reading = d.reading /\ e.write_timer = d.write_timer
    BY EncodeFacts
<1> HIDE DEF e
<1>2. IsWriting(e) = IsWriting(d)
    BY <1>1 DEF IsWriting, Frame
<1>3. CASE d.state < IS_CLOSING
  <2> DEFINE f == request_write(e)
  <2>1. /\ f \in Conn /\ Frame(e, f) /\ f.s = e.s /\ f.idle_timer = e.idle_timer
        /\ f.buf = e.buf /\ (f.write_timer <=> e.write_timer \/ ~IsWriting(e))
      BY <1>1, <1>3, RequestFacts DEF Frame
  <2> HIDE DEF f
  <2> QED BY <1>1, <1>2, <1>3, <2>1 DEF e, f, Written, Frame
<1>4. CASE d.state = IS_CLOSING
  <2>1. request_write(e) = e
      BY <1>1, <1>4 DEF Frame, request_write
  <2> QED BY <1>1, <1>4, <2>1 DEF e, Written, Frame
<1> QED BY <1>3, <1>4 DEF Conn

(* update_idle_timeout: on unless a handler owes something; untouched during a write. *)
LEMMA IdleFacts ==
  ASSUME NEW d \in Conn, d.flight # 0 => d.idle_timer
  PROVE  LET e == update_idle_timeout(d)
         IN /\ e \in Conn /\ Frame(d, e) /\ e.s = d.s /\ e.buf = d.buf /\ e.reading = d.reading
            /\ e.write_timer = d.write_timer
            /\ e.idle_timer <=> d.flight # 0 \/ Blocked(d) = {}
<1>1. CASE d.flight # 0
    BY <1>1 DEF update_idle_timeout, Check, Frame
<1>2. CASE d.flight = 0
  <2> DEFINE b == Blocked(d) = {}
             e == [d EXCEPT !.idle_timer = b]
  <2>1. b \in BOOLEAN
      OBVIOUS
  <2>2. update_idle_timeout(d) = e
      BY <1>2 DEF update_idle_timeout
  <2> HIDE DEF b
  <2>3. /\ e \in Conn /\ Frame(d, e) /\ e.s = d.s /\ e.buf = d.buf /\ e.reading = d.reading
        /\ e.write_timer = d.write_timer /\ e.idle_timer = b
      BY <2>1 DEF Conn, Frame
  <2> HIDE DEF e
  <2> QED BY <1>2, <2>2, <2>3 DEF b
<1> QED BY <1>1, <1>2


(* A frame may be queued at any time but in the middle of do_emit_writereq. *)
LEMMA WrittenInv ==
  ASSUME NEW d, NEW e, Inv(d), Written(d, e), d.phase # "emit", d.state # FREED
  PROVE  Inv(e)
<1>1. d.state < IS_CLOSING \/ d.state = IS_CLOSING
    BY DEF Inv, Core, Conn
<1>2. Core(e) /\ Midway(e) /\ Waits(e)
    BY <1>1 DEF Inv, Core, Midway, Waits, Written, Frame, Held, Sched, ToProceed, In, IsWriting
<1>3. IdleOn(e) /\ Freed(e)
    BY DEF Inv, IdleOn, Freed, Written, Frame, Quiet
<1> QED BY <1>2, <1>3 DEF Inv

(***************************************************************************)
(* Closing.                                                                *)
(***************************************************************************)
(* close_connection_now, when no write is scheduled. *)
LEMMA CloseNowInv ==
  ASSUME NEW d, Core(d), ~d.write_timer
  PROVE  Inv(close_connection_now(d))
<1> DEFINE none == [i \in Streams |-> "none"]
           f == [d EXCEPT !.state = FREED, !.s = none, !.final = {}]
           g == [f EXCEPT !.buf = 0, !.flight = 0, !.write_timer = FALSE, !.notify = FALSE,
                          !.idle_timer = FALSE]
           e == [g EXCEPT !.graceful_timer = FALSE, !.reading = FALSE, !.phase = "loop"]
<1>1. none \in [Streams -> StreamStates] /\ \A i \in Streams : none[i] = "none"
    BY DEF StreamStates
<1>2. d \in Conn /\ {} \subseteq Streams /\ 0 \in 0 .. SoftMax /\ FREED \in OPEN .. FREED
    BY H2OutputAssumption DEF Core
<1>3. close_connection_now(d) = e
    BY DEF close_connection_now, Check
<1> HIDE DEF none
<1>4. /\ f \in Conn /\ f.state = FREED /\ f.s = none
      /\ f.fail = d.fail /\ f.cb = d.cb /\ f.initiated = d.initiated
    BY <1>1, <1>2 DEF Conn
<1> HIDE DEF f
<1>5. /\ g \in Conn /\ g.state = FREED /\ g.s = none
      /\ ~g.write_timer /\ g.flight = 0 /\ ~g.notify /\ ~g.idle_timer
      /\ g.fail = d.fail /\ g.cb = d.cb /\ g.initiated = d.initiated
    BY <1>2, <1>4 DEF Conn
<1> HIDE DEF g
<1>6. /\ e \in Conn /\ e.state = FREED /\ e.s = none /\ e.phase = "loop"
      /\ ~e.write_timer /\ e.flight = 0 /\ ~e.notify /\ ~e.idle_timer /\ ~e.reading
      /\ ~e.graceful_timer /\ e.fail = d.fail /\ e.cb = d.cb /\ e.initiated = d.initiated
    BY <1>5 DEF Conn
<1> HIDE DEF e
<1>7. Inv(e)
    BY <1>1, <1>6 DEF Inv, Core, Midway, Waits, IdleOn, Freed, IsWriting
<1> QED BY <1>3, <1>7

(* close_connection waits for the write that is scheduled or in flight. *)
LEMMA CloseInv ==
  ASSUME NEW d, Core(d), d.phase \in {"loop", "parse"}
  PROVE  Inv(close_connection(d))
<1>1. CASE d.flight # 0 \/ d.write_timer
  <2> DEFINE e == [d EXCEPT !.state = IS_CLOSING]
  <2>1. /\ e \in Conn /\ e.state = IS_CLOSING /\ e.phase = d.phase
        /\ e.write_timer = d.write_timer /\ e.flight = d.flight /\ e.notify = d.notify
        /\ e.idle_timer = d.idle_timer /\ e.fail = d.fail /\ e.cb = d.cb /\ e.initiated = d.initiated
      BY DEF Core, Conn
  <2>2. close_connection(d) = e
      BY <1>1 DEF close_connection
  <2> HIDE DEF e
  <2>3. Inv(e)
      BY <1>1, <2>1 DEF Inv, Core, Midway, Waits, IdleOn, Freed, IsWriting
  <2> QED BY <2>2, <2>3
<1>2. CASE ~(d.flight # 0 \/ d.write_timer)
    BY <1>2, CloseNowInv DEF close_connection
<1> QED BY <1>1, <1>2

(* enqueue_goaway. *)
LEMMA GoawayFacts ==
  ASSUME NEW d, Core(d), d.state < IS_CLOSING
  PROVE  LET e == enqueue_goaway(d)
         IN /\ Core(e) /\ e.state = HALF_CLOSED /\ e.phase = d.phase /\ e.buf # 0
            /\ e.s = d.s /\ e.flight = d.flight /\ e.notify = d.notify
            /\ e.idle_timer = d.idle_timer /\ e.graceful_timer = d.graceful_timer
            /\ e.cb = d.cb /\ e.initiated = d.initiated
            /\ e.write_timer <=> d.write_timer \/ ~IsWriting(d)
<1> DEFINE f == request_write(Encode(d))
           e == [f EXCEPT !.state = HALF_CLOSED]
<1>1. Written(d, f)
    BY WriteFacts DEF Core
<1>2. enqueue_goaway(d) = e
    BY DEF enqueue_goaway
<1> HIDE DEF f
<1>3. /\ e \in Conn /\ e.state = HALF_CLOSED /\ e.s = f.s /\ e.buf = f.buf
      /\ e.write_timer = f.write_timer /\ e.idle_timer = f.idle_timer
      /\ e.flight = f.flight /\ e.notify = f.notify /\ e.graceful_timer = f.graceful_timer
      /\ e.cb = f.cb /\ e.initiated = f.initiated /\ e.phase = f.phase /\ e.fail = f.fail
    BY <1>1 DEF Written, Conn
<1> HIDE DEF e
<1> QED BY <1>1, <1>2, <1>3 DEF Written, Frame, Core, IsWriting

(* ... called from a timer. *)
LEMMA GoawayInv ==
  ASSUME NEW d, Inv(d), d.phase = "loop", d.state # FREED
  PROVE  Inv(enqueue_goaway(d))
<1>1. CASE d.state < IS_CLOSING
  <2> DEFINE e == enqueue_goaway(d)
  <2>1. /\ Core(e) /\ e.state = HALF_CLOSED /\ e.phase = d.phase /\ e.buf # 0
        /\ e.s = d.s /\ e.flight = d.flight /\ e.notify = d.notify /\ e.idle_timer = d.idle_timer
        /\ e.write_timer <=> d.write_timer \/ ~IsWriting(d)
      BY <1>1, GoawayFacts DEF Inv
  <2> HIDE DEF e
  <2>2. Inv(e)
      BY <1>1, <2>1 DEF Inv, Midway, Waits, IdleOn, Freed, Held, Sched, Quiet, IsWriting
  <2> QED BY <2>2 DEF e
<1>2. CASE ~(d.state < IS_CLOSING)
    BY <1>2 DEF enqueue_goaway
<1> QED BY <1>1, <1>2

(***************************************************************************)
(* Streams.                                                                *)
(***************************************************************************)
(* Some streams of d have moved to states in which they need no write. *)
Moved(d, e) ==
    /\ e \in Conn /\ Frame(d, e)
    /\ e.buf = d.buf /\ e.reading = d.reading /\ e.write_timer = d.write_timer
    /\ d.flight # 0 => e.idle_timer
    /\ ToProceed(d) = {} => ToProceed(e) = {}
    /\ Active(d) = {} => Active(e) = {}

(* Streams that need no write any more disturb nothing during on_read and on_write_complete. *)
LEMMA MovedInv ==
  ASSUME NEW d, NEW e, Inv(d), Moved(d, e), d.phase \in {"parse", "proceed"}
  PROVE  Inv(e)
BY DEF Inv, Core, Midway, Waits, IdleOn, Freed, Moved, Frame, Held, Sched, IsWriting

(* Two moves are a move. *)
LEMMA MovedAgain ==
  ASSUME NEW d, NEW e, NEW f, Moved(d, e), Moved(e, f)
  PROVE  Moved(d, f)
BY DEF Moved, Frame

(* Moving the connection between the lists of the context. *)
LEMMA TouchFacts ==
  ASSUME NEW d \in Conn
  PROVE  TouchList(d) \in Conn /\ Same(d, TouchList(d))
BY DEF TouchList, Conn, Same, Frame

(* vhttp_http2_stream_set_state. *)
LEMMA SetFacts ==
  ASSUME NEW d \in Conn, NEW i \in Streams, NEW new \in StreamStates
  PROVE  LET e == SetStream(d, i, new)
         IN /\ e \in Conn /\ Frame(d, e) /\ e.s = [d.s EXCEPT ![i] = new]
            /\ e.buf = d.buf /\ e.reading = d.reading
            /\ e.write_timer = d.write_timer /\ e.idle_timer = d.idle_timer
<1> DEFINE f == [d EXCEPT !.s[i] = new]
<1>1. /\ f \in Conn /\ Frame(d, f) /\ f.s = [d.s EXCEPT ![i] = new]
      /\ f.buf = d.buf /\ f.reading = d.reading
      /\ f.write_timer = d.write_timer /\ f.idle_timer = d.idle_timer
    BY DEF Conn, Frame
<1>2. SetStream(d, i, new) = TouchList(f)
    BY DEF SetStream
<1> HIDE DEF f
<1> QED BY <1>1, <1>2, TouchFacts DEF Same, Frame

(* ... to a state that needs no write that was not needed before. *)
LEMMA SetMoved ==
  ASSUME NEW d \in Conn, NEW i \in Streams, NEW new \in {"recv", "wait", "ended"},
         d.flight # 0 => d.idle_timer, new = "ended" => d.s[i] = "flushed"
  PROVE  Moved(d, SetStream(d, i, new))
<1> DEFINE e == SetStream(d, i, new)
<1>1. new \in StreamStates
    BY DEF StreamStates
<1>2. /\ e \in Conn /\ Frame(d, e) /\ e.s = [d.s EXCEPT ![i] = new]
      /\ e.buf = d.buf /\ e.reading = d.reading
      /\ e.write_timer = d.write_timer /\ e.idle_timer = d.idle_timer
    BY <1>1, SetFacts
<1> HIDE DEF e
<1>3. d.s \in [Streams -> StreamStates]
    BY DEF Conn
<1> QED BY <1>2, <1>3 DEF e, Moved, Frame, ToProceed, Active, In

(* update_idle_timeout, as part of a move. *)
LEMMA IdleMoved ==
  ASSUME NEW d \in Conn, d.flight # 0 => d.idle_timer
  PROVE  Moved(d, update_idle_timeout(d))
<1> DEFINE e == update_idle_timeout(d)
<1>1. /\ e \in Conn /\ Frame(d, e) /\ e.s = d.s /\ e.buf = d.buf /\ e.reading = d.reading
      /\ e.write_timer = d.write_timer /\ (e.idle_timer <=> d.flight # 0 \/ Blocked(d) = {})
    BY IdleFacts
<1> HIDE DEF e
<1> QED BY <1>1 DEF e, Moved, Frame, ToProceed, Active, In

(* vhttp_http2_stream_close. *)
LEMMA StreamCloseMoved ==
  ASSUME NEW d \in Conn, NEW i \in Streams, d.flight # 0 => d.idle_timer
  PROVE  Moved(d, stream_close(d, i))
<1> DEFINE e == [d EXCEPT !.s[i] = "none", !.final = @ \ {i}]
           f == IF d.s[i] = "ended" THEN e ELSE TouchList(e)
<1>1. /\ e \in Conn /\ Frame(d, e) /\ e.s = [d.s EXCEPT ![i] = "none"]
      /\ e.buf = d.buf /\ e.reading = d.reading
      /\ e.write_timer = d.write_timer /\ e.idle_timer = d.idle_timer
    BY DEF Conn, Frame, StreamStates
<1>2. stream_close(d, i) = update_idle_timeout(f)
    BY DEF stream_close
<1>3. d.s \in [Streams -> StreamStates]
    BY DEF Conn
<1> HIDE DEF e
<1>4. f \in Conn /\ Same(e, f)
    BY <1>1, TouchFacts DEF Same, Frame
<1> HIDE DEF f
<1>5. Moved(d, f)
    BY <1>1, <1>3, <1>4 DEF Moved, Same, Frame, ToProceed, Active, In
<1>6. Moved(f, update_idle_timeout(f))
    BY <1>4, <1>5, IdleMoved DEF Moved, Frame
<1> QED BY <1>2, <1>5, <1>6, MovedAgain

(* vhttp_http2_stream_reset, in any state of the stream. *)
LEMMA StreamResetMoved ==
  ASSUME NEW d \in Conn, NEW i \in Streams, d.flight # 0 => d.idle_timer
  PROVE  Moved(d, stream_reset(d, i))
<1>1. CASE d.s[i] \in {"none", "ended"}
    BY <1>1 DEF stream_reset, Moved, Frame
<1>2. CASE d.s[i] = "flushed"
  <2> DEFINE e == [d EXCEPT !.final = @ \ {i}]
  <2>1. e \in Conn /\ Same(d, e)
      BY DEF Conn, Same, Frame
  <2>2. stream_reset(d, i) = SetStream(e, i, "ended")
      BY <1>2 DEF stream_reset
  <2> HIDE DEF e
  <2>3. Moved(e, SetStream(e, i, "ended"))
      BY <1>2, <2>1, SetMoved DEF Same, Frame
  <2>4. Moved(d, e)
      BY <2>1 DEF Moved, Same, Frame, ToProceed, Active, In
  <2> QED BY <2>2, <2>3, <2>4, MovedAgain
<1>3. CASE d.s[i] \notin {"none", "ended", "flushed"}
    BY <1>3, StreamCloseMoved DEF stream_reset
<1> QED BY <1>1, <1>2, <1>3

(***************************************************************************)
(* do_emit_writereq, and what follows the writes.                          *)
(***************************************************************************)
(* do_emit_writereq may be entered when nothing is being written nor scheduled. *)
LEMMA DoEmitInv ==
  ASSUME NEW d, Core(d), d.state # FREED, ~IsWriting(d), ~d.write_timer,
         d.state < IS_CLOSING => Held(d) /\ (Quiet(d) => d.idle_timer)
  PROVE  Inv(do_emit_writereq(d))
<1> DEFINE e == [d EXCEPT !.phase = "emit"]
<1>1. do_emit_writereq(d) = e
    BY DEF do_emit_writereq, Check, IsWriting
<1>2. /\ e \in Conn /\ e.phase = "emit" /\ e.state = d.state /\ e.s = d.s /\ e.buf = d.buf
      /\ e.flight = d.flight /\ e.notify = d.notify /\ e.reading = d.reading
      /\ e.write_timer = d.write_timer /\ e.idle_timer = d.idle_timer
      /\ e.cb = d.cb /\ e.initiated = d.initiated /\ e.fail = d.fail
    BY DEF Core, Conn
<1> HIDE DEF e
<1>3. Inv(e)
    BY <1>2 DEF Inv, Core, Midway, Waits, IdleOn, Freed, Held, Quiet, ToProceed, In, IsWriting
<1> QED BY <1>1, <1>3

(* OnRead keeps the invariant. *)
LEMMA OnReadInv ==
  ASSUME Inv(c), OnRead
  PROVE  Inv(c)'
<1>1. c.state # FREED /\ c.phase = "loop"
    BY DEF OnRead, Inv, Freed
<1>2. /\ c' \in Conn /\ c'.phase = "parse" /\ c'.state = c.state /\ c'.s = c.s /\ c'.buf = c.buf
      /\ c'.flight = c.flight /\ c'.notify = c.notify /\ c'.reading = c.reading
      /\ c'.write_timer = c.write_timer /\ c'.idle_timer = c.idle_timer /\ c'.window = c.window
      /\ c'.cb = c.cb /\ c'.initiated = c.initiated /\ c'.fail = c.fail
    BY DEF OnRead, Inv, Core, Conn
<1> QED BY <1>1, <1>2 DEF Inv, Core, Midway, Waits, IdleOn, Freed, Held, Sched,
                          ToProceed, Active, In, IsWriting

(* OnReadError keeps the invariant. *)
LEMMA OnReadErrorInv ==
  ASSUME Inv(c), OnReadError
  PROVE  Inv(c)'
<1> DEFINE d == [c EXCEPT !.reading = FALSE]
<1>1. /\ d \in Conn /\ d.phase = "loop" /\ d.flight = c.flight /\ d.notify = c.notify
      /\ d.write_timer = c.write_timer /\ d.idle_timer = c.idle_timer
      /\ d.cb = c.cb /\ d.initiated = c.initiated /\ d.fail = c.fail
    BY DEF OnReadError, Inv, Core, Conn
<1>2. c' = close_connection(d)
    BY DEF OnReadError
<1> HIDE DEF d
<1>3. Core(d)
    BY <1>1 DEF Inv, Core, IsWriting
<1>4. Inv(close_connection(d))
    BY <1>1, <1>3, CloseInv
<1> QED BY <1>2, <1>4

(* OnReadRest keeps the invariant. *)
LEMMA OnReadRestInv ==
  ASSUME Inv(c), OnReadRest
  PROVE  Inv(c)'
<1> DEFINE b == [c EXCEPT !.phase = "loop"]
           d == update_idle_timeout(b)
           e == [d EXCEPT !.write_timer = FALSE]
<1>1. c \in Conn /\ c.phase = "parse" /\ c.state # FREED
    BY DEF OnReadRest, Inv, Core, Freed
<1>2. /\ b \in Conn /\ b.phase = "loop" /\ b.state = c.state /\ b.s = c.s /\ b.buf = c.buf
      /\ b.flight = c.flight /\ b.notify = c.notify /\ b.reading = c.reading
      /\ b.write_timer = c.write_timer /\ b.idle_timer = c.idle_timer /\ b.window = c.window
      /\ b.cb = c.cb /\ b.initiated = c.initiated /\ b.fail = c.fail
    BY <1>1 DEF Conn
<1>3. c' = IF d.write_timer THEN do_emit_writereq(e) ELSE d
    BY DEF OnReadRest
<1> HIDE DEF b
<1>4. /\ d \in Conn /\ Frame(b, d) /\ d.s = b.s /\ d.buf = b.buf /\ d.reading = b.reading
      /\ d.write_timer = b.write_timer /\ (d.idle_timer <=> b.flight # 0 \/ Blocked(b) = {})
    BY <1>2, IdleFacts DEF Inv, Core
<1> HIDE DEF d
<1>5. Quiet(d) => d.idle_timer
    BY <1>4 DEF Quiet, Blocked, In
<1>6. Inv(d)
    BY <1>1, <1>2, <1>4, <1>5 DEF Frame, Inv, Core, Midway, Waits, IdleOn, Freed, Held, Sched,
                                  ToProceed, Active, In, IsWriting
<1>7. CASE d.write_timer
  <2>1. /\ e \in Conn /\ Frame(d, e) /\ e.s = d.s /\ e.buf = d.buf /\ e.reading = d.reading
        /\ ~e.write_timer /\ e.idle_timer = d.idle_timer
      BY <1>4 DEF Conn, Frame
  <2> HIDE DEF e
  <2>2. Core(e) /\ ~IsWriting(e) /\ e.state # FREED
      BY <1>1, <1>2, <1>4, <1>6, <1>7, <2>1 DEF Inv, Core, IsWriting, Frame
  <2>3. e.state < IS_CLOSING => Held(e) /\ (Quiet(e) => e.idle_timer)
      BY <1>2, <1>4, <1>5, <1>6, <2>1 DEF Inv, Waits, Held, Quiet, ToProceed, In, Frame
  <2>4. Inv(do_emit_writereq(e))
      BY <2>1, <2>2, <2>3, DoEmitInv
  <2> QED BY <1>3, <1>7, <2>4
<1> QED BY <1>3, <1>6, <1>7

(* OnNotifyWrite keeps the invariant. *)
LEMMA OnNotifyWriteInv ==
  ASSUME Inv(c), OnNotifyWrite
  PROVE  Inv(c)'
<1> DEFINE d == [c EXCEPT !.notify = FALSE]
<1>1. /\ d \in Conn /\ d.phase = "loop" /\ d.state = c.state /\ d.s = c.s /\ d.buf = c.buf
      /\ d.flight = c.flight /\ ~d.notify /\ d.reading = c.reading
      /\ d.write_timer = c.write_timer /\ d.idle_timer = c.idle_timer
      /\ d.cb = c.cb /\ d.initiated = c.initiated /\ d.fail = c.fail
    BY DEF OnNotifyWrite, Inv, Core, Conn
<1>2. c' = close_connection_now(d) \/ c' = do_emit_writereq(d)
    BY DEF OnNotifyWrite
<1> HIDE DEF d
<1>3. Core(d) /\ ~d.write_timer /\ ~IsWriting(d) /\ d.state # FREED
    BY <1>1 DEF OnNotifyWrite, Inv, Core, Freed, IsWriting
<1>4. d.state < IS_CLOSING => Held(d) /\ (Quiet(d) => d.idle_timer)
    BY <1>1, <1>3 DEF OnNotifyWrite, Inv, Waits, IdleOn, Held, Quiet, ToProceed, In
<1>5. Inv(close_connection_now(d)) /\ Inv(do_emit_writereq(d))
    BY <1>3, <1>4, CloseNowInv, DoEmitInv
<1> QED BY <1>2, <1>5

(* OnWriteError keeps the invariant. *)
LEMMA OnWriteErrorInv ==
  ASSUME Inv(c), OnWriteError
  PROVE  Inv(c)'
<1>1. Core(c) /\ ~c.write_timer
    BY DEF OnWriteError, Inv, Core, IsWriting
<1>2. Inv(close_connection_now(c))
    BY <1>1, CloseNowInv
<1> QED BY <1>2 DEF OnWriteError

(* OnWriteComplete keeps the invariant. *)
LEMMA OnWriteCompleteInv ==
  ASSUME Inv(c), OnWriteComplete
  PROVE  Inv(c)'
<1>1. /\ c' \in Conn /\ c'.phase = "proceed" /\ c'.flight = 0 /\ c'.state = c.state
      /\ c'.notify = c.notify /\ c'.write_timer = c.write_timer
      /\ c'.cb = c.cb /\ c'.initiated = c.initiated /\ c'.fail = c.fail
  <2>1. 0 \in 0 .. SoftMax /\ c \in Conn
      BY H2OutputAssumption DEF Inv, Core
  <2> QED BY <2>1 DEF OnWriteComplete, Conn
<1> QED BY <1>1 DEF OnWriteComplete, Inv, Core, Midway, Waits, IdleOn, Freed, IsWriting

(* EmitWritereq keeps the invariant. *)
LEMMA EmitWritereqInv ==
  ASSUME Inv(c), EmitWritereq
  PROVE  Inv(c)'
<1> DEFINE d == [c EXCEPT !.write_timer = FALSE]
<1>1. /\ d \in Conn /\ d.phase = "loop" /\ d.state = c.state /\ d.s = c.s /\ d.buf = c.buf
      /\ d.flight = c.flight /\ d.notify = c.notify /\ d.reading = c.reading
      /\ ~d.write_timer /\ d.idle_timer = c.idle_timer
      /\ d.cb = c.cb /\ d.initiated = c.initiated /\ d.fail = c.fail
    BY DEF EmitWritereq, Inv, Core, Conn
<1>2. c' = do_emit_writereq(d)
    BY DEF EmitWritereq
<1> HIDE DEF d
<1>3. Core(d) /\ ~IsWriting(d) /\ d.state # FREED
    BY <1>1 DEF EmitWritereq, Inv, Core, Freed, IsWriting
<1>4. d.state < IS_CLOSING => Held(d) /\ (Quiet(d) => d.idle_timer)
    BY <1>1 DEF EmitWritereq, Inv, Waits, IdleOn, Held, Quiet, ToProceed, In
<1>5. Inv(do_emit_writereq(d))
    BY <1>1, <1>3, <1>4, DoEmitInv
<1> QED BY <1>2, <1>5

(* OnWriteCompleteRest keeps the invariant. *)
LEMMA OnWriteCompleteRestInv ==
  ASSUME Inv(c), OnWriteCompleteRest
  PROVE  Inv(c)'
<1> DEFINE b == update_idle_timeout(c)
           d == [b EXCEPT !.write_timer = FALSE, !.phase = "loop"]
           e == ResumeReading(d)
<1>1. c \in Conn /\ c.flight = 0 /\ ~c.notify /\ c.state # FREED
      /\ (c.state < IS_CLOSING => ToProceed(c) = {})
    BY DEF OnWriteCompleteRest, Inv, Core, Midway, Freed, IsWriting
<1>2. /\ b \in Conn /\ Frame(c, b) /\ b.s = c.s /\ b.buf = c.buf /\ b.reading = c.reading
      /\ (b.idle_timer <=> Blocked(c) = {})
    BY <1>1, IdleFacts
<1>3. c' = IF e.state = OPEN THEN NotifyWrite(e) ELSE do_emit_writereq(e)
    BY DEF OnWriteCompleteRest
<1> HIDE DEF b
<1>4. /\ d \in Conn /\ d.state = c.state /\ d.flight = 0 /\ ~d.notify /\ ~d.write_timer
      /\ d.phase = "loop" /\ d.s = c.s /\ d.buf = c.buf /\ d.idle_timer = b.idle_timer
      /\ d.cb = c.cb /\ d.initiated = c.initiated /\ d.fail = c.fail
    BY <1>1, <1>2 DEF Conn, Frame
<1> HIDE DEF d
<1>5. /\ e \in Conn /\ e.state = c.state /\ e.flight = 0 /\ ~e.notify /\ ~e.write_timer
      /\ e.phase = "loop" /\ e.s = c.s /\ e.buf = c.buf /\ e.idle_timer = b.idle_timer
      /\ e.cb = c.cb /\ e.initiated = c.initiated /\ e.fail = c.fail
  <2> DEFINE f == [d EXCEPT !.reading = TRUE]
  <2>1. e = d \/ e = f
      BY DEF ResumeReading
  <2>2. /\ f \in Conn /\ f.state = d.state /\ f.flight = d.flight /\ f.notify = d.notify
        /\ f.write_timer = d.write_timer /\ f.phase = d.phase /\ f.s = d.s /\ f.buf = d.buf
        /\ f.idle_timer = d.idle_timer
        /\ f.cb = d.cb /\ f.initiated = d.initiated /\ f.fail = d.fail
      BY <1>4 DEF Conn
  <2> HIDE DEF e, f
  <2> QED BY <1>4, <2>1, <2>2
<1>6. e.state < IS_CLOSING => e.reading \/ e.buf # 0
    BY <1>4, H2OutputAssumption DEF ResumeReading, bytes_in_buf, Conn
<1> HIDE DEF e
<1>7. Core(e) /\ ~IsWriting(e) /\ e.state # FREED
    BY <1>1, <1>5 DEF OnWriteCompleteRest, Inv, Core, IsWriting
<1>8. e.state < IS_CLOSING => ToProceed(e) = {} /\ (Quiet(e) => e.idle_timer)
    BY <1>1, <1>2, <1>5 DEF ToProceed, Quiet, Blocked, In
<1>9. CASE e.state # OPEN
  <2>1. Inv(do_emit_writereq(e))
      BY <1>5, <1>6, <1>7, <1>8, DoEmitInv DEF Held
  <2> QED BY <1>3, <1>9, <2>1
<1>10. CASE e.state = OPEN /\ e.buf = 0 /\ Active(e) = {}
  <2>1. Inv(e)
      BY <1>5, <1>6, <1>7, <1>8, <1>10 DEF Inv, Midway, Waits, IdleOn, Freed, Held, Sched
  <2> QED BY <1>3, <1>10, <2>1 DEF NotifyWrite
<1>11. CASE e.state = OPEN /\ ~(e.buf = 0 /\ Active(e) = {})
  <2> DEFINE f == [e EXCEPT !.notify = TRUE]
  <2>1. NotifyWrite(e) = f
      BY <1>7, <1>11 DEF NotifyWrite, Check
  <2>2. /\ f \in Conn /\ f.state = e.state /\ f.s = e.s /\ f.buf = e.buf /\ f.flight = e.flight
        /\ f.notify /\ f.reading = e.reading /\ f.write_timer = e.write_timer
        /\ f.idle_timer = e.idle_timer /\ f.phase = e.phase
        /\ f.cb = e.cb /\ f.initiated = e.initiated /\ f.fail = e.fail
      BY <1>5 DEF Conn
  <2> HIDE DEF f
  <2>3. Inv(f)
      BY <1>5, <1>6, <1>7, <1>8, <1>11, <2>2 DEF Inv, Core, Midway, Waits, IdleOn, Freed,
                Held, Sched, Quiet, ToProceed, In, IsWriting
  <2> QED BY <1>3, <1>11, <2>1, <2>3
<1> QED BY <1>9, <1>10, <1>11

(* EmitStream keeps the invariant. *)
LEMMA EmitStreamInv ==
  ASSUME Inv(c), NEW i \in Streams, EmitStream(i)
  PROVE  Inv(c)'
<1>1. /\ c \in Conn /\ c.phase = "emit" /\ c.state < IS_CLOSING /\ c.s[i] = "active"
      /\ c.s \in [Streams -> StreamStates]
    BY DEF EmitStream, Inv, Core, Conn
<1> DEFINE Emitted(e) ==
        /\ e \in Conn /\ e.state = c.state /\ e.phase = c.phase
        /\ e.flight = c.flight /\ e.notify = c.notify /\ e.write_timer = c.write_timer
        /\ e.idle_timer = c.idle_timer /\ e.reading = c.reading
        /\ e.cb = c.cb /\ e.initiated = c.initiated /\ e.fail = c.fail
        /\ e.buf # 0 \/ (e.buf = c.buf /\ e.s = [c.s EXCEPT ![i] = "stalled"])
        /\ ~Quiet(e)
<1>2. Emitted(c')
  <2>1. CASE c' = [c EXCEPT !.s[i] = "stalled"]
    <3>1. /\ c' \in Conn /\ Frame(c, c') /\ c'.write_timer = c.write_timer /\ c'.buf = c.buf
          /\ c'.idle_timer = c.idle_timer /\ c'.reading = c.reading
          /\ c'.s = [c.s EXCEPT ![i] = "stalled"]
        BY <1>1, <2>1 DEF Conn, Frame, StreamStates
    <3> QED BY <1>1, <3>1 DEF Frame, Quiet
  <2>2. ASSUME NEW used \in BOOLEAN,
               LET d == [Encode(c) EXCEPT !.window = ~used]
               IN \/ c' \in {d, [d EXCEPT !.s[i] = "stalled"]}
                  \/ i \notin c.final /\ c' = [d EXCEPT !.s[i] = "flushed"]
                  \/ c' = SetStream([d EXCEPT !.final = @ \ {i}], i, "ended")
        PROVE  Emitted(c')
    <3> DEFINE g == Encode(c)
               d == [g EXCEPT !.window = ~used]
               f == [d EXCEPT !.final = @ \ {i}]
               Start(e) == /\ e \in Conn /\ e.state = c.state /\ e.phase = c.phase
                           /\ e.flight = c.flight /\ e.notify = c.notify
                           /\ e.write_timer = c.write_timer
                           /\ e.idle_timer = c.idle_timer /\ e.reading = c.reading
                           /\ e.cb = c.cb /\ e.initiated = c.initiated /\ e.fail = c.fail
                           /\ e.buf # 0
    <3>1. Start(g) /\ g.s = c.s
        BY <1>1, EncodeFacts DEF Frame
    <3>2. \/ c' \in {d, [d EXCEPT !.s[i] = "stalled"], [d EXCEPT !.s[i] = "flushed"]}
          \/ c' = SetStream(f, i, "ended")
        BY <2>2
    <3> HIDE DEF g
    <3>3. Start(d) /\ d.s = c.s
        BY <3>1 DEF Conn
    <3> HIDE DEF d
    <3>4. Start(f) /\ f.s = c.s
        BY <3>3 DEF Conn
    <3> HIDE DEF f
    <3>5. ASSUME NEW x \in {"stalled", "flushed"}
          PROVE  LET e == [d EXCEPT !.s[i] = x] IN Start(e) /\ e.s = [c.s EXCEPT ![i] = x]
      <4>1. x \in StreamStates
          BY DEF StreamStates
      <4> QED BY <3>3, <4>1 DEF Conn
    <3>6. LET e == SetStream(f, i, "ended") IN Start(e) /\ e.s = [c.s EXCEPT ![i] = "ended"]
      <4>1. "ended" \in StreamStates
          BY DEF StreamStates
      <4> QED BY <3>4, <4>1, SetFacts DEF Frame
    <3>7. Start(c') /\ c'.s[i] \notin {"none", "recv", "late"}
      <4>1. CASE c' = d
          BY <1>1, <3>3, <4>1
      <4>2. CASE c' = [d EXCEPT !.s[i] = "stalled"]
        <5>1. Start(c') /\ c'.s = [c.s EXCEPT ![i] = "stalled"]
            BY <3>5, <4>2
        <5> QED BY <1>1, <5>1
      <4>3. CASE c' = [d EXCEPT !.s[i] = "flushed"]
        <5>1. Start(c') /\ c'.s = [c.s EXCEPT ![i] = "flushed"]
            BY <3>5, <4>3
        <5> QED BY <1>1, <5>1
      <4>4. CASE c' = SetStream(f, i, "ended")
        <5>1. Start(c') /\ c'.s = [c.s EXCEPT ![i] = "ended"]
            BY <3>6, <4>4
        <5> QED BY <1>1, <5>1
      <4> QED BY <3>2, <4>1, <4>2, <4>3, <4>4
    <3> QED BY <3>7 DEF Quiet
  <2> QED BY <2>1, <2>2 DEF EmitStream
<1> HIDE DEF Emitted
<1> QED BY <1>1, <1>2 DEF Emitted, Inv, Core, Midway, Waits, IdleOn, Freed, Held,
                          ToProceed, In, IsWriting

(* EmitRest keeps the invariant. *)
LEMMA EmitRestInv ==
  ASSUME Inv(c), EmitRest
  PROVE  Inv(c)'
<1> DEFINE b == [c EXCEPT !.phase = "loop"]
           d == WriteBuffer(b)
<1>1. c \in Conn /\ c.phase = "emit" /\ c.state # FREED /\ ~IsWriting(c) /\ ~c.write_timer
    BY DEF EmitRest, Inv, Core, Midway, Freed
<1>2. c' = CloseIfNecessary(d)
    BY DEF EmitRest
<1>3. /\ b \in Conn /\ b.phase = "loop" /\ b.state = c.state /\ b.s = c.s /\ b.buf = c.buf
      /\ b.flight = 0 /\ ~b.notify /\ b.reading = c.reading /\ b.window = c.window
      /\ ~b.write_timer /\ b.idle_timer = c.idle_timer
      /\ b.cb = c.cb /\ b.initiated = c.initiated /\ b.fail = c.fail
    BY <1>1 DEF Conn, IsWriting
<1> HIDE DEF b
<1>4. CASE c.buf # 0
  <2> DEFINE w == [b EXCEPT !.flight = b.buf, !.buf = 0, !.idle_timer = TRUE]
  <2>1. 0 \in 0 .. SoftMax
      BY H2OutputAssumption
  <2>2. d = w
      BY <1>3, <1>4 DEF WriteBuffer, Check, IsWriting
  <2>3. /\ w \in Conn /\ w.phase = "loop" /\ w.state = c.state
        /\ w.flight # 0 /\ ~w.notify /\ ~w.write_timer /\ w.idle_timer
        /\ w.cb = c.cb /\ w.initiated = c.initiated /\ w.fail = c.fail
      BY <1>3, <1>4, <2>1 DEF Conn
  <2> HIDE DEF w
  <2>4. Core(w)
      BY <2>3 DEF Inv, Core, IsWriting
  <2>5. Inv(close_connection(w))
      BY <2>3, <2>4, CloseInv
  <2>6. w.state # IS_CLOSING => Inv(w)
      BY <1>1, <2>3, <2>4 DEF Inv, Midway, Waits, IdleOn, Freed, Held, Sched, IsWriting
  <2> QED BY <1>2, <2>2, <2>5, <2>6 DEF CloseIfNecessary
<1>5. CASE c.buf = 0
  <2>1. d = b
      BY <1>3, <1>5 DEF WriteBuffer
  <2>2. Core(b)
      BY <1>3 DEF Inv, Core, IsWriting
  <2>3. Inv(close_connection(b))
      BY <1>3, <2>2, CloseInv
  <2>4. ASSUME c.state < IS_CLOSING
        PROVE  Inv(b)
    <3>1. ToProceed(b) = {} /\ b.reading
        BY <1>1, <1>3, <1>5, <2>4 DEF Inv, Waits, Held, ToProceed, In, IsWriting
    <3>2. Active(b) = {} \/ ~b.window
        BY <1>1, <1>3, <1>5, <2>4 DEF EmitRest, BufferWindow, Active, In
    <3>3. Quiet(b) => b.idle_timer
        BY <1>1, <1>3, <2>4 DEF Inv, IdleOn, Quiet
    <3> QED BY <1>3, <1>5, <2>2, <2>4, <3>1, <3>2, <3>3
            DEF Inv, Midway, Waits, IdleOn, Freed, Held, Sched
  <2>5. c.state < IS_CLOSING \/ b.state = IS_CLOSING
      BY <1>1, <1>3 DEF Conn
  <2> QED BY <1>2, <2>1, <2>3, <2>4, <2>5 DEF CloseIfNecessary
<1> QED BY <1>4, <1>5

(***************************************************************************)
(* Frames.                                                                 *)
(***************************************************************************)
(* request_gathered_write. *)
LEMMA GatheredFacts ==
  ASSUME NEW d \in Conn, d.state < IS_CLOSING
  PROVE  LET e == request_gathered_write(d)
         IN /\ e \in Conn /\ Frame(d, e) /\ e.s = d.s /\ e.idle_timer = d.idle_timer
            /\ e.buf = d.buf /\ e.reading = d.reading
            /\ e.write_timer <=> d.write_timer \/ ~IsWriting(d)
<1> DEFINE w == d.write_timer \/ ~IsWriting(d)
           e == [d EXCEPT !.write_timer = w]
<1>1. w \in BOOLEAN
    BY DEF Conn
<1>2. request_gathered_write(d) = e
    BY DEF request_gathered_write, Check
<1> HIDE DEF w
<1>3. /\ e \in Conn /\ Frame(d, e) /\ e.s = d.s /\ e.idle_timer = d.idle_timer
      /\ e.buf = d.buf /\ e.reading = d.reading /\ e.write_timer = w
    BY <1>1 DEF Conn, Frame
<1> HIDE DEF e
<1> QED BY <1>2, <1>3 DEF w

(* Preface keeps the invariant. *)
LEMMA PrefaceInv ==
  ASSUME Inv(c), Preface
  PROVE  Inv(c)'
<1> DEFINE d == request_write(Encode(c))
<1>1. Written(c, d)
    BY WriteFacts DEF Preface, Parsing, Inv, Core
<1>2. Inv(d)
    BY <1>1, WrittenInv DEF Preface, Parsing
<1>3. c' = [d EXCEPT !.preface = TRUE]
    BY DEF Preface
<1> HIDE DEF d
<1>4. c' \in Conn /\ Same(d, c')
    BY <1>1, <1>3 DEF Written, Conn, Same, Frame
<1> QED BY <1>2, <1>4, SameInv

(* Answered keeps the invariant. *)
LEMMA AnsweredInv ==
  ASSUME Inv(c), Answered
  PROVE  Inv(c)'
<1>1. Written(c, c')
    BY WriteFacts DEF Answered, Parsing, Inv, Core
<1> QED BY <1>1, WrittenInv DEF Answered, Parsing

(* A stream that receives its body needs no write. *)
LEMMA BodyMoved ==
  ASSUME NEW d \in Conn, NEW i \in Streams, NEW new \in {"late", "partial"}, d.flight # 0 => d.idle_timer
  PROVE  Moved(d, [d EXCEPT !.s[i] = new])
<1> DEFINE e == [d EXCEPT !.s[i] = new]
<1>1. new \in StreamStates
    BY DEF StreamStates
<1>2. /\ e \in Conn /\ Frame(d, e) /\ e.s = [d.s EXCEPT ![i] = new]
      /\ e.buf = d.buf /\ e.reading = d.reading
      /\ e.write_timer = d.write_timer /\ e.idle_timer = d.idle_timer
    BY <1>1 DEF Conn, Frame
<1> HIDE DEF e
<1>3. d.s \in [Streams -> StreamStates]
    BY DEF Conn
<1> QED BY <1>2, <1>3 DEF e, Moved, Frame, ToProceed, Active, In

(* Headers keeps the invariant. *)
LEMMA HeadersInv ==
  ASSUME Inv(c), NEW i \in Streams, Headers(i)
  PROVE  Inv(c)'
<1> DEFINE b == [c EXCEPT !.received_any = TRUE]
           d == SetStream(b, i, "recv")
           e == SetStream(d, i, "wait")
<1>1. c \in Conn /\ c.phase = "parse" /\ (c.flight # 0 => c.idle_timer)
    BY DEF Headers, Parsing, Inv, Core
<1>2. b \in Conn /\ Same(c, b)
    BY <1>1 DEF Conn, Same, Frame
<1>3. c' \in {d, update_idle_timeout(e), [d EXCEPT !.s[i] = "late"], stream_reset(d, i)}
    BY DEF Headers
<1> HIDE DEF b
<1>4. Moved(c, b)
    BY <1>1, <1>2 DEF Moved, Same, Frame, ToProceed, Active, In
<1>5. Moved(b, d)
    BY <1>1, <1>2, SetMoved DEF Same, Frame
<1>6. Moved(c, d) /\ d \in Conn /\ (d.flight # 0 => d.idle_timer)
    BY <1>4, <1>5, MovedAgain DEF Moved, Frame
<1> HIDE DEF d
<1>7. Moved(d, e)
    BY <1>6, SetMoved
<1>8. Moved(c, e) /\ e \in Conn /\ (e.flight # 0 => e.idle_timer)
    BY <1>6, <1>7, MovedAgain DEF Moved, Frame
<1> HIDE DEF e
<1>9. Moved(c, update_idle_timeout(e))
    BY <1>8, IdleMoved, MovedAgain
<1>10. Moved(c, stream_reset(d, i))
    BY <1>6, StreamResetMoved, MovedAgain
<1>11. Moved(c, [d EXCEPT !.s[i] = "late"])
    BY <1>6, BodyMoved, MovedAgain
<1>12. Moved(c, c')
    BY <1>3, <1>6, <1>9, <1>10, <1>11
<1> QED BY <1>1, <1>12, MovedInv

(* BodyChunk keeps the invariant. *)
LEMMA BodyChunkInv ==
  ASSUME Inv(c), NEW i \in Streams, BodyChunk(i)
  PROVE  Inv(c)'
<1>1. PICK d \in {c, request_write(Encode(c))} :
          c' = IF c.s[i] = "late" THEN stream_reset(d, i) ELSE [d EXCEPT !.s[i] = "partial"]
    BY DEF BodyChunk
<1>2. Inv(d) /\ d.phase = "parse"
  <2>1. Written(c, request_write(Encode(c))) /\ c.phase = "parse"
      BY WriteFacts DEF BodyChunk, Parsing, Inv, Core
  <2>2. Inv(request_write(Encode(c)))
      BY <2>1, WrittenInv DEF BodyChunk, Parsing
  <2> QED BY <1>1, <2>1, <2>2 DEF Written, Frame
<1>3. d \in Conn /\ (d.flight # 0 => d.idle_timer)
    BY <1>2 DEF Inv, Core
<1>4. Moved(d, stream_reset(d, i))
    BY <1>3, StreamResetMoved
<1>5. Moved(d, [d EXCEPT !.s[i] = "partial"])
    BY <1>3, BodyMoved
<1>6. Moved(d, c')
    BY <1>1, <1>4, <1>5
<1> QED BY <1>2, <1>6, MovedInv

(* EndOfBody keeps the invariant. *)
LEMMA EndOfBodyInv ==
  ASSUME Inv(c), NEW i \in Streams, EndOfBody(i)
  PROVE  Inv(c)'
<1> DEFINE e == SetStream(c, i, "wait")
<1>1. c \in Conn /\ c.phase = "parse" /\ (c.flight # 0 => c.idle_timer)
    BY DEF EndOfBody, Parsing, Inv, Core
<1>2. Moved(c, e) /\ e \in Conn /\ (e.flight # 0 => e.idle_timer)
    BY <1>1, SetMoved DEF Moved, Frame
<1>3. c' = update_idle_timeout(e)
    BY DEF EndOfBody
<1> HIDE DEF e
<1>4. Moved(c, c')
    BY <1>2, <1>3, IdleMoved, MovedAgain
<1> QED BY <1>1, <1>4, MovedInv

(* RstStream keeps the invariant. *)
LEMMA RstStreamInv ==
  ASSUME Inv(c), NEW i \in Streams, RstStream(i)
  PROVE  Inv(c)'
<1>1. c \in Conn /\ c.phase = "parse" /\ (c.flight # 0 => c.idle_timer)
    BY DEF RstStream, Parsing, Inv, Core
<1>2. Moved(c, c')
    BY <1>1, StreamResetMoved DEF RstStream
<1> QED BY <1>1, <1>2, MovedInv

(* StreamError keeps the invariant. *)
LEMMA StreamErrorInv ==
  ASSUME Inv(c), NEW i \in Streams, StreamError(i)
  PROVE  Inv(c)'
<1> DEFINE d == request_write(Encode(c))
<1>1. Written(c, d) /\ c.phase = "parse"
    BY WriteFacts DEF StreamError, Parsing, Inv, Core
<1>2. Inv(d)
    BY <1>1, WrittenInv DEF StreamError, Parsing
<1>3. c' = stream_reset(d, i)
    BY DEF StreamError
<1> HIDE DEF d
<1>4. Moved(d, c')
    BY <1>2, <1>3, StreamResetMoved DEF Inv, Core
<1>5. d.phase = "parse"
    BY <1>1 DEF Written, Frame
<1> QED BY <1>2, <1>4, <1>5, MovedInv

(* Settings keeps the invariant. *)
LEMMA SettingsInv ==
  ASSUME Inv(c), Settings
  PROVE  Inv(c)'
<1> DEFINE b == request_write(Encode(c))
           s1 == [i \in Streams |-> IF b.s[i] = "stalled" THEN "active" ELSE b.s[i]]
           d == [b EXCEPT !.s = s1]
<1>1. Written(c, b) /\ c.phase = "parse" /\ c.state < IS_CLOSING
    BY WriteFacts DEF Settings, Parsing, Inv, Core
<1>2. PICK room \in BufferWindow(d) : c' = resume_send(d, room)
    BY DEF Settings
<1> HIDE DEF b
<1>3. b \in Conn /\ s1 \in [Streams -> StreamStates]
    BY <1>1 DEF Written, Conn, StreamStates
<1> HIDE DEF s1
<1>4. /\ d \in Conn /\ Frame(b, d) /\ d.buf = b.buf
      /\ d.write_timer = b.write_timer /\ d.idle_timer = b.idle_timer
    BY <1>3 DEF Conn, Frame
<1> HIDE DEF d
<1>5. d.state < IS_CLOSING /\ d.phase = "parse" /\ d.buf # 0
      /\ (d.write_timer <=> c.write_timer \/ ~IsWriting(c)) /\ (IsWriting(d) <=> IsWriting(c))
      /\ (d.flight # 0 => ~d.notify /\ d.idle_timer)
      /\ d.fail \subseteq {"graceful"} /\ (d.fail # {} => d.initiated >= 2)
      /\ (d.cb # "NULL" => d.initiated >= 1)
    BY <1>1, <1>4 DEF Written, Frame, IsWriting, Inv, Core
<1>6. Inv(d)
    BY <1>4, <1>5 DEF Inv, Core, Midway, Waits, IdleOn, Freed, Held, Sched, IsWriting
<1>7. CASE room
  <2>1. Same(d, c') /\ c' \in Conn
    <3>1. c' = request_gathered_write(d)
        BY <1>2, <1>7 DEF resume_send
    <3>2. d.write_timer \in BOOLEAN /\ c'.write_timer \in BOOLEAN
        BY <1>4, <1>5, <3>1, GatheredFacts DEF Conn
    <3> QED BY <1>4, <1>5, <3>1, <3>2, GatheredFacts DEF Same
  <2> QED BY <1>6, <2>1, SameInv
<1>8. CASE ~room
    BY <1>2, <1>6, <1>8 DEF resume_send
<1> QED BY <1>7, <1>8

(* resume_send after a window was opened: if there is no room in the buffer, *)
(* something is in it.                                                       *)
LEMMA ResumeInv ==
  ASSUME NEW d, Core(d), d.phase = "parse", d.state < IS_CLOSING, Held(d),
         d.buf # 0 \/ ToProceed(d) # {} \/ ~d.reading => IsWriting(d) \/ d.write_timer,
         NEW room \in BufferWindow(d)
  PROVE  Inv(resume_send(d, room))
<1> DEFINE e == request_gathered_write(d)
<1>1. /\ e \in Conn /\ Frame(d, e) /\ e.s = d.s /\ e.idle_timer = d.idle_timer
      /\ e.buf = d.buf /\ e.reading = d.reading
      /\ e.write_timer <=> d.write_timer \/ ~IsWriting(d)
    BY GatheredFacts DEF Core
<1>2. CASE room
  <2> HIDE DEF e
  <2>1. Inv(e)
      BY <1>1 DEF Inv, Core, Midway, Waits, IdleOn, Freed, Held, Sched, ToProceed, Active, In,
                  IsWriting, Frame
  <2> QED BY <1>2, <2>1 DEF resume_send, e
<1>3. CASE ~room
  <2>1. d.buf # 0 \/ ~d.window
      BY <1>3 DEF BufferWindow
  <2>2. Inv(d)
      BY <2>1 DEF Inv, Core, Midway, Waits, IdleOn, Freed, Sched
  <2> QED BY <1>3, <2>2 DEF resume_send
<1> QED BY <1>2, <1>3

(* WindowUpdate keeps the invariant. *)
LEMMA WindowUpdateInv ==
  ASSUME Inv(c), WindowUpdate
  PROVE  Inv(c)'
<1> DEFINE d == [c EXCEPT !.window = TRUE]
<1>1. c \in Conn /\ c.phase = "parse" /\ c.state < IS_CLOSING
    BY DEF WindowUpdate, Parsing, Inv, Core
<1>2. PICK room \in BufferWindow(d) : c' = resume_send(d, room)
    BY DEF WindowUpdate
<1>3. /\ d \in Conn /\ d.phase = c.phase /\ d.state = c.state /\ d.s = c.s /\ d.buf = c.buf
      /\ d.flight = c.flight /\ d.notify = c.notify /\ d.reading = c.reading
      /\ d.write_timer = c.write_timer /\ d.idle_timer = c.idle_timer
      /\ d.cb = c.cb /\ d.initiated = c.initiated /\ d.fail = c.fail
    BY <1>1 DEF Conn
<1> HIDE DEF d
<1>4. /\ Core(d) /\ Held(d)
      /\ d.buf # 0 \/ ToProceed(d) # {} \/ ~d.reading => IsWriting(d) \/ d.write_timer
    BY <1>1, <1>3 DEF Inv, Core, Waits, Held, Sched, ToProceed, In, IsWriting
<1> QED BY <1>1, <1>2, <1>3, <1>4, ResumeInv

(* StreamWindowUpdate keeps the invariant. *)
LEMMA StreamWindowUpdateInv ==
  ASSUME Inv(c), NEW i \in Streams, StreamWindowUpdate(i)
  PROVE  Inv(c)'
<1> DEFINE d == [c EXCEPT !.s[i] = "active"]
<1>1. /\ c \in Conn /\ c.phase = "parse" /\ c.state < IS_CLOSING /\ c.s[i] = "stalled"
      /\ c.s \in [Streams -> StreamStates]
    BY DEF StreamWindowUpdate, Parsing, Inv, Core, Conn
<1>2. PICK room \in BufferWindow(c) : c' = resume_send(d, room)
    BY DEF StreamWindowUpdate
<1>3. /\ d \in Conn /\ d.phase = c.phase /\ d.state = c.state /\ d.buf = c.buf
      /\ d.s = [c.s EXCEPT ![i] = "active"]
      /\ d.flight = c.flight /\ d.notify = c.notify /\ d.reading = c.reading
      /\ d.write_timer = c.write_timer /\ d.idle_timer = c.idle_timer /\ d.window = c.window
      /\ d.cb = c.cb /\ d.initiated = c.initiated /\ d.fail = c.fail
    BY <1>1 DEF Conn, StreamStates
<1> HIDE DEF d
<1>4. ToProceed(d) = ToProceed(c) /\ room \in BufferWindow(d)
    BY <1>1, <1>2, <1>3 DEF ToProceed, In, BufferWindow
<1>5. /\ Core(d) /\ Held(d)
      /\ d.buf # 0 \/ ToProceed(d) # {} \/ ~d.reading => IsWriting(d) \/ d.write_timer
    BY <1>1, <1>3, <1>4 DEF Inv, Core, Waits, Held, Sched, IsWriting
<1> QED BY <1>1, <1>2, <1>3, <1>4, <1>5, ResumeInv

(* ConnectionError keeps the invariant. *)
LEMMA ConnectionErrorInv ==
  ASSUME Inv(c), ConnectionError
  PROVE  Inv(c)'
<1>1. Core(c) /\ c.phase = "parse" /\ c.state < IS_CLOSING
    BY DEF ConnectionError, Parsing, Inv
<1>2. Core(enqueue_goaway(c)) /\ enqueue_goaway(c).phase = "parse"
    BY <1>1, GoawayFacts
<1>3. Inv(close_connection(c)) /\ Inv(close_connection(enqueue_goaway(c)))
    BY <1>1, <1>2, CloseInv
<1> QED BY <1>3 DEF ConnectionError

(***************************************************************************)
(* Handlers.                                                               *)
(***************************************************************************)
(* Proceed keeps the invariant. *)
LEMMA ProceedInv ==
  ASSUME Inv(c), NEW i \in Streams, Proceed(i)
  PROVE  Inv(c)'
<1>1. c \in Conn /\ c.phase = "proceed" /\ (c.flight # 0 => c.idle_timer)
      /\ c.s \in [Streams -> StreamStates]
    BY DEF Proceed, Inv, Core, Conn
<1>2. CASE c.s[i] = "ended"
    BY <1>1, <1>2, StreamCloseMoved, MovedInv DEF Proceed
<1>3. CASE c.s[i] # "ended"
  <2>1. c' = [c EXCEPT !.s[i] = "body"]
      BY <1>3 DEF Proceed
  <2>2. /\ c' \in Conn /\ Frame(c, c') /\ c'.s = [c.s EXCEPT ![i] = "body"]
        /\ c'.buf = c.buf /\ c'.reading = c.reading
        /\ c'.write_timer = c.write_timer /\ c'.idle_timer = c.idle_timer
      BY <1>1, <2>1 DEF Conn, Frame, StreamStates
  <2>3. Moved(c, c')
      BY <1>1, <2>2 DEF Moved, Frame, ToProceed, Active, In
  <2> QED BY <1>1, <2>3, MovedInv
<1> QED BY <1>2, <1>3

(* e is d after a handler sent something on stream i. *)
Sent(d, e, i) ==
    /\ e \in Conn /\ Frame(d, e) /\ e.idle_timer = d.idle_timer
    /\ e.s[i] \notin {"none", "recv", "late"} /\ \A j \in Streams \ {i} : e.s[j] = d.s[j]
    /\ ~e.reading => ~d.reading \/ e.buf # 0 \/ e.flight # 0
    /\ e.s[i] \in {"flushed", "ended"} => e.buf # 0
    /\ d.buf # 0 => e.buf # 0
    /\ d.state < IS_CLOSING => (e.write_timer <=> d.write_timer \/ ~IsWriting(d))
    /\ d.state = IS_CLOSING => e.write_timer = d.write_timer

(* A handler may send at any time but in the middle of do_emit_writereq. *)
LEMMA SentInv ==
  ASSUME NEW d, NEW e, NEW i \in Streams, Inv(d), Sent(d, e, i), d.phase # "emit", d.state # FREED
  PROVE  Inv(e)
<1>1. d.state < IS_CLOSING \/ d.state = IS_CLOSING
    BY DEF Inv, Core, Conn
<1>2. Core(e) /\ Midway(e) /\ IdleOn(e) /\ Freed(e)
    BY <1>1 DEF Inv, Core, Midway, IdleOn, Freed, Sent, Frame, Quiet, IsWriting
<1>3. ToProceed(e) # {} => ToProceed(d) # {} \/ e.buf # 0
    BY DEF Sent, ToProceed, In
<1>4. Waits(e)
    BY <1>1, <1>3 DEF Inv, Waits, Sent, Frame, Held, Sched, IsWriting
<1> QED BY <1>2, <1>4 DEF Inv

(* request_write as a handler meets it: the connection may be closing. *)
LEMMA HandlerRequestFacts ==
  ASSUME NEW d \in Conn, d.state # FREED
  PROVE  LET e == request_write(d)
         IN /\ e \in Conn /\ Frame(d, e) /\ e.s = d.s /\ e.idle_timer = d.idle_timer
            /\ e.buf = d.buf
            /\ ~e.reading => ~d.reading \/ d.buf # 0 \/ d.flight # 0
            /\ d.state < IS_CLOSING => (e.write_timer <=> d.write_timer \/ ~IsWriting(d))
            /\ d.state = IS_CLOSING => e.write_timer = d.write_timer
<1>1. CASE d.state < IS_CLOSING
  <2> DEFINE e == request_write(d)
  <2>1. /\ e \in Conn /\ Frame(d, e) /\ e.s = d.s /\ e.idle_timer = d.idle_timer
        /\ e.buf = d.buf
        /\ e.reading <=> d.reading /\ d.buf + d.flight < SoftMax
        /\ e.write_timer <=> d.write_timer \/ ~IsWriting(d)
      BY <1>1, RequestFacts
  <2> HIDE DEF e
  <2>2. ~(d.buf + d.flight < SoftMax) => d.buf # 0 \/ d.flight # 0
      BY H2OutputAssumption DEF Conn
  <2> QED BY <1>1, <2>1, <2>2 DEF e
<1>2. CASE d.state = IS_CLOSING
    BY <1>2 DEF request_write, Frame
<1> QED BY <1>1, <1>2 DEF Conn

(* vhttp_http2_conn_register_for_proceed_callback, with something to send. *)
LEMMA SendDataSent ==
  ASSUME NEW d \in Conn, d.state # FREED, NEW i \in Streams,
         NEW final \in BOOLEAN, NEW window \in BOOLEAN
  PROVE  Sent(d, SendData(d, i, final, window), i)
<1> DEFINE b == request_write(d)
           x == IF window THEN "active" ELSE "stalled"
           fin == IF final THEN b.final \cup {i} ELSE b.final
           e == [b EXCEPT !.s[i] = x, !.final = fin]
<1>1. /\ b \in Conn /\ Frame(d, b) /\ b.s = d.s /\ b.idle_timer = d.idle_timer
      /\ b.buf = d.buf
      /\ ~b.reading => ~d.reading \/ d.buf # 0 \/ d.flight # 0
      /\ d.state < IS_CLOSING => (b.write_timer <=> d.write_timer \/ ~IsWriting(d))
      /\ d.state = IS_CLOSING => b.write_timer = d.write_timer
    BY HandlerRequestFacts
<1>2. SendData(d, i, final, window) = IF final THEN TouchList(e) ELSE e
    BY DEF SendData
<1> HIDE DEF b
<1>3. x \in StreamStates \ {"none", "recv", "late", "flushed", "ended"} /\ fin \in SUBSET Streams
      /\ b.s \in [Streams -> StreamStates]
    BY <1>1 DEF StreamStates, Conn
<1> HIDE DEF x, fin
<1>4. /\ e \in Conn /\ Frame(b, e) /\ e.s = [b.s EXCEPT ![i] = x] /\ e.idle_timer = b.idle_timer
      /\ e.buf = b.buf /\ e.reading = b.reading /\ e.write_timer = b.write_timer
    BY <1>1, <1>3 DEF Conn, Frame
<1> HIDE DEF e
<1>5. Sent(d, e, i)
    BY <1>1, <1>3, <1>4 DEF Sent, Frame
<1>6. TouchList(e) \in Conn /\ Same(e, TouchList(e))
    BY <1>4, TouchFacts
<1>7. Sent(d, TouchList(e), i)
    BY <1>5, <1>6 DEF Sent, Same, Frame
<1> QED BY <1>2, <1>5, <1>7

(* SendHeaders keeps the invariant. *)
LEMMA SendHeadersInv ==
  ASSUME Inv(c), NEW i \in Streams, SendHeaders(i)
  PROVE  Inv(c)'
<1> DEFINE b == request_write(Encode(c))
           d == TouchList(b)
           f == SetStream(d, i, "ended")
           g == [d EXCEPT !.s[i] = "flushed"]
<1>1. c \in Conn /\ c.phase # "emit" /\ c.state # FREED /\ c.s \in [Streams -> StreamStates]
    BY DEF SendHeaders, Calling, Inv, Core, Freed, Conn
<1>2. Written(c, b)
    BY <1>1, WriteFacts
<1>3. \/ c' = request_write(f)
      \/ c' = request_write(g)
      \/ \E final, window \in BOOLEAN : c' = SendData(d, i, final, window)
    BY DEF SendHeaders
<1> HIDE DEF b
<1>4. d \in Conn /\ Same(b, d)
    BY <1>2, TouchFacts DEF Written
<1> HIDE DEF d
<1>5. Written(c, d) /\ Inv(d) /\ d.phase # "emit" /\ d.state # FREED
  <2>1. Inv(b)
      BY <1>1, <1>2, WrittenInv
  <2>2. Inv(d)
      BY <1>4, <2>1, SameInv
  <2> QED BY <1>1, <1>2, <1>4, <2>2 DEF Written, Same, Frame
<1>6. CASE c' = request_write(f)
  <2>1. /\ f \in Conn /\ Frame(d, f) /\ f.s = [d.s EXCEPT ![i] = "ended"]
        /\ f.buf = d.buf /\ f.reading = d.reading
        /\ f.write_timer = d.write_timer /\ f.idle_timer = d.idle_timer
      BY <1>4, SetFacts DEF StreamStates
  <2> HIDE DEF f
  <2>2. Sent(d, c', i)
      BY <1>1, <1>4, <1>5, <1>6, <2>1, HandlerRequestFacts
      DEF Sent, Written, Frame, IsWriting
  <2> QED BY <1>5, <2>2, SentInv
<1>7. CASE c' = request_write(g)
  <2>1. /\ g \in Conn /\ Frame(d, g) /\ g.s = [d.s EXCEPT ![i] = "flushed"]
        /\ g.buf = d.buf /\ g.reading = d.reading
        /\ g.write_timer = d.write_timer /\ g.idle_timer = d.idle_timer
      BY <1>4 DEF Conn, Frame, StreamStates
  <2> HIDE DEF g
  <2>2. Sent(d, c', i)
      BY <1>1, <1>4, <1>5, <1>7, <2>1, HandlerRequestFacts
      DEF Sent, Written, Frame, IsWriting
  <2> QED BY <1>5, <2>2, SentInv
<1>8. CASE \E final, window \in BOOLEAN : c' = SendData(d, i, final, window)
  <2>1. PICK final \in BOOLEAN, window \in BOOLEAN : c' = SendData(d, i, final, window)
      BY <1>8
  <2>2. Sent(d, c', i)
      BY <1>4, <1>5, <2>1, SendDataSent
  <2> QED BY <1>5, <2>2, SentInv
<1> QED BY <1>3, <1>6, <1>7, <1>8

(* SendBody keeps the invariant. *)
LEMMA SendBodyInv ==
  ASSUME Inv(c), NEW i \in Streams, SendBody(i)
  PROVE  Inv(c)'
<1>1. c \in Conn /\ c.phase # "emit" /\ c.state # FREED
    BY DEF SendBody, Calling, Inv, Core, Freed
<1>2. PICK final \in BOOLEAN, window \in BOOLEAN : c' = SendData(c, i, final, window)
    BY DEF SendBody
<1>3. Sent(c, c', i)
    BY <1>1, <1>2, SendDataSent
<1> QED BY <1>1, <1>3, SentInv

(* SendInformational keeps the invariant. *)
LEMMA SendInformationalInv ==
  ASSUME Inv(c), NEW i \in Streams, SendInformational(i)
  PROVE  Inv(c)'
<1> DEFINE b == request_write(Encode(c))
<1>1. c \in Conn /\ c.phase # "emit" /\ c.state # FREED /\ c.s \in [Streams -> StreamStates]
    BY DEF SendInformational, Calling, Inv, Core, Freed, Conn
<1>2. Written(c, b)
    BY <1>1, WriteFacts
<1>3. c' = [b EXCEPT !.s[i] = "informed"]
    BY DEF SendInformational
<1> HIDE DEF b
<1>4. /\ c' \in Conn /\ Frame(b, c') /\ c'.s = [b.s EXCEPT ![i] = "informed"]
      /\ c'.buf = b.buf /\ c'.reading = b.reading
      /\ c'.write_timer = b.write_timer /\ c'.idle_timer = b.idle_timer
    BY <1>2, <1>3 DEF Written, Conn, Frame, StreamStates
<1>5. Sent(c, c', i)
    BY <1>1, <1>2, <1>4 DEF Sent, Written, Frame
<1> QED BY <1>1, <1>5, SentInv

(***************************************************************************)
(* Timers.                                                                 *)
(***************************************************************************)
(* OnIdleTimeout keeps the invariant. *)
LEMMA OnIdleTimeoutInv ==
  ASSUME Inv(c), OnIdleTimeout
  PROVE  Inv(c)'
<1> DEFINE d == [c EXCEPT !.idle_timer = FALSE]
<1>1. c \in Conn /\ c.phase = "loop" /\ c.state # FREED
    BY DEF OnIdleTimeout, Inv, Core, Freed
<1>2. /\ d \in Conn /\ d.phase = "loop" /\ d.state = c.state /\ d.flight = c.flight
      /\ d.notify = c.notify /\ d.write_timer = c.write_timer
      /\ d.cb = c.cb /\ d.initiated = c.initiated /\ d.fail = c.fail
    BY <1>1 DEF Conn
<1>3. CASE c.flight # 0
  <2>1. c' = close_connection_now(d)
      BY <1>3 DEF OnIdleTimeout
  <2>2. c' = close_connection_now(c)
      BY <2>1, <1>1 DEF close_connection_now, Check, Conn
  <2>3. Core(c) /\ ~c.write_timer
      BY <1>3 DEF Inv, Core, IsWriting
  <2> QED BY <2>2, <2>3, CloseNowInv
<1>4. CASE c.flight = 0
  <2>1. c' = close_connection(enqueue_goaway(d))
      BY <1>4 DEF OnIdleTimeout
  <2> HIDE DEF d
  <2>2. Core(d)
      BY <1>2, <1>4 DEF Inv, Core, IsWriting
  <2>3. Core(enqueue_goaway(d)) /\ enqueue_goaway(d).phase = "loop"
    <3>1. CASE d.state < IS_CLOSING
        BY <1>2, <2>2, <3>1, GoawayFacts
    <3>2. CASE ~(d.state < IS_CLOSING)
        BY <1>2, <2>2, <3>2 DEF enqueue_goaway
    <3> QED BY <3>1, <3>2
  <2>4. Inv(close_connection(enqueue_goaway(d)))
      BY <2>3, CloseInv
  <2> QED BY <2>1, <2>4
<1> QED BY <1>3, <1>4

(* initiate_graceful_shutdown, also when it was called before. *)
LEMMA InitiateInv ==
  ASSUME NEW d, Inv(d), d.phase = "loop", d.state # FREED, d.initiated < MaxInitiates
  PROVE  LET e == initiate_graceful_shutdown(d)
         IN Inv(e) /\ e.state # FREED
<1> DEFINE k == Check(d, d.cb = "NULL", "graceful")
           e == [k EXCEPT !.list = "shutdown", !.cb = "resend_goaway", !.initiated = @ + 1]
           f == IF d.state < HALF_CLOSED THEN request_write(Encode(e)) ELSE e
           g == [f EXCEPT !.graceful_timer = TRUE]
<1>1. initiate_graceful_shutdown(d) = g
    BY DEF initiate_graceful_shutdown
<1>2. d \in Conn /\ d.initiated + 1 \in 1 .. MaxInitiates
    BY H2OutputAssumption DEF Inv, Core, Conn
<1>3. /\ k \in Conn /\ k.state = d.state /\ k.window = d.window /\ k.flight = d.flight
      /\ k.notify = d.notify /\ k.s = d.s /\ k.buf = d.buf /\ k.reading = d.reading
      /\ k.write_timer = d.write_timer /\ k.idle_timer = d.idle_timer /\ k.phase = d.phase
      /\ k.graceful_timer = d.graceful_timer /\ k.initiated = d.initiated
      /\ k.fail \subseteq d.fail \cup {"graceful"} /\ (d.cb = "NULL" => k.fail = d.fail)
  <2>1. CASE d.cb = "NULL"
      BY <1>2, <2>1 DEF Check
  <2>2. CASE d.cb # "NULL"
      BY <1>2, <2>2 DEF Check, Conn
  <2> QED BY <2>1, <2>2
<1> HIDE DEF k
<1>4. /\ e \in Conn /\ e.state = k.state /\ e.window = k.window /\ e.flight = k.flight
      /\ e.notify = k.notify /\ e.s = k.s /\ e.buf = k.buf /\ e.reading = k.reading
      /\ e.write_timer = k.write_timer /\ e.idle_timer = k.idle_timer /\ e.phase = k.phase
      /\ e.graceful_timer = k.graceful_timer /\ e.initiated = d.initiated + 1 /\ e.fail = k.fail
  <2> DEFINE n == d.initiated + 1
             h == [k EXCEPT !.list = "shutdown", !.cb = "resend_goaway", !.initiated = n]
  <2>1. e = h /\ n \in 0 .. MaxInitiates
      BY <1>2, <1>3 DEF Conn
  <2> HIDE DEF n
  <2>2. h \in Conn
      BY <1>3, <2>1 DEF Conn
  <2>3. /\ h.state = k.state /\ h.window = k.window /\ h.flight = k.flight
        /\ h.notify = k.notify /\ h.s = k.s /\ h.buf = k.buf /\ h.reading = k.reading
        /\ h.write_timer = k.write_timer /\ h.idle_timer = k.idle_timer /\ h.phase = k.phase
        /\ h.graceful_timer = k.graceful_timer /\ h.initiated = n /\ h.fail = k.fail
      BY <1>3 DEF Conn
  <2> HIDE DEF h, e
  <2> QED BY <2>1, <2>2, <2>3 DEF n
<1> HIDE DEF e
<1>5. Inv(e) /\ e.phase = "loop" /\ e.state # FREED
  <2>1. Core(e)
    <3>1. d.initiated \in Nat /\ (k.fail # {} => d.initiated >= 1)
        BY <1>2, <1>3 DEF Inv, Core, Conn
    <3> QED BY <1>2, <1>3, <1>4, <3>1 DEF Inv, Core, IsWriting
  <2>2. Midway(e) /\ Waits(e) /\ IdleOn(e) /\ Freed(e)
      BY <1>3, <1>4 DEF Inv, Midway, Waits, IdleOn, Freed, Held, Sched, Quiet,
                        ToProceed, Active, In, IsWriting
  <2> QED BY <1>3, <1>4, <2>1, <2>2 DEF Inv
<1>6. Inv(f) /\ f.state # FREED
  <2>1. CASE d.state < HALF_CLOSED
      BY <1>4, <1>5, <2>1, WriteFacts, WrittenInv DEF Written, Frame
  <2>2. CASE ~(d.state < HALF_CLOSED)
      BY <1>5, <2>2
  <2> QED BY <2>1, <2>2
<1> HIDE DEF f
<1>7. /\ g \in Conn /\ g.state = f.state /\ g.window = f.window /\ g.flight = f.flight
      /\ g.notify = f.notify /\ g.s = f.s /\ g.buf = f.buf /\ g.reading = f.reading
      /\ g.write_timer = f.write_timer /\ g.idle_timer = f.idle_timer /\ g.phase = f.phase
      /\ g.cb = f.cb /\ g.initiated = f.initiated /\ g.fail = f.fail
    BY <1>6 DEF Inv, Core, Conn
<1> HIDE DEF g
<1>8. Inv(g)
    BY <1>6, <1>7 DEF Inv, Core, Midway, Waits, IdleOn, Freed, Held, Sched, Quiet,
                      ToProceed, Active, In, IsWriting
<1> QED BY <1>1, <1>6, <1>7, <1>8

(* Both callers of it. *)
LEMMA ShutdownInv ==
  ASSUME Inv(c), RequestShutdown \/ CloseIdleConnection
  PROVE  Inv(c)'
<1> DEFINE e == initiate_graceful_shutdown(c)
<1>1. Inv(e)
    BY InitiateInv DEF RequestShutdown, CloseIdleConnection
<1>2. c' = e \/ c' = [e EXCEPT !.shutdown = TRUE]
    BY DEF RequestShutdown, CloseIdleConnection
<1> HIDE DEF e
<1>3. [e EXCEPT !.shutdown = TRUE] \in Conn /\ Same(e, [e EXCEPT !.shutdown = TRUE])
    BY <1>1 DEF Inv, Core, Conn, Same, Frame
<1> QED BY <1>1, <1>2, <1>3, SameInv

(* The timer of the graceful shutdown has fired. *)
LEMMA GracefulTimerOff ==
  ASSUME Inv(c), c.phase = "loop", c.graceful_timer
  PROVE  LET d == [c EXCEPT !.graceful_timer = FALSE]
         IN Inv(d) /\ d.phase = "loop" /\ d.state # FREED /\ d.cb = c.cb
<1> DEFINE d == [c EXCEPT !.graceful_timer = FALSE]
<1>1. /\ d \in Conn /\ d.state = c.state /\ d.window = c.window /\ d.flight = c.flight
      /\ d.notify = c.notify /\ d.s = c.s /\ d.buf = c.buf /\ d.reading = c.reading
      /\ d.write_timer = c.write_timer /\ d.idle_timer = c.idle_timer /\ d.phase = c.phase
      /\ d.cb = c.cb /\ d.initiated = c.initiated /\ d.fail = c.fail
    BY DEF Inv, Core, Conn
<1> HIDE DEF d
<1>2. Inv(d) /\ d.phase = "loop" /\ d.state # FREED /\ d.cb = c.cb
    BY <1>1 DEF Inv, Core, Midway, Waits, IdleOn, Freed, Held, Sched, Quiet,
                ToProceed, Active, In, IsWriting
<1> QED BY <1>2 DEF d

(* ResendGoaway keeps the invariant. *)
LEMMA ResendGoawayInv ==
  ASSUME Inv(c), ResendGoaway
  PROVE  Inv(c)'
<1> DEFINE d == [c EXCEPT !.graceful_timer = FALSE]
           e == enqueue_goaway(d)
           f == [e EXCEPT !.cb = "close_straggler", !.graceful_timer = TRUE]
<1>1. Inv(d) /\ d.phase = "loop" /\ d.state # FREED /\ d.cb # "NULL"
    BY GracefulTimerOff DEF ResendGoaway
<1>2. c' \in {d, e, f} /\ (c' = f => d.state < HALF_CLOSED)
  <2>1. d.state = c.state
      BY DEF Inv, Core, Conn
  <2> QED BY <2>1 DEF ResendGoaway, Inv, Core, Conn
<1> HIDE DEF d
<1>3. Inv(e)
    BY <1>1, GoawayInv
<1>4. CASE d.state < HALF_CLOSED
  <2>1. e.state # FREED /\ e.initiated >= 1
    <3>1. Core(d) /\ d.initiated >= 1 /\ d.state < IS_CLOSING
        BY <1>1, <1>4 DEF Inv, Core, Conn
    <3> QED BY <3>1, GoawayFacts
  <2> HIDE DEF e
  <2>2. /\ f \in Conn /\ f.state = e.state /\ f.window = e.window /\ f.flight = e.flight
        /\ f.notify = e.notify /\ f.s = e.s /\ f.buf = e.buf /\ f.reading = e.reading
        /\ f.write_timer = e.write_timer /\ f.idle_timer = e.idle_timer /\ f.phase = e.phase
        /\ f.initiated = e.initiated /\ f.fail = e.fail
      BY <1>3 DEF Inv, Core, Conn
  <2> HIDE DEF f
  <2>3. Inv(f)
      BY <1>3, <2>1, <2>2 DEF Inv, Core, Midway, Waits, IdleOn, Freed, Held, Sched, Quiet,
                ToProceed, Active, In, IsWriting
  <2> QED BY <1>1, <1>2, <1>3, <2>3
<1> QED BY <1>1, <1>2, <1>3, <1>4

(* CloseStraggler keeps the invariant. *)
LEMMA CloseStragglerInv ==
  ASSUME Inv(c), CloseStraggler
  PROVE  Inv(c)'
<1> DEFINE d == [c EXCEPT !.graceful_timer = FALSE]
<1>1. Core(d) /\ d.phase = "loop"
    BY GracefulTimerOff DEF CloseStraggler, Inv
<1> HIDE DEF d
<1>2. Inv(close_connection(d))
    BY <1>1, CloseInv
<1> QED BY <1>2 DEF CloseStraggler, d

(***************************************************************************)
(* The theorems.                                                           *)
(***************************************************************************)
(* A connection that was just accepted. *)
LEMMA InitInv == Init => Inv(c)
<1> SUFFICES ASSUME Init PROVE Inv(c)
    OBVIOUS
<1> DEFINE none == [i \in Streams |-> "none"]
<1>1. /\ none \in [Streams -> StreamStates] /\ {} \subseteq Streams
      /\ 0 \in 0 .. SoftMax /\ 0 \in 0 .. MaxInitiates /\ OPEN \in OPEN .. FREED
      /\ \A i \in Streams : none[i] = "none"
    BY H2OutputAssumption DEF StreamStates
<1>2. /\ c.state = OPEN /\ c.s = none /\ c.final = {} /\ c.buf = 0 /\ c.flight = 0
      /\ c.window = TRUE /\ c.write_timer = FALSE /\ c.notify = FALSE /\ c.idle_timer = TRUE
      /\ c.reading = TRUE /\ c.cb = "NULL" /\ c.phase = "loop" /\ c.fail = {}
    BY DEF Init
<1>3. c \in Conn
    BY <1>1 DEF Init, Conn
<1> HIDE DEF none
<1> QED BY <1>1, <1>2, <1>3 DEF Inv, Core, Midway, Waits, IdleOn, Freed, Held, Sched, Quiet,
                                ToProceed, Active, In, IsWriting

(* Every step keeps the invariant. *)
LEMMA NextInv == Inv(c) /\ [Next]_c => Inv(c)'
<1> SUFFICES ASSUME Inv(c), [Next]_c PROVE Inv(c)'
    OBVIOUS
<1>1. CASE UNCHANGED c
    BY <1>1
<1>2. CASE OnRead \/ OnReadError \/ OnReadRest
    BY <1>2, OnReadInv, OnReadErrorInv, OnReadRestInv
<1>3. CASE OnNotifyWrite \/ OnWriteError \/ OnWriteComplete \/ OnWriteCompleteRest \/ EmitRest
    BY <1>3, OnNotifyWriteInv, OnWriteErrorInv, OnWriteCompleteInv, OnWriteCompleteRestInv,
       EmitRestInv
<1>4. CASE Preface \/ Answered \/ Settings \/ WindowUpdate \/ ConnectionError
    BY <1>4, PrefaceInv, AnsweredInv, SettingsInv, WindowUpdateInv, ConnectionErrorInv
<1>5. CASE EmitWritereq \/ OnIdleTimeout
    BY <1>5, EmitWritereqInv, OnIdleTimeoutInv
<1>6. CASE RequestShutdown \/ CloseIdleConnection \/ ResendGoaway \/ CloseStraggler
    BY <1>6, ShutdownInv, ResendGoawayInv, CloseStragglerInv
<1>7. ASSUME NEW i \in Streams,
             \/ EmitStream(i) \/ Proceed(i) \/ Headers(i) \/ BodyChunk(i) \/ EndOfBody(i)
             \/ StreamWindowUpdate(i) \/ RstStream(i) \/ StreamError(i)
             \/ SendHeaders(i) \/ SendBody(i) \/ SendInformational(i)
      PROVE  Inv(c)'
    BY <1>7, EmitStreamInv, ProceedInv, HeadersInv, BodyChunkInv, EndOfBodyInv, StreamWindowUpdateInv,
       RstStreamInv, StreamErrorInv, SendHeadersInv, SendBodyInv, SendInformationalInv
<1> QED BY <1>1, <1>2, <1>3, <1>4, <1>5, <1>6, <1>7 DEF Next

(* Whatever the number of streams and the size of the buffer: nothing that   *)
(* waits for the output side of a connection is forgotten; a write is        *)
(* subject to the write timeout, and a connection to the idle timeout while  *)
(* nothing but headers was received of the requests it has.                  *)
THEOREM OutputCorrect == Spec => []OutputInv
<1>1. Inv(c) => OutputInv
  <2> SUFFICES ASSUME Inv(c) PROVE OutputInv
      OBVIOUS
  <2>1. TypeOK /\ OutputScheduled
      BY DEF Inv, Core, Waits, Sched, TypeOK, OutputScheduled
  <2>2. IdleTimeoutOn
    <3>1. c.s \in [Streams -> StreamStates]
        BY DEF Inv, Core, Conn
    <3> QED BY <3>1 DEF Inv, Core, IdleOn, IdleTimeoutOn, Quiet, In
  <2> QED BY <2>1, <2>2 DEF OutputInv
<1> QED BY <1>1, InitInv, NextInv, PTL DEF Spec

(* The assertions of connection.c hold as long as a shutdown of the          *)
(* connection is initiated at most once.                                     *)
THEOREM AssertionsOnce ==
  ASSUME MaxInitiates <= 1
  PROVE  Spec => []AssertionsHold
<1>1. Inv(c) => AssertionsHold
    BY H2OutputAssumption DEF Inv, Core, Conn, AssertionsHold
<1> QED BY <1>1, InitInv, NextInv, PTL DEF Spec

-----------------------------------------------------------------------------
(* Arithmetic *)

LEMMA DivisionBound ==
    ASSUME NEW a \in Nat, NEW b \in Nat \ {0}
    PROVE  /\ a \div b \in Nat
           /\ b * (a \div b) <= a
           /\ a < b * (a \div b) + b
           /\ a % b \in 0 .. b - 1
OBVIOUS

LEMMA ProductMono ==
    ASSUME NEW m \in Nat, NEW w \in Nat \ {0}
    PROVE  m <= w * m
OBVIOUS

(* A sum of two positions wraps around the ring at most once. *)
LEMMA RingSum ==
    ASSUME NEW o \in Ring, NEW k \in Ring
    PROVE  /\ (o + k) % Slots \in Ring
           /\ (o + k) % Slots = IF o + k < Slots THEN o + k ELSE o + k - Slots
<1>1. o \in Nat /\ k \in Nat /\ o < Slots /\ k < Slots /\ Slots \in Nat \ {0}
    BY DrrAssumption DEF Ring
<1>2. (o + k) % Slots = IF o + k < Slots THEN o + k ELSE o + k - Slots
    BY <1>1, Z3
<1> QED
    BY <1>1, <1>2 DEF Ring

(* From a position, every position is at exactly one distance. *)
LEMMA RingOnto ==
    ASSUME NEW o \in Ring, NEW p \in Ring
    PROVE  \E k \in Ring : (o + k) % Slots = p
<1> DEFINE k == IF o <= p THEN p - o ELSE p - o + Slots
<1>1. o \in Nat /\ p \in Nat /\ o < Slots /\ p < Slots /\ Slots \in Nat \ {0}
    BY DrrAssumption DEF Ring
<1>2. k \in Ring
    BY <1>1 DEF Ring
<1>3. (o + k) % Slots = IF o + k < Slots THEN o + k ELSE o + k - Slots
    BY <1>2, RingSum
<1>4. (o + k) % Slots = p
    BY <1>1, <1>3
<1> QED
    BY <1>2, <1>4

LEMMA RingInjective ==
    ASSUME NEW o \in Ring, NEW k \in Ring, NEW j \in Ring,
           (o + k) % Slots = (o + j) % Slots
    PROVE  k = j
<1>1. o \in Nat /\ k \in Nat /\ j \in Nat /\ o < Slots /\ k < Slots /\ j < Slots
      /\ Slots \in Nat \ {0}
    BY DrrAssumption DEF Ring
<1>2. (o + k) % Slots = IF o + k < Slots THEN o + k ELSE o + k - Slots
    BY RingSum
<1>3. (o + j) % Slots = IF o + j < Slots THEN o + j ELSE o + j - Slots
    BY RingSum
<1> QED
    BY <1>1, <1>2, <1>3

(* Turning the ring by k brings what was at distance d >= k to d - k, and   *)
(* what was nearer than k to the end of the ring.                          *)
LEMMA RingTurn ==
    ASSUME NEW o \in Ring, NEW k \in Ring, NEW b \in Ring,
           NEW d \in Ring, d = IF k + b < Slots THEN k + b ELSE k + b - Slots
    PROVE  (((o + k) % Slots) + b) % Slots = (o + d) % Slots
<1> DEFINE q == (o + k) % Slots
<1>1. o \in Nat /\ k \in Nat /\ b \in Nat /\ d \in Nat /\ o < Slots /\ k < Slots
      /\ b < Slots /\ d < Slots /\ Slots \in Nat \ {0}
    BY DrrAssumption DEF Ring
<1>2. q \in Ring /\ q = IF o + k < Slots THEN o + k ELSE o + k - Slots
    BY RingSum
<1>3. q \in Nat
    BY <1>2, DrrAssumption DEF Ring
<1> HIDE DEF q
<1>4. (q + b) % Slots = IF q + b < Slots THEN q + b ELSE q + b - Slots
    BY <1>2, RingSum
<1>5. (o + d) % Slots = IF o + d < Slots THEN o + d ELSE o + d - Slots
    BY RingSum
<1>6. (q + b) % Slots = (o + d) % Slots
    BY <1>1, <1>2, <1>3, <1>4, <1>5
<1> QED
    BY <1>6 DEF q

(* A weight of the ring and any deficit give a distance within the ring:    *)
(* the shift of queue->bits is never by 64 or more.                        *)
LEMMA DistanceInRing ==
    ASSUME NEW w \in Nat \ {0}, NEW d \in 0 .. Unit - 1
    PROVE  /\ (OffsetTable(w) + d) \div Unit \in Ring
           /\ (OffsetTable(w) + d) % Unit \in 0 .. Unit - 1
<1> DEFINE M == (Slots - 1) * Unit
           t == OffsetTable(w)
<1>1. Slots - 1 \in Nat /\ Unit \in Nat \ {0} /\ Slots \in Nat /\ d \in Nat /\ d < Unit
    BY DrrAssumption
<1>2. M \in Nat
    BY <1>1
<1>3. /\ 2 * w \in Nat \ {0} /\ 2 * M + w \in Nat
    BY <1>2
<1>4. t = (2 * M + w) \div (2 * w)
    <2>1. 2 * (Slots - 1) * Unit = 2 * M
        BY <1>1
    <2> QED
        BY <2>1 DEF OffsetTable
<1> HIDE DEF M, t
<1>5. t \in Nat /\ (2 * w) * t <= 2 * M + w
    BY <1>3, <1>4, DivisionBound
<1>6. t <= M
    <2>1. SUFFICES ASSUME t >= M + 1 PROVE FALSE
        BY <1>5, <1>2
    <2>2. (2 * w) * (M + 1) <= (2 * w) * t
        <3>1. t - (M + 1) \in Nat
            BY <2>1, <1>2, <1>5
        <3>2. (2 * w) * (t - (M + 1)) >= 0
            BY <3>1, <1>3
        <3> QED
            BY <3>2, <1>2, <1>3, <1>5
    <2>3. (2 * w) * (M + 1) = 2 * (w * M) + 2 * w
        BY <1>2
    <2>4. M <= w * M /\ w * M \in Nat
        BY <1>2, ProductMono
    <2> QED
        BY <2>2, <2>3, <2>4, <1>2, <1>5
<1>7. t + d \in Nat
    BY <1>1, <1>5
<1>8. /\ (t + d) \div Unit \in Nat /\ Unit * ((t + d) \div Unit) <= t + d
      /\ (t + d) % Unit \in 0 .. Unit - 1
    BY <1>1, <1>7, DivisionBound
<1>9. (t + d) \div Unit < Slots
    <2> DEFINE q == (t + d) \div Unit
    <2> HIDE DEF q
    <2>0. q \in Nat /\ Unit * q <= t + d
        BY <1>8 DEF q
    <2>1. SUFFICES ASSUME q >= Slots PROVE FALSE
        BY <2>0, <1>1 DEF q
    <2>2. q - Slots \in Nat
        BY <2>0, <2>1, <1>1
    <2>3. Unit * (q - Slots) >= 0
        BY <2>2, <1>1
    <2>4. Unit * q >= Unit * Slots
        BY <2>3, <2>0, <1>1
    <2>5. Unit * Slots = M + Unit
        BY <1>1 DEF M
    <2> QED
        BY <2>0, <2>4, <2>5, <1>1, <1>2, <1>5, <1>6
<1> QED
    BY <1>1, <1>8, <1>9 DEF Ring, t

-----------------------------------------------------------------------------
(* Sequences *)

(* Unlinking the i-th element leaves a list of the same nodes, and an empty *)
(* list has nothing to unlink.                                             *)
LEMMA UnlinkedList ==
    ASSUME NEW s \in Seq(Items), NEW i \in 1 .. Len(s)
    PROVE  RemoveAtIndex(s, i) \in Seq(Items) /\ s # <<>>
<1>1. Len(s) \in Nat /\ i \in Int /\ \A j \in 1 .. Len(s) : s[j] \in Items
    OBVIOUS
<1>2. SubSeq(s, 1, i - 1) \in Seq(Items)
    <2>1. \A j \in 1 .. i - 1 : s[j] \in Items
        BY <1>1
    <2> QED
        BY <1>1, <2>1, SubSeqProperties
<1>3. SubSeq(s, i + 1, Len(s)) \in Seq(Items)
    <2>1. \A j \in i + 1 .. Len(s) : s[j] \in Items
        BY <1>1
    <2> QED
        BY <1>1, <2>1, SubSeqProperties
<1>4. s # <<>>
    BY <1>1
<1> QED
    BY <1>2, <1>3, <1>4, ConcatProperties DEF RemoveAtIndex

-----------------------------------------------------------------------------
(* The bitmap *)

QueueInv == QueueTypeOK /\ BitsCover

LEMMA QueueInit == queue_init => QueueInv
<1> SUFFICES ASSUME queue_init PROVE QueueInv
    OBVIOUS
<1>1. 0 \in Ring
    BY DrrAssumption DEF Ring
<1>2. QueueTypeOK
    BY <1>1, DrrAssumption DEF queue_init, QueueTypeOK
<1>3. ASSUME NEW k \in Ring PROVE anchors[Slot(k)] = <<>>
    <2>1. Slot(k) \in Ring
        BY <1>2, RingSum DEF Slot, QueueTypeOK
    <2> QED
        BY <2>1 DEF queue_init
<1> QED
    BY <1>2, <1>3 DEF QueueInv, BitsCover

LEMMA SetInRingInv ==
    ASSUME QueueInv, NEW n \in Items, NEW w \in Weights, w <= MaxWeight,
           SetInRing(n, w)
    PROVE  QueueInv'
<1> DEFINE total == OffsetTable(w) + deficit[n]
           dist  == total \div Unit
<1>1. w \in Nat \ {0} /\ deficit[n] \in 0 .. Unit - 1
    BY DrrAssumption DEF QueueInv, QueueTypeOK
<1>2. dist \in Ring /\ total % Unit \in 0 .. Unit - 1
    BY <1>1, DistanceInRing
<1>3. /\ deficit' = [deficit EXCEPT ![n] = total % Unit]
      /\ bits' = bits \cup {dist}
      /\ anchors' = [anchors EXCEPT ![Slot(dist)] = Append(@, n)]
      /\ UNCHANGED <<offset, anchor257, popped>>
    BY DEF SetInRing
<1> HIDE DEF total, dist
<1>4. Slot(dist) \in Ring
    BY <1>2, RingSum DEF Slot, QueueInv, QueueTypeOK
<1>5. Append(anchors[Slot(dist)], n) \in Seq(Items)
    BY <1>4, AppendProperties DEF QueueInv, QueueTypeOK
<1>6. QueueTypeOK'
    BY <1>2, <1>3, <1>4, <1>5 DEF QueueInv, QueueTypeOK
<1>7. ASSUME NEW k \in Ring, anchors'[Slot(k)'] # <<>>
      PROVE  k \in bits'
    <2>1. Slot(k)' = Slot(k) /\ Slot(k) \in Ring
        BY <1>3, RingSum DEF Slot, QueueInv, QueueTypeOK
    <2>2. CASE Slot(k) = Slot(dist)
        BY <1>2, <1>3, <2>2, RingInjective DEF Slot, QueueInv, QueueTypeOK
    <2>3. CASE Slot(k) # Slot(dist)
        <3>1. anchors'[Slot(k)] = anchors[Slot(k)]
            BY <1>3, <2>1, <2>3 DEF QueueInv, QueueTypeOK
        <3> QED
            BY <1>3, <1>7, <2>1, <3>1 DEF QueueInv, BitsCover
    <2> QED
        BY <2>2, <2>3
<1> QED
    BY <1>6, <1>7 DEF QueueInv, BitsCover

LEMMA UnsetInRingInv ==
    ASSUME QueueInv, NEW n \in Items, UnsetInRing(n)
    PROVE  QueueInv'
<1>0. PICK a \in Ring : \E i \in 1 .. Len(anchors[a]) :
        /\ anchors' = [anchors EXCEPT ![a] = RemoveAtIndex(@, i)]
        /\ UNCHANGED <<bits, offset, anchor257, deficit, popped>>
    BY DEF UnsetInRing
<1>1. PICK i \in 1 .. Len(anchors[a]) :
        /\ anchors' = [anchors EXCEPT ![a] = RemoveAtIndex(@, i)]
        /\ UNCHANGED <<bits, offset, anchor257, deficit, popped>>
    BY <1>0
<1>2. anchors[a] \in Seq(Items)
    BY DEF QueueInv, QueueTypeOK
<1>3. RemoveAtIndex(anchors[a], i) \in Seq(Items) /\ anchors[a] # <<>>
    BY <1>2, UnlinkedList
<1>4. QueueTypeOK'
    BY <1>1, <1>3 DEF QueueInv, QueueTypeOK
<1>5. ASSUME NEW k \in Ring, anchors'[Slot(k)'] # <<>>
      PROVE  k \in bits'
    <2>1. Slot(k)' = Slot(k) /\ Slot(k) \in Ring
        BY <1>1, RingSum DEF Slot, QueueInv, QueueTypeOK
    <2>2. anchors[Slot(k)] # <<>>
        BY <1>1, <1>3, <1>5, <2>1 DEF QueueInv, QueueTypeOK
    <2> QED
        BY <1>1, <2>2 DEF QueueInv, BitsCover
<1> QED
    BY <1>4, <1>5 DEF QueueInv, BitsCover

(* The ring turns to the nearest anchor with a node: what was at a distance *)
(* d is at d - k, and nothing was nearer than k.                           *)
LEMMA PopRingInv ==
    ASSUME QueueInv, PopRing
    PROVE  QueueInv'
<1>1. PICK k \in Served :
        /\ \A j \in Served : k <= j
        /\ popped' = Head(anchors[Slot(k)])
        /\ anchors' = [anchors EXCEPT ![Slot(k)] = Tail(@)]
        /\ offset' = Slot(k)
        /\ bits' = {b \in Ring : /\ b + k \in bits
                                 /\ b = 0 => Len(anchors[Slot(k)]) > 1}
    BY DEF PopRing
<1>2. UNCHANGED <<anchor257, deficit>>
    BY DEF PopRing
<1>3. k \in Ring /\ k \in bits /\ anchors[Slot(k)] # <<>> /\ offset \in Ring
    BY DEF Served, QueueInv, QueueTypeOK
<1>4. Slot(k) \in Ring
    BY <1>3, RingSum DEF Slot
<1>5. anchors[Slot(k)] \in Seq(Items)
    BY <1>4 DEF QueueInv, QueueTypeOK
<1>6. /\ Head(anchors[Slot(k)]) \in Items
      /\ Tail(anchors[Slot(k)]) \in Seq(Items)
      /\ Len(Tail(anchors[Slot(k)])) = Len(anchors[Slot(k)]) - 1
    BY <1>3, <1>5, HeadTailProperties
<1>7. QueueTypeOK'
    BY <1>1, <1>2, <1>4, <1>6 DEF QueueInv, QueueTypeOK
<1>8. ASSUME NEW b \in Ring, anchors'[Slot(b)'] # <<>>
      PROVE  b \in bits'
    <2> DEFINE d == IF k + b < Slots THEN k + b ELSE k + b - Slots
    <2>1. /\ k \in Nat /\ b \in Nat /\ k < Slots /\ b < Slots
          /\ Slots \in Nat \ {0} /\ d \in Ring
        BY <1>3, DrrAssumption DEF Ring
    <2>2. Slot(b)' = Slot(d)
        <3>1. d = IF k + b < Slots THEN k + b ELSE k + b - Slots
            OBVIOUS
        <3> HIDE DEF d
        <3>2. \A o, x, y, z \in Ring :
                 z = (IF x + y < Slots THEN x + y ELSE x + y - Slots)
                 => (((o + x) % Slots) + y) % Slots = (o + z) % Slots
            BY RingTurn
        <3>3. offset \in Ring /\ k \in Ring /\ b \in Ring /\ d \in Ring
            BY <1>3, <2>1
        <3>4. (((offset + k) % Slots) + b) % Slots = (offset + d) % Slots
            BY <3>1, <3>2, <3>3
        <3> QED
            BY <1>1, <3>4 DEF Slot
    <2>3. Slot(d) \in Ring
        BY <1>3, <2>1, RingSum DEF Slot
    <2>4. anchors[Slot(d)] # <<>>
        BY <1>1, <1>3, <1>8, <2>2, <2>3 DEF QueueInv, QueueTypeOK
    <2>5. d \in bits /\ d \in Served
        BY <2>1, <2>4 DEF QueueInv, BitsCover, Served
    <2>6. k <= d
        BY <1>1, <2>5
    <2>7. d = k + b
        BY <2>1, <2>6
    <2>8. ASSUME b = 0 PROVE Len(anchors[Slot(k)]) > 1
        <3>1. Slot(d) = Slot(k)
            BY <2>1, <2>7, <2>8
        <3>2. Tail(anchors[Slot(k)]) # <<>>
            BY <1>1, <1>4, <1>8, <2>2, <3>1 DEF QueueInv, QueueTypeOK
        <3>3. Len(Tail(anchors[Slot(k)])) # 0
            BY <1>6, <3>2, EmptySeq
        <3>4. Len(Tail(anchors[Slot(k)])) \in Nat /\ Len(anchors[Slot(k)]) \in Nat
            BY <1>5, <1>6, LenProperties
        <3>5. \A x, y \in Nat : x = y - 1 /\ x # 0 => y > 1
            OBVIOUS
        <3> QED
            BY <1>6, <3>3, <3>4, <3>5, Zenon
    <2> QED
        BY <1>1, <2>1, <2>5, <2>7, <2>8
<1> QED
    BY <1>7, <1>8 DEF QueueInv, BitsCover

(* When every bit is stale, every anchor is empty. *)
LEMMA PopNullEmpty ==
    ASSUME QueueInv, Served = {}
    PROVE  \A a \in Ring : anchors[a] = <<>>
<1> SUFFICES ASSUME NEW a \in Ring PROVE anchors[a] = <<>>
    OBVIOUS
<1>1. PICK k \in Ring : Slot(k) = a
    BY RingOnto DEF Slot, QueueInv, QueueTypeOK
<1> QED
    BY <1>1 DEF QueueInv, BitsCover, Served

LEMMA PopNullInv ==
    ASSUME QueueInv, PopNull
    PROVE  QueueInv'
<1>1. \A a \in Ring : anchors'[a] = <<>>
    BY PopNullEmpty DEF PopNull
<1>2. offset' \in Ring
    <2>1. CASE bits = {}
        BY <2>1 DEF PopNull, QueueInv, QueueTypeOK
    <2>2. CASE bits # {}
        <3>1. PICK k \in bits : offset' = Slot(k)
            BY <2>2 DEF PopNull
        <3> QED
            BY <3>1, RingSum DEF Slot, QueueInv, QueueTypeOK
    <2> QED
        BY <2>1, <2>2
<1>3. QueueTypeOK'
    BY <1>2 DEF PopNull, QueueInv, QueueTypeOK
<1>4. ASSUME NEW k \in Ring PROVE anchors'[Slot(k)'] = <<>>
    <2>1. Slot(k)' \in Ring
        BY <1>2, RingSum DEF Slot
    <2> QED
        BY <1>1, <2>1
<1> QED
    BY <1>3, <1>4 DEF QueueInv, BitsCover

LEMMA OtherStepsInv ==
    ASSUME QueueInv,
           \/ \E n \in Items : SetFirst(n) \/ UnsetFirst(n)
           \/ PopFirst
           \/ UNCHANGED vars
    PROVE  QueueInv'
<1>1. /\ bits' = bits /\ offset' = offset /\ anchors' = anchors /\ deficit' = deficit
    BY DEF SetFirst, UnsetFirst, PopFirst, vars
<1>2. anchor257' \in Seq(Items) /\ popped' \in Items \cup {None}
    <2>1. ASSUME NEW n \in Items, SetFirst(n)
          PROVE  anchor257' \in Seq(Items) /\ popped' \in Items \cup {None}
        BY <2>1, AppendProperties DEF SetFirst, QueueInv, QueueTypeOK
    <2>2. ASSUME NEW n \in Items, UnsetFirst(n)
          PROVE  anchor257' \in Seq(Items) /\ popped' \in Items \cup {None}
        BY <2>2, UnlinkedList DEF UnsetFirst, QueueInv, QueueTypeOK
    <2>3. ASSUME PopFirst
          PROVE  anchor257' \in Seq(Items) /\ popped' \in Items \cup {None}
        BY <2>3, HeadTailProperties DEF PopFirst, QueueInv, QueueTypeOK
    <2>4. CASE UNCHANGED vars
        BY <2>4 DEF vars, QueueInv, QueueTypeOK
    <2> QED
        BY <2>1, <2>2, <2>3, <2>4
<1>3. QueueTypeOK'
    BY <1>1, <1>2 DEF QueueInv, QueueTypeOK
<1>4. BitsCover'
    BY <1>1 DEF QueueInv, BitsCover, Slot
<1> QED
    BY <1>3, <1>4 DEF QueueInv

LEMMA QueueStep ==
    ASSUME QueueInv, [QueueNext]_vars
    PROVE  QueueInv'
<1>1. ASSUME NEW n \in Items, NEW w \in Weights, queue_set(n, w)
      PROVE  QueueInv'
    BY <1>1, SetInRingInv, OtherStepsInv DEF queue_set
<1>2. ASSUME NEW n \in Items, queue_unset(n)
      PROVE  QueueInv'
    BY <1>2, UnsetInRingInv, OtherStepsInv DEF queue_unset
<1>3. CASE queue_pop
    BY <1>3, PopRingInv, PopNullInv, OtherStepsInv DEF queue_pop
<1>4. CASE UNCHANGED vars
    BY <1>4, OtherStepsInv
<1> QED
    BY <1>1, <1>2, <1>3, <1>4 DEF QueueNext

(* The bitmap covers every anchor that holds nodes in every reachable state *)
(* of a queue of any size (queue_set, queue_unset, queue_pop).             *)
THEOREM DrrBitsCover == QueueSpec => []BitsCover
<1>1. QueueInv /\ [QueueNext]_vars => QueueInv'
    BY QueueStep
<1>2. QueueInv => BitsCover
    BY DEF QueueInv
<1> QED
    BY <1>1, <1>2, QueueInit, PTL DEF QueueSpec

-----------------------------------------------------------------------------
(* The distances *)

(* A node of the ring is linked to one anchor. *)
OneAnchor ==
    \A a, b \in Ring : \A n \in Items :
        n \in Elems(anchors[a]) /\ n \in Elems(anchors[b]) => a = b

RingInv == QueueInv /\ OneAnchor

(* The distance that CHOOSE finds is the only one there is. *)
LEMMA DistanceIs ==
    ASSUME NEW lists, NEW o \in Ring, NEW n \in Items, NEW k \in Ring,
           \A a, b \in Ring : n \in Elems(lists[a]) /\ n \in Elems(lists[b]) => a = b,
           n \in Elems(lists[(o + k) % Slots])
    PROVE  k = CHOOSE d \in Ring : n \in Elems(lists[(o + d) % Slots])
<1>1. ASSUME NEW d \in Ring, n \in Elems(lists[(o + d) % Slots]) PROVE d = k
    <2>1. (o + d) % Slots \in Ring /\ (o + k) % Slots \in Ring
        BY RingSum
    <2>2. (o + d) % Slots = (o + k) % Slots
        BY <1>1, <2>1
    <2> QED
        BY <2>2, RingInjective
<1> QED
    BY <1>1

LEMMA DistanceNow ==
    ASSUME RingInv, NEW n \in Items, NEW k \in Ring, n \in Elems(anchors[Slot(k)])
    PROVE  Distance(n) = k
<1>1. offset \in Ring
    BY DEF RingInv, QueueInv, QueueTypeOK
<1>2. n \in Elems(anchors[(offset + k) % Slots])
    BY DEF Slot
<1>3. \A a, b \in Ring : n \in Elems(anchors[a]) /\ n \in Elems(anchors[b]) => a = b
    BY DEF RingInv, OneAnchor
<1> QED
    BY <1>1, <1>2, <1>3, DistanceIs DEF Distance, Slot

LEMMA DistanceNext ==
    ASSUME RingInv', NEW n \in Items, NEW k \in Ring, n \in Elems(anchors'[Slot(k)'])
    PROVE  Distance(n)' = k
<1>1. offset' \in Ring
    BY DEF RingInv, QueueInv, QueueTypeOK
<1>2. n \in Elems(anchors'[(offset' + k) % Slots])
    BY DEF Slot
<1>3. \A a, b \in Ring : n \in Elems(anchors'[a]) /\ n \in Elems(anchors'[b]) => a = b
    BY DEF RingInv, OneAnchor
<1> QED
    BY <1>1, <1>2, <1>3, DistanceIs DEF Distance, Slot

LEMMA UnlinkedElems ==
    ASSUME NEW s \in Seq(Items), NEW i \in 1 .. Len(s)
    PROVE  Elems(RemoveAtIndex(s, i)) \subseteq Elems(s)
<1> DEFINE f == SubSeq(s, 1, i - 1)
           g == SubSeq(s, i + 1, Len(s))
<1>1. Len(s) \in Nat /\ i \in Nat /\ 1 <= i /\ i <= Len(s)
    OBVIOUS
<1>2. f \in Seq(Items) /\ g \in Seq(Items)
    <2>1. \A j \in 1 .. i - 1 : s[j] \in Items
        BY <1>1
    <2>2. \A j \in i + 1 .. Len(s) : s[j] \in Items
        BY <1>1
    <2> QED
        BY <1>1, <2>1, <2>2, SubSeqProperties
<1>3. Len(f) = i - 1 /\ \A j \in 1 .. i - 1 : f[j] = s[j]
    BY <1>1, SubSeqProperties
<1>4. Len(g) = Len(s) - i /\ \A j \in 1 .. Len(s) - i : g[j] = s[j + i]
    BY <1>1, SubSeqProperties
<1> HIDE DEF f, g
<1>5. /\ Len(f \o g) = Len(s) - 1
      /\ \A j \in 1 .. Len(s) - 1 :
            (f \o g)[j] = IF j <= Len(f) THEN f[j] ELSE g[j - Len(f)]
    <2>1. /\ Len(f \o g) = Len(f) + Len(g)
          /\ \A j \in 1 .. Len(f) + Len(g) :
                (f \o g)[j] = IF j <= Len(f) THEN f[j] ELSE g[j - Len(f)]
        BY <1>2, ConcatProperties
    <2>2. Len(f) + Len(g) = Len(s) - 1
        BY <1>1, <1>3, <1>4
    <2> QED
        BY <2>1, <2>2
<1>6. ASSUME NEW j \in 1 .. Len(s) - 1 PROVE (f \o g)[j] \in Elems(s)
    <2>1. CASE j <= i - 1
        <3>1. j \in 1 .. i - 1 /\ j \in 1 .. Len(s)
            BY <1>1, <2>1
        <3>2. (f \o g)[j] = f[j]
            BY <1>3, <1>5, <2>1
        <3>3. f[j] = s[j]
            BY <1>3, <3>1
        <3> QED
            BY <3>1, <3>2, <3>3 DEF Elems
    <2>2. CASE j > i - 1
        <3>1. j - (i - 1) \in 1 .. Len(s) - i /\ j + 1 \in 1 .. Len(s)
            BY <1>1, <2>2
        <3>2. (f \o g)[j] = g[j - (i - 1)]
            BY <1>1, <1>3, <1>5, <2>2
        <3>3. g[j - (i - 1)] = s[j + 1]
            BY <1>1, <1>4, <3>1
        <3> QED
            BY <3>1, <3>2, <3>3 DEF Elems
    <2>3. j <= i - 1 \/ j > i - 1
        BY <1>1
    <2> QED
        BY <2>1, <2>2, <2>3
<1>7. \A j \in 1 .. Len(f \o g) : (f \o g)[j] \in Elems(s)
    BY <1>5, <1>6
<1>8. Elems(f \o g) \subseteq Elems(s)
    <2> DEFINE e == Elems(s)
    <2> HIDE DEF e
    <2>1. \A j \in 1 .. Len(f \o g) : (f \o g)[j] \in e
        BY <1>7 DEF e
    <2>2. Elems(f \o g) \subseteq e
        BY <2>1 DEF Elems
    <2> QED
        BY <2>2 DEF e
<1> QED
    BY <1>8 DEF RemoveAtIndex, f, g

LEMMA TailElems ==
    ASSUME NEW s \in Seq(Items), s # <<>>
    PROVE  Elems(Tail(s)) \subseteq Elems(s)
<1>1. Len(Tail(s)) = Len(s) - 1 /\ \A j \in 1 .. Len(s) - 1 : Tail(s)[j] = s[j + 1]
    BY HeadTailProperties
<1> QED
    BY <1>1 DEF Elems

LEMMA AppendElems ==
    ASSUME NEW s \in Seq(Items), NEW n \in Items
    PROVE  Elems(Append(s, n)) \subseteq Elems(s) \cup {n}
<1>1. Len(Append(s, n)) = Len(s) + 1 /\ Len(s) \in Nat
      /\ \A j \in 1 .. Len(s) + 1 : Append(s, n)[j] = IF j <= Len(s) THEN s[j] ELSE n
    BY AppendProperties
<1> QED
    BY <1>1 DEF Elems

(* The steps that link no node to the ring leave in every anchor some of    *)
(* the nodes it had.                                                       *)
Shrinks == \A a \in Ring : Elems(anchors'[a]) \subseteq Elems(anchors[a])

LEMMA UnsetShrinks ==
    ASSUME QueueInv, NEW n \in Items, UnsetInRing(n)
    PROVE  Shrinks /\ offset' = offset
<1>1. PICK a \in Ring : \E i \in 1 .. Len(anchors[a]) :
        anchors' = [anchors EXCEPT ![a] = RemoveAtIndex(@, i)]
    BY DEF UnsetInRing
<1>2. PICK i \in 1 .. Len(anchors[a]) : anchors' = [anchors EXCEPT ![a] = RemoveAtIndex(@, i)]
    BY <1>1
<1>3. anchors[a] \in Seq(Items)
    BY DEF QueueInv, QueueTypeOK
<1>4. Elems(RemoveAtIndex(anchors[a], i)) \subseteq Elems(anchors[a])
    BY <1>3, UnlinkedElems
<1>5. Shrinks
    BY <1>2, <1>4 DEF Shrinks, QueueInv, QueueTypeOK
<1> QED
    BY <1>5 DEF UnsetInRing

LEMMA PopRingShrinks ==
    ASSUME QueueInv, PopRing
    PROVE  Shrinks
<1>1. PICK k \in Served : anchors' = [anchors EXCEPT ![Slot(k)] = Tail(@)]
    BY DEF PopRing
<1>2. k \in Ring /\ anchors[Slot(k)] # <<>>
    BY DEF Served, QueueInv, QueueTypeOK
<1>3. Slot(k) \in Ring
    BY <1>2, RingSum DEF Slot, QueueInv, QueueTypeOK
<1>4. anchors[Slot(k)] \in Seq(Items)
    BY <1>3 DEF QueueInv, QueueTypeOK
<1>5. Elems(Tail(anchors[Slot(k)])) \subseteq Elems(anchors[Slot(k)])
    BY <1>2, <1>4, TailElems
<1> QED
    BY <1>1, <1>3, <1>5 DEF Shrinks, QueueInv, QueueTypeOK

LEMMA ShrinksOneAnchor ==
    ASSUME OneAnchor, Shrinks
    PROVE  OneAnchor'
<1> SUFFICES ASSUME NEW a \in Ring, NEW b \in Ring, NEW n \in Items,
                    n \in Elems(anchors'[a]), n \in Elems(anchors'[b])
             PROVE  a = b
    BY DEF OneAnchor
<1> QED
    BY DEF OneAnchor, Shrinks

(* SetInRing links a node that no anchor has. *)
LEMMA SetAnchors ==
    ASSUME QueueInv, NEW n \in Items, NEW w \in Weights, w <= MaxWeight, SetInRing(n, w)
    PROVE  /\ offset' = offset /\ ~InRing(n)
           /\ \E d \in Ring : \A a \in Ring :
                 Elems(anchors'[a]) \subseteq Elems(anchors[a])
                                              \cup (IF a = d THEN {n} ELSE {})
<1> DEFINE dist == (OffsetTable(w) + deficit[n]) \div Unit
<1>1. w \in Nat \ {0} /\ deficit[n] \in 0 .. Unit - 1
    BY DrrAssumption DEF QueueInv, QueueTypeOK
<1>2. dist \in Ring
    BY <1>1, DistanceInRing
<1>3. anchors' = [anchors EXCEPT ![Slot(dist)] = Append(@, n)] /\ offset' = offset
    BY DEF SetInRing
<1> HIDE DEF dist
<1>4. Slot(dist) \in Ring
    BY <1>2, RingSum DEF Slot, QueueInv, QueueTypeOK
<1>5. Elems(Append(anchors[Slot(dist)], n)) \subseteq Elems(anchors[Slot(dist)]) \cup {n}
    BY <1>4, AppendElems DEF QueueInv, QueueTypeOK
<1>6. \A a \in Ring : Elems(anchors'[a]) \subseteq Elems(anchors[a])
                                              \cup (IF a = Slot(dist) THEN {n} ELSE {})
    BY <1>3, <1>4, <1>5 DEF QueueInv, QueueTypeOK
<1>7. ~InRing(n)
    BY DEF SetInRing, Linked, InRing
<1> QED
    BY <1>3, <1>4, <1>6, <1>7

LEMMA SetOneAnchor ==
    ASSUME RingInv, NEW n \in Items, NEW w \in Weights, w <= MaxWeight, SetInRing(n, w)
    PROVE  OneAnchor'
<1>1. PICK d \in Ring : \A a \in Ring :
         Elems(anchors'[a]) \subseteq Elems(anchors[a]) \cup (IF a = d THEN {n} ELSE {})
    BY SetAnchors DEF RingInv
<1>2. \A a \in Ring : n \notin Elems(anchors[a])
    BY SetAnchors DEF InRing, RingInv
<1> SUFFICES ASSUME NEW a \in Ring, NEW b \in Ring, NEW m \in Items,
                    m \in Elems(anchors'[a]), m \in Elems(anchors'[b])
             PROVE  a = b
    BY DEF OneAnchor
<1>3. CASE m = n
    BY <1>1, <1>2, <1>3
<1>4. CASE m # n
    BY <1>1, <1>4 DEF RingInv, OneAnchor
<1> QED
    BY <1>3, <1>4

(* What a step may do to the distance of a node that stays. *)
Nearer(n) == InRing(n) /\ InRing(n)' => Distance(n)' <= Distance(n)

(* Where a node that stays was linked: in the anchor where it is. *)
LEMMA SameTurn ==
    ASSUME RingInv, RingInv', NEW n \in Items, offset' = offset,
           InRing(n), InRing(n)',
           \A a \in Ring : n \in Elems(anchors'[a]) => n \in Elems(anchors[a])
    PROVE  Distance(n)' <= Distance(n)
<1>1. PICK a \in Ring : n \in Elems(anchors'[a])
    BY DEF InRing
<1>2. offset \in Ring
    BY DEF RingInv, QueueInv, QueueTypeOK
<1>3. PICK k \in Ring : (offset + k) % Slots = a
    BY <1>2, RingOnto
<1>4. n \in Elems(anchors[Slot(k)]) /\ n \in Elems(anchors'[Slot(k)'])
    BY <1>1, <1>3 DEF Slot
<1>5. Distance(n) = k /\ Distance(n)' = k
    BY <1>4, DistanceNow, DistanceNext
<1> QED
    BY <1>5, DrrAssumption DEF Ring

LEMMA PopRingNearer ==
    ASSUME RingInv, RingInv', PopRing, NEW n \in Items, InRing(n)'
    PROVE  Distance(n)' <= Distance(n)
<1>1. PICK k \in Served : /\ \A j \in Served : k <= j
                          /\ offset' = Slot(k)
    BY DEF PopRing
<1>2. k \in Ring /\ offset \in Ring /\ offset' \in Ring
    BY DEF Served, RingInv, QueueInv, QueueTypeOK
<1>3. PICK a \in Ring : n \in Elems(anchors'[a])
    BY DEF InRing
<1>4. PICK b \in Ring : (offset' + b) % Slots = a
    BY <1>2, RingOnto
<1>5. n \in Elems(anchors'[Slot(b)'])
    BY <1>3, <1>4 DEF Slot
<1>6. Distance(n)' = b
    BY <1>5, DistanceNext
<1> DEFINE d == IF k + b < Slots THEN k + b ELSE k + b - Slots
<1>7. /\ k \in Nat /\ b \in Nat /\ k < Slots /\ b < Slots
      /\ Slots \in Nat \ {0} /\ d \in Ring
    BY <1>2, DrrAssumption DEF Ring
<1>8. d = IF k + b < Slots THEN k + b ELSE k + b - Slots
    OBVIOUS
<1> HIDE DEF d
<1>9. Slot(d) = a
    <2>1. \A o, x, y, z \in Ring :
             z = (IF x + y < Slots THEN x + y ELSE x + y - Slots)
             => (((o + x) % Slots) + y) % Slots = (o + z) % Slots
        BY RingTurn
    <2>2. offset \in Ring /\ k \in Ring /\ b \in Ring /\ d \in Ring
        BY <1>2, <1>7
    <2>3. (((offset + k) % Slots) + b) % Slots = (offset + d) % Slots
        BY <1>8, <2>1, <2>2
    <2> QED
        BY <1>1, <1>4, <2>3 DEF Slot
<1>10. n \in Elems(anchors[Slot(d)])
    BY <1>3, <1>9, PopRingShrinks DEF Shrinks, RingInv
<1>11. Distance(n) = d
    BY <1>7, <1>10, DistanceNow
<1>12. anchors[Slot(d)] # <<>>
    BY <1>10 DEF Elems
<1>13. d \in Served
    BY <1>7, <1>12 DEF Served, RingInv, QueueInv, BitsCover
<1>14. k <= d
    BY <1>1, <1>13
<1> QED
    BY <1>6, <1>7, <1>8, <1>11, <1>14

LEMMA RingStep ==
    ASSUME RingInv, [QueueNext]_vars
    PROVE  RingInv' /\ \A n \in Items : Nearer(n)
<1>1. QueueInv'
    BY QueueStep DEF RingInv
<1>2. ASSUME NEW m \in Items, NEW w \in Weights, w <= MaxWeight, SetInRing(m, w)
      PROVE  RingInv' /\ \A n \in Items : Nearer(n)
    <2>1. RingInv'
        BY <1>1, <1>2, SetOneAnchor DEF RingInv
    <2>2. ASSUME NEW n \in Items, InRing(n), InRing(n)' PROVE Distance(n)' <= Distance(n)
        <3>1. n # m /\ offset' = offset
            BY <1>2, <2>2, SetAnchors DEF RingInv
        <3>2. PICK d \in Ring : \A a \in Ring :
                 Elems(anchors'[a]) \subseteq Elems(anchors[a]) \cup (IF a = d THEN {m} ELSE {})
            BY <1>2, SetAnchors DEF RingInv
        <3>3. \A a \in Ring : n \in Elems(anchors'[a]) => n \in Elems(anchors[a])
            BY <3>1, <3>2
        <3> QED
            BY <2>1, <2>2, <3>1, <3>3, SameTurn
    <2> QED
        BY <2>1, <2>2 DEF Nearer
<1>3. ASSUME Shrinks, offset' = offset
      PROVE  RingInv' /\ \A n \in Items : Nearer(n)
    <2>1. RingInv'
        BY <1>1, <1>3, ShrinksOneAnchor DEF RingInv
    <2> QED
        BY <1>3, <2>1, SameTurn DEF Nearer, Shrinks
<1>4. CASE PopRing
    <2>1. RingInv'
        BY <1>1, <1>4, PopRingShrinks, ShrinksOneAnchor DEF RingInv
    <2> QED
        BY <1>4, <2>1, PopRingNearer DEF Nearer
<1>5. CASE PopNull
    <2>1. \A a \in Ring : anchors[a] = <<>> /\ anchors'[a] = <<>>
        BY <1>5, PopNullEmpty DEF PopNull, RingInv
    <2>2. \A a \in Ring : Elems(anchors'[a]) = {}
        BY <2>1 DEF Elems
    <2>3. OneAnchor' /\ \A n \in Items : ~InRing(n)'
        BY <2>2 DEF OneAnchor, InRing
    <2> QED
        BY <1>1, <2>3 DEF RingInv, Nearer
<1>6. ASSUME \/ \E n \in Items : SetFirst(n) \/ UnsetFirst(n)
             \/ PopFirst
             \/ UNCHANGED vars
      PROVE  Shrinks /\ offset' = offset
    BY <1>6 DEF SetFirst, UnsetFirst, PopFirst, vars, Shrinks
<1>7. ASSUME NEW n \in Items, UnsetInRing(n) PROVE Shrinks /\ offset' = offset
    BY <1>7, UnsetShrinks DEF RingInv
<1>8. ASSUME NEW m \in Items, NEW w \in Weights, queue_set(m, w)
      PROVE  RingInv' /\ \A n \in Items : Nearer(n)
    BY <1>2, <1>3, <1>6, <1>8 DEF queue_set
<1>9. ASSUME NEW m \in Items, queue_unset(m)
      PROVE  RingInv' /\ \A n \in Items : Nearer(n)
    BY <1>3, <1>6, <1>7, <1>9 DEF queue_unset
<1>10. CASE queue_pop
    BY <1>3, <1>4, <1>5, <1>6, <1>10 DEF queue_pop
<1> QED
    BY <1>3, <1>6, <1>8, <1>9, <1>10 DEF QueueNext

(* In a queue of any size and under any sequence of queue_set, queue_unset  *)
(* and queue_pop, no step moves a node that stays in the ring further from  *)
(* being served.                                                           *)
THEOREM DrrNeverPassedOver == QueueSpec => NeverPassedOver
<1>1. queue_init => RingInv
    <2> SUFFICES ASSUME queue_init PROVE RingInv
        OBVIOUS
    <2>1. \A a \in Ring : Elems(anchors[a]) = {}
        BY DEF queue_init, Elems
    <2> QED
        BY <2>1, QueueInit DEF RingInv, OneAnchor
<1>2. RingInv /\ [QueueNext]_vars => RingInv'
    BY RingStep
<1>3. RingInv /\ [QueueNext]_vars =>
        [\A n \in Items : InRing(n) /\ InRing(n)' => Distance(n)' <= Distance(n)]_vars
    BY RingStep DEF Nearer
<1> QED
    BY <1>1, <1>2, <1>3, PTL DEF QueueSpec, NeverPassedOver

------------------------------------------------------------------------------
(* The dependency tree. *)

(* The open nodes when parent is as given *)
OpenIn(par) == {n \in Nodes : par[n] # Closed}

Parents == [Nodes -> Inner \cup {Closed}]

(* Every set of open nodes hangs from something outside of it. *)
Hangs(par) ==
    \A S \in SUBSET OpenIn(par) :
        S # {} => \E n \in S : par[n] \in (OpenIn(par) \cup {Root}) \ S

(* A set that following the parents does not leave *)
ClosedUp(par, A) == A \in SUBSET Inner /\ \A x \in A \ {Root} : par[x] \in A

LEMMA NodeFacts ==
  /\ Root \notin Nodes /\ Closed \notin Inner /\ Root # Closed /\ IsFiniteSet(Nodes)
  /\ Root \in Inner /\ Nodes \subseteq Inner /\ Cardinality(Nodes) \in Nat
<1>1. Root \notin Nodes /\ Closed \notin Inner /\ Root # Closed /\ Root \in Inner /\ Nodes \subseteq Inner
    BY SchedulerAssumption DEF Nodes, Inner
<1>2. IsFiniteSet(Elements(RecentlyClosed))
    BY SchedulerAssumption, ListLength
<1>3. IsFiniteSet(Nodes)
    BY <1>2, SchedulerAssumption, FS_Union DEF Nodes
<1> QED BY <1>1, <1>3, FS_CardinalityType

(* An open node has an open parent, or the root. *)
LEMMA ParentOpen ==
  ASSUME NEW par \in Parents, Hangs(par), NEW x \in OpenIn(par)
  PROVE  par[x] \in OpenIn(par) \cup {Root} /\ par[x] # x /\ x \in Nodes /\ x # Root
<1>1. {x} \in SUBSET OpenIn(par) /\ {x} # {}
    OBVIOUS
<1>2. \E n \in {x} : par[n] \in (OpenIn(par) \cup {Root}) \ {x}
    BY <1>1 DEF Hangs
<1> QED BY <1>2, NodeFacts DEF OpenIn

LEMMA OpenClosedUp ==
  ASSUME NEW par \in Parents, Hangs(par)
  PROVE  ClosedUp(par, OpenIn(par) \cup {Root})
BY ParentOpen, NodeFacts DEF ClosedUp, OpenIn

(* The ancestors are the least set of their kind. *)
LEMMA AncestorsLeast ==
  ASSUME NEW par, NEW n, NEW A, ClosedUp(par, A), n # Root => par[n] \in A
  PROVE  Ancestors(par, n) \subseteq A
BY DEF Ancestors, ClosedUp

LEMMA AncestorsFacts ==
  ASSUME NEW par \in Parents, Hangs(par), NEW n \in OpenIn(par) \cup {Root}
  PROVE  /\ ClosedUp(par, Ancestors(par, n))
         /\ Ancestors(par, n) \subseteq OpenIn(par) \cup {Root}
         /\ n # Root => par[n] \in Ancestors(par, n)
         /\ n = Root => Ancestors(par, n) = {}
<1>1. n # Root => par[n] \in OpenIn(par) \cup {Root}
    BY ParentOpen
<1>2. Ancestors(par, n) \subseteq OpenIn(par) \cup {Root}
    BY <1>1, OpenClosedUp, AncestorsLeast
<1>3. n # Root => par[n] \in Ancestors(par, n)
    BY <1>1, NodeFacts DEF Ancestors, OpenIn
<1>4. n = Root => Ancestors(par, n) = {}
  <2>1. ClosedUp(par, {})
      BY DEF ClosedUp
  <2> QED BY <2>1, AncestorsLeast
<1>5. ASSUME NEW x \in Ancestors(par, n) \ {Root}
      PROVE  par[x] \in Ancestors(par, n)
  <2>1. x \in OpenIn(par)
      BY <1>2
  <2>2. par[x] \in Inner
      BY <2>1, ParentOpen, NodeFacts DEF OpenIn
  <2>3. ASSUME NEW S \in SUBSET Inner, n # Root => par[n] \in S, \A y \in S \ {Root} : par[y] \in S
        PROVE  par[x] \in S
    <3>1. x \in S
        BY <2>3 DEF Ancestors
    <3> QED BY <3>1, <2>3
  <2> QED BY <2>2, <2>3 DEF Ancestors
<1>6. Ancestors(par, n) \in SUBSET Inner
    BY DEF Ancestors
<1> QED BY <1>2, <1>3, <1>4, <1>5, <1>6 DEF ClosedUp

LEMMA AncestorsStep ==
  ASSUME NEW par \in Parents, Hangs(par), NEW x \in OpenIn(par)
  PROVE  Ancestors(par, x) = {par[x]} \cup Ancestors(par, par[x])
<1>0. par[x] \in OpenIn(par) \cup {Root} /\ x # Root
    BY ParentOpen
<1> DEFINE A == {par[x]} \cup Ancestors(par, par[x])
<1>1. ClosedUp(par, A)
    BY <1>0, AncestorsFacts, NodeFacts DEF ClosedUp, OpenIn
<1>2. Ancestors(par, x) \subseteq A
    BY <1>1, AncestorsLeast
<1>3. ClosedUp(par, Ancestors(par, x)) /\ par[x] \in Ancestors(par, x)
    BY <1>0, AncestorsFacts
<1>4. Ancestors(par, par[x]) \subseteq Ancestors(par, x)
    BY <1>3, AncestorsLeast DEF ClosedUp
<1> QED BY <1>2, <1>3, <1>4

(* No node is its own ancestor. *)
LEMMA NoCycle ==
  ASSUME NEW par \in Parents, Hangs(par), NEW n \in OpenIn(par)
  PROVE  n \notin Ancestors(par, n)
<1> SUFFICES ASSUME n \in Ancestors(par, n) PROVE FALSE
    OBVIOUS
<1> DEFINE S == {x \in Ancestors(par, n) \ {Root} : n \in Ancestors(par, x)}
<1>1. n # Root
    BY ParentOpen
<1>2. ClosedUp(par, Ancestors(par, n)) /\ Ancestors(par, n) \subseteq OpenIn(par) \cup {Root}
    BY AncestorsFacts
<1>3. S \in SUBSET OpenIn(par) /\ n \in S
    BY <1>1, <1>2
<1>4. PICK x \in S : par[x] \in (OpenIn(par) \cup {Root}) \ S
    BY <1>3 DEF Hangs
<1>5. par[x] \in Ancestors(par, n)
    BY <1>2 DEF ClosedUp
<1>6. n \in {par[x]} \cup Ancestors(par, par[x])
    BY <1>3, AncestorsStep
<1>7. CASE par[x] = Root
    BY <1>1, <1>6, <1>7, AncestorsFacts
<1>8. CASE par[x] # Root
    BY <1>1, <1>4, <1>5, <1>6, <1>8
<1> QED BY <1>7, <1>8

LEMMA AndAncestors ==
  ASSUME NEW par \in Parents, Hangs(par), NEW q \in OpenIn(par) \cup {Root}
  PROVE  ClosedUp(par, {q} \cup Ancestors(par, q)) /\ {q} \cup Ancestors(par, q) \subseteq OpenIn(par) \cup {Root}
BY AncestorsFacts, NodeFacts DEF ClosedUp, OpenIn

(* Moving a node below one that does not depend on it leaves a tree. *)
LEMMA Rehang ==
  ASSUME NEW par \in Parents, Hangs(par), NEW n \in OpenIn(par), NEW p \in OpenIn(par) \cup {Root},
         NEW A, ClosedUp(par, A), p \in A, n \notin A
  PROVE  LET new == [par EXCEPT ![n] = p]
         IN new \in Parents /\ Hangs(new) /\ OpenIn(new) = OpenIn(par) /\ ClosedUp(new, A)
<1> DEFINE new == [par EXCEPT ![n] = p]
<1>0. n \in Nodes /\ p \in Inner /\ p # Closed
    BY NodeFacts DEF OpenIn
<1>1. new \in Parents /\ new[n] = p /\ \A x \in Nodes \ {n} : new[x] = par[x]
    BY <1>0 DEF Parents
<1>2. OpenIn(new) = OpenIn(par)
    BY <1>0, <1>1 DEF OpenIn
<1>3. ClosedUp(new, A)
    BY <1>1, NodeFacts DEF ClosedUp, Inner
<1>4. ASSUME NEW S \in SUBSET OpenIn(par), S # {},
             \A m \in S : new[m] \notin (OpenIn(par) \cup {Root}) \ S
      PROVE  FALSE
  <2>1. ASSUME NEW m \in S PROVE new[m] \in S
    <3>1. m \in Nodes
        BY DEF OpenIn
    <3>2. new[m] \in OpenIn(par) \cup {Root}
        BY <3>1, <1>1, ParentOpen
    <3> QED BY <3>2, <1>4
  <2>2. CASE n \notin S
    <3>1. PICK m \in S : par[m] \in (OpenIn(par) \cup {Root}) \ S
        BY <1>4 DEF Hangs
    <3>2. new[m] = par[m]
        BY <2>2, <1>1 DEF OpenIn
    <3> QED BY <3>1, <3>2, <2>1
  <2>3. CASE n \in S
    <3>1. p \in S
        BY <2>1, <2>3, <1>1
    <3>2. S \cap A \in SUBSET OpenIn(par) /\ S \cap A # {}
        BY <3>1
    <3>3. PICK m \in S \cap A : par[m] \in (OpenIn(par) \cup {Root}) \ (S \cap A)
        BY <3>2, Zenon DEF Hangs
    <3>4. m # n /\ m \in Nodes /\ m # Root
        BY NodeFacts DEF OpenIn
    <3>5. par[m] \in A
        BY <3>4 DEF ClosedUp
    <3>6. par[m] \in S
        BY <3>4, <1>1, <2>1
    <3> QED BY <3>3, <3>5, <3>6
  <2> QED BY <2>2, <2>3
<1>5. Hangs(new)
    BY <1>2, <1>4, Zenon DEF Hangs
<1> QED BY <1>1, <1>2, <1>3, <1>5

(* The number of nodes above a node *)
Height(par, x) == Cardinality(Ancestors(par, x) \cap Nodes)

LEMMA HeightFacts ==
  ASSUME NEW par \in Parents, Hangs(par), NEW x \in OpenIn(par)
  PROVE  /\ Height(par, x) \in Nat /\ Height(par, x) < Cardinality(Nodes)
         /\ par[x] # Root => Height(par, par[x]) \in Nat /\ Height(par, par[x]) < Height(par, x)
<1> DEFINE H == Ancestors(par, x) \cap Nodes
           G == Ancestors(par, par[x]) \cap Nodes
<1>1. x \in Nodes /\ x \notin H
    BY NoCycle, ParentOpen
<1>2. IsFiniteSet(H) /\ Cardinality(H) \in Nat /\ Cardinality(H) < Cardinality(Nodes)
  <2>1. H \subseteq Nodes /\ H # Nodes
      BY <1>1
  <2>2. IsFiniteSet(H) /\ Cardinality(H) <= Cardinality(Nodes) /\ (Cardinality(H) = Cardinality(Nodes) => H = Nodes)
      BY <2>1, NodeFacts, FS_Subset
  <2>3. Cardinality(H) \in Nat
      BY <2>2, FS_CardinalityType
  <2> QED BY <2>1, <2>2, <2>3, NodeFacts
<1>3. ASSUME par[x] # Root PROVE Cardinality(G) \in Nat /\ Cardinality(G) < Cardinality(H)
  <2>1. par[x] \in OpenIn(par)
      BY <1>3, ParentOpen
  <2>2. G \subseteq H /\ par[x] \in H /\ par[x] \notin G
      BY <2>1, AncestorsStep, NoCycle, ParentOpen
  <2>3. IsFiniteSet(G) /\ Cardinality(G) <= Cardinality(H) /\ (Cardinality(G) = Cardinality(H) => G = H)
      BY <2>2, <1>2, FS_Subset
  <2>4. Cardinality(G) \in Nat
      BY <2>3, FS_CardinalityType
  <2> QED BY <2>2, <2>3, <2>4, <1>2
<1> QED BY <1>2, <1>3 DEF Height

(* What the count of a node should be *)
Adds(par, cnt, n, x) == IF par[n] = x /\ cnt[n] > 0 THEN 1 ELSE 0

Expect(par, cnt, self, x) == Ind(self[x]) + Cardinality({kid \in Nodes : par[kid] = x /\ cnt[kid] > 0})

(* The counts are exact but for one more that is due at up, and one less at  *)
(* down; Root stands for none.                                               *)
Balanced(par, t, up, down) ==
    \A x \in Nodes : t.cnt[x] + Ind(x = up) - Ind(x = down) = Expect(par, t.cnt, t.self, x)

LinksOK(par, t) == \A x \in Nodes : t.linked[x] = IF t.cnt[x] > 0 THEN par[x] ELSE Closed

(* A tree in the middle of an operation *)
Underway(par, t, up, down) ==
    /\ t \in Tree /\ t.cnt \in [Nodes -> Nat]
    /\ Balanced(par, t, up, down) /\ LinksOK(par, t)

(* All that a climb leaves alone *)
SameNodes(t, u) ==
    u.parent = t.parent /\ u.refs = t.refs /\ u.weight = t.weight /\ u.self = t.self /\ u.ok = t.ok

LEMMA IndFacts ==
  ASSUME NEW b
  PROVE  Ind(b) \in {0, 1} /\ (b => Ind(b) = 1) /\ (~b => Ind(b) = 0)
BY DEF Ind

LEMMA ExpectFacts ==
  ASSUME NEW par, NEW cnt, NEW self, NEW x
  PROVE  Expect(par, cnt, self, x) \in Nat
<1>1. IsFiniteSet({kid \in Nodes : par[kid] = x /\ cnt[kid] > 0})
    BY NodeFacts, FS_Subset
<1>2. Cardinality({kid \in Nodes : par[kid] = x /\ cnt[kid] > 0}) \in Nat
    BY <1>1, FS_CardinalityType
<1> QED BY <1>2, IndFacts DEF Expect

(* One node changes its count or its parent. *)
LEMMA ExpectChange ==
  ASSUME NEW par, NEW cnt, NEW par2, NEW cnt2, NEW self, NEW n \in Nodes,
         \A y \in Nodes \ {n} : par2[y] = par[y] /\ cnt2[y] = cnt[y], NEW x
  PROVE  Expect(par2, cnt2, self, x) =
            Expect(par, cnt, self, x) + Adds(par2, cnt2, n, x) - Adds(par, cnt, n, x)
<1> DEFINE A == {kid \in Nodes : par[kid] = x /\ cnt[kid] > 0}
           B == {kid \in Nodes : par2[kid] = x /\ cnt2[kid] > 0}
<1>1. \A v \in Nodes \ {n} : v \in A <=> v \in B
    OBVIOUS
<1>2. /\ Cardinality(A) \in Nat /\ Cardinality(B) \in Nat
      /\ Cardinality(B) = Cardinality(A) + Ind(n \in B) - Ind(n \in A)
  <2>1. A \in SUBSET Nodes /\ B \in SUBSET Nodes
      OBVIOUS
  <2> HIDE DEF A, B
  <2> QED BY <1>1, <2>1, NodeFacts, OneChange
<1>4. Ind(n \in B) = Adds(par2, cnt2, n, x) /\ Ind(n \in A) = Adds(par, cnt, n, x)
    BY DEF Adds, Ind
<1>5. Expect(par2, cnt2, self, x) = Ind(self[x]) + Cardinality(B) /\ Expect(par, cnt, self, x) = Ind(self[x]) + Cardinality(A)
    BY DEF Expect
<1> HIDE DEF A, B
<1>6. Ind(self[x]) \in Int /\ Ind(n \in A) \in Int /\ Ind(n \in B) \in Int
    BY IndFacts
<1> QED BY <1>2, <1>4, <1>5, <1>6

LEMMA CheckedTrue ==
  ASSUME NEW t, NEW cond, cond
  PROVE  Checked(t, cond) = t
BY Zenon DEF Checked

LEMMA CountSet ==
  ASSUME NEW t \in Tree, NEW n \in Nodes, NEW v \in Int
  PROVE  LET u == [t EXCEPT !.cnt[n] = v]
         IN /\ u \in Tree /\ SameNodes(t, u) /\ u.linked = t.linked
            /\ u.cnt = [t.cnt EXCEPT ![n] = v] /\ u.cnt[n] = v
BY DEF Tree, SameNodes

LEMMA LinkSet ==
  ASSUME NEW t \in Tree, NEW n \in Nodes, NEW v \in Inner \cup {Closed}
  PROVE  LET u == [t EXCEPT !.linked[n] = v]
         IN /\ u \in Tree /\ SameNodes(t, u) /\ u.cnt = t.cnt
            /\ u.linked = [t.linked EXCEPT ![n] = v] /\ u.linked[n] = v
BY DEF Tree, SameNodes

LEMMA QueueSet ==
  ASSUME NEW t \in Tree, NEW n \in Nodes, NEW p \in Inner, t.linked[n] = Closed
  PROVE  LET u == Link(t, p, n)
         IN /\ u \in Tree /\ SameNodes(t, u) /\ u.cnt = t.cnt
            /\ u.linked = [t.linked EXCEPT ![n] = p] /\ u.linked[n] = p
<1>1. Link(t, p, n) = [t EXCEPT !.linked[n] = p]
    BY CheckedTrue DEF Link
<1> QED BY <1>1, LinkSet

LEMMA QueueUnset ==
  ASSUME NEW t \in Tree, NEW n \in Nodes, t.linked[n] # Closed
  PROVE  LET u == Unlink(t, n)
         IN /\ u \in Tree /\ SameNodes(t, u) /\ u.cnt = t.cnt
            /\ u.linked = [t.linked EXCEPT ![n] = Closed] /\ u.linked[n] = Closed
<1>1. Unlink(t, n) = [t EXCEPT !.linked[n] = Closed]
    BY CheckedTrue DEF Unlink
<1> QED BY <1>1, LinkSet

LEMMA SameNodesTrans ==
  ASSUME NEW t, NEW u, NEW v, SameNodes(t, u), SameNodes(u, v)
  PROVE  SameNodes(t, v)
BY DEF SameNodes

(* One node counted in: its parent is to be counted in if it was not active. *)
LEMMA IncrStepFacts ==
  ASSUME NEW par \in Parents, Hangs(par), NEW t, NEW n \in OpenIn(par), Underway(par, t, n, Root),
         t.parent[n] = par[n]
  PROVE  LET r == IncrStep([tree |-> t, at |-> n])
         IN /\ r = [tree |-> r.tree, at |-> r.at]
            /\ r.at \in {Root, par[n]} /\ SameNodes(t, r.tree) /\ Underway(par, r.tree, r.at, Root)
<1> DEFINE s == [tree |-> t, at |-> n]
           r == IncrStep(s)
           u == [t EXCEPT !.cnt[n] = t.cnt[n] + 1]
<1>0. /\ n \in Nodes /\ n # Root /\ par[n] # n /\ par[n] \in Inner /\ par[n] # Closed
      /\ Root \notin Nodes
    BY ParentOpen, NodeFacts DEF OpenIn
<1>1. /\ t \in Tree /\ t.cnt \in [Nodes -> Nat] /\ Balanced(par, t, n, Root) /\ LinksOK(par, t)
    BY DEF Underway
<1>2. /\ u \in Tree /\ SameNodes(t, u) /\ u.linked = t.linked
      /\ u.cnt = [t.cnt EXCEPT ![n] = t.cnt[n] + 1] /\ u.cnt[n] = t.cnt[n] + 1
  <2>1. t.cnt[n] + 1 \in Int
      BY <1>0, <1>1
  <2> QED BY <1>0, <1>1, <2>1, CountSet
<1>3. r = IF u.cnt[n] # 1 THEN [tree |-> u, at |-> Root]
          ELSE [tree |-> Link(u, u.parent[n], n), at |-> u.parent[n]]
    BY <1>0 DEF IncrStep
<1> HIDE DEF r, s, u
<1>4. u.parent[n] = par[n] /\ u.cnt \in [Nodes -> Nat] /\ u.self = t.self
    BY <1>0, <1>1, <1>2 DEF SameNodes
<1>5. \A y \in Nodes \ {n} : u.cnt[y] = t.cnt[y]
    BY <1>1, <1>2
<1>6. ASSUME NEW x \in Nodes
      PROVE  Expect(par, u.cnt, u.self, x) =
                Expect(par, t.cnt, t.self, x) + Ind(par[n] = x) - Adds(par, t.cnt, n, x)
  <2>1. u.cnt[n] > 0
      BY <1>0, <1>1, <1>2
  <2>2. Adds(par, u.cnt, n, x) = Ind(par[n] = x)
      BY <2>1 DEF Ind, Adds
  <2>3. Expect(par, u.cnt, t.self, x) =
           Expect(par, t.cnt, t.self, x) + Adds(par, u.cnt, n, x) - Adds(par, t.cnt, n, x)
    <3>1. \A y \in Nodes \ {n} : par[y] = par[y] /\ u.cnt[y] = t.cnt[y]
        BY <1>5
    <3> QED BY <1>0, <3>1, ExpectChange
  <2> QED BY <2>2, <2>3, <1>4
<1>7. CASE t.cnt[n] = 0
  <2> DEFINE v == Link(u, par[n], n)
  <2>1. r = [tree |-> v, at |-> par[n]]
      BY <1>2, <1>3, <1>4, <1>7
  <2>2. u.linked[n] = Closed
      BY <1>0, <1>1, <1>2, <1>7 DEF LinksOK
  <2>3. /\ v \in Tree /\ SameNodes(u, v) /\ v.cnt = u.cnt
        /\ v.linked = [u.linked EXCEPT ![n] = par[n]] /\ v.linked[n] = par[n]
      BY <1>0, <1>2, <2>2, QueueSet
  <2> HIDE DEF v
  <2>4. LinksOK(par, v)
    <3>1. u.linked \in [Nodes -> Inner \cup {Closed}]
        BY <1>2 DEF Tree
    <3> QED BY <1>0, <1>1, <1>2, <1>5, <2>3, <3>1 DEF LinksOK
  <2>5. ASSUME NEW x \in Nodes
        PROVE  v.cnt[x] + Ind(x = par[n]) - Ind(x = Root) = Expect(par, v.cnt, v.self, x)
    <3>1. t.cnt[x] + Ind(x = n) - Ind(x = Root) = Expect(par, t.cnt, t.self, x)
        BY <1>1 DEF Balanced
    <3>2. v.cnt[x] = t.cnt[x] + Ind(x = n)
        BY <1>1, <1>2, <1>5, <2>3 DEF Ind
    <3>3. Adds(par, t.cnt, n, x) = 0 /\ Ind(x = par[n]) = Ind(par[n] = x)
        BY <1>7 DEF Ind, Adds
    <3>4. Expect(par, v.cnt, v.self, x) = Expect(par, u.cnt, u.self, x)
        BY <2>3 DEF SameNodes
    <3>5. Expect(par, t.cnt, t.self, x) \in Nat /\ Ind(par[n] = x) \in Int /\ Ind(x = n) \in Int /\ Ind(x = Root) \in Int /\ t.cnt[x] \in Nat
        BY <1>1, ExpectFacts, IndFacts
    <3> QED BY <3>1, <3>2, <3>3, <3>4, <3>5, <1>6
  <2>6. v.cnt \in [Nodes -> Nat] /\ SameNodes(t, v)
      BY <1>2, <1>4, <2>3 DEF SameNodes
  <2>7. r.tree = v /\ r.at = par[n]
      BY <2>1
  <2> QED BY <2>1, <2>3, <2>4, <2>5, <2>6, <2>7 DEF Underway, Balanced, r, s
<1>8. CASE t.cnt[n] # 0
  <2>1. r = [tree |-> u, at |-> Root]
      BY <1>0, <1>1, <1>2, <1>3, <1>8
  <2>2. LinksOK(par, u)
      BY <1>0, <1>1, <1>2, <1>5, <1>8 DEF LinksOK
  <2>3. ASSUME NEW x \in Nodes
        PROVE  u.cnt[x] + Ind(x = Root) - Ind(x = Root) = Expect(par, u.cnt, u.self, x)
    <3>1. t.cnt[x] + Ind(x = n) - Ind(x = Root) = Expect(par, t.cnt, t.self, x)
        BY <1>1 DEF Balanced
    <3>2. u.cnt[x] = t.cnt[x] + Ind(x = n)
        BY <1>1, <1>2, <1>5 DEF Ind
    <3>3. Adds(par, t.cnt, n, x) = Ind(par[n] = x)
        BY <1>0, <1>1, <1>8 DEF Ind, Adds
    <3>4. Expect(par, t.cnt, t.self, x) \in Nat /\ Ind(par[n] = x) \in Int /\ Ind(x = n) \in Int /\ Ind(x = Root) = 0 /\ t.cnt[x] \in Nat
        BY <1>0, <1>1, ExpectFacts DEF Ind
    <3> QED BY <3>1, <3>2, <3>3, <3>4, <1>6
  <2>4. r.tree = u /\ r.at = Root
      BY <2>1
  <2> QED BY <2>1, <2>2, <2>3, <2>4, <1>2, <1>4 DEF Underway, Balanced, r, s
<1> QED BY <1>7, <1>8 DEF r, s

(* One node counted out, which has a count: its parent is to be counted out  *)
(* if it is not active any more.                                             *)
LEMMA DecrStepFacts ==
  ASSUME NEW par \in Parents, Hangs(par), NEW t, NEW n \in OpenIn(par), NEW up, Underway(par, t, up, n),
         t.parent[n] = par[n], up = n => Expect(par, t.cnt, t.self, n) > 0
  PROVE  LET r == DecrStep([tree |-> t, at |-> n])
         IN /\ r = [tree |-> r.tree, at |-> r.at]
            /\ r.at \in {Root, par[n]} /\ SameNodes(t, r.tree) /\ Underway(par, r.tree, up, r.at)
            /\ \A y \in Nodes \ {n} : r.tree.cnt[y] = t.cnt[y]
<1> DEFINE s == [tree |-> t, at |-> n]
           r == DecrStep(s)
           u == [t EXCEPT !.cnt[n] = t.cnt[n] - 1]
<1>0. /\ n \in Nodes /\ n # Root /\ par[n] # n /\ par[n] \in Inner /\ par[n] # Closed
      /\ Root \notin Nodes
    BY ParentOpen, NodeFacts DEF OpenIn
<1>1. /\ t \in Tree /\ t.cnt \in [Nodes -> Nat] /\ Balanced(par, t, up, n) /\ LinksOK(par, t)
    BY DEF Underway
<1>2. /\ u \in Tree /\ SameNodes(t, u) /\ u.linked = t.linked
      /\ u.cnt = [t.cnt EXCEPT ![n] = t.cnt[n] - 1] /\ u.cnt[n] = t.cnt[n] - 1
  <2>1. t.cnt[n] - 1 \in Int
      BY <1>0, <1>1
  <2> QED BY <1>0, <1>1, <2>1, CountSet
<1>3. r = IF u.cnt[n] # 0 THEN [tree |-> u, at |-> Root]
          ELSE [tree |-> Unlink(u, n), at |-> u.parent[n]]
    BY <1>0 DEF DecrStep
<1> HIDE DEF r, s, u
<1>a. t.cnt[n] > 0
  <2>1. t.cnt[n] + Ind(n = up) - Ind(n = n) = Expect(par, t.cnt, t.self, n)
      BY <1>0, <1>1 DEF Balanced
  <2>2. Expect(par, t.cnt, t.self, n) \in Nat /\ t.cnt[n] \in Nat
      BY <1>0, <1>1, ExpectFacts
  <2>3. CASE up = n
      BY <2>1, <2>2, <2>3 DEF Ind
  <2>4. CASE up # n
      BY <2>1, <2>2, <2>4 DEF Ind
  <2> QED BY <2>3, <2>4
<1>4. u.parent[n] = par[n] /\ u.cnt \in [Nodes -> Nat] /\ u.self = t.self
    BY <1>0, <1>1, <1>2, <1>a DEF SameNodes
<1>5. \A y \in Nodes \ {n} : u.cnt[y] = t.cnt[y]
    BY <1>1, <1>2
<1>6. ASSUME NEW x \in Nodes
      PROVE  Expect(par, u.cnt, u.self, x) =
                Expect(par, t.cnt, t.self, x) + Adds(par, u.cnt, n, x) - Ind(par[n] = x)
  <2>2. Adds(par, t.cnt, n, x) = Ind(par[n] = x)
      BY <1>a DEF Ind, Adds
  <2>3. Expect(par, u.cnt, t.self, x) =
           Expect(par, t.cnt, t.self, x) + Adds(par, u.cnt, n, x) - Adds(par, t.cnt, n, x)
    <3>1. \A y \in Nodes \ {n} : par[y] = par[y] /\ u.cnt[y] = t.cnt[y]
        BY <1>5
    <3> QED BY <1>0, <3>1, ExpectChange
  <2> QED BY <2>2, <2>3, <1>4
<1>7. CASE t.cnt[n] = 1
  <2> DEFINE v == Unlink(u, n)
  <2>1. r = [tree |-> v, at |-> par[n]]
      BY <1>2, <1>3, <1>4, <1>7
  <2>2. u.linked[n] # Closed
      BY <1>0, <1>1, <1>2, <1>7 DEF LinksOK
  <2>3. /\ v \in Tree /\ SameNodes(u, v) /\ v.cnt = u.cnt
        /\ v.linked = [u.linked EXCEPT ![n] = Closed] /\ v.linked[n] = Closed
      BY <1>0, <1>2, <2>2, QueueUnset
  <2> HIDE DEF v
  <2>4. LinksOK(par, v)
    <3>1. u.linked \in [Nodes -> Inner \cup {Closed}]
        BY <1>2 DEF Tree
    <3> QED BY <1>0, <1>1, <1>2, <1>5, <1>7, <2>3, <3>1 DEF LinksOK
  <2>5. ASSUME NEW x \in Nodes
        PROVE  v.cnt[x] + Ind(x = up) - Ind(x = par[n]) = Expect(par, v.cnt, v.self, x)
    <3>1. t.cnt[x] + Ind(x = up) - Ind(x = n) = Expect(par, t.cnt, t.self, x)
        BY <1>1 DEF Balanced
    <3>2. v.cnt[x] = t.cnt[x] - Ind(x = n)
        BY <1>1, <1>2, <1>5, <2>3 DEF Ind
    <3>3. Adds(par, u.cnt, n, x) = 0 /\ Ind(x = par[n]) = Ind(par[n] = x)
        BY <1>7, <1>2 DEF Ind, Adds
    <3>4. Expect(par, v.cnt, v.self, x) = Expect(par, u.cnt, u.self, x)
        BY <2>3 DEF SameNodes
    <3>5. Expect(par, t.cnt, t.self, x) \in Nat /\ Ind(par[n] = x) \in Int /\ Ind(x = n) \in Int /\ Ind(x = up) \in Int /\ t.cnt[x] \in Nat
        BY <1>1, ExpectFacts DEF Ind
    <3> QED BY <3>1, <3>2, <3>3, <3>4, <3>5, <1>6
  <2>6. v.cnt \in [Nodes -> Nat] /\ SameNodes(t, v)
      BY <1>2, <1>4, <2>3 DEF SameNodes
  <2>7. r.tree = v /\ r.at = par[n]
      BY <2>1
  <2> QED BY <2>1, <2>3, <2>4, <2>5, <2>6, <2>7, <1>5 DEF Underway, Balanced, r, s
<1>8. CASE t.cnt[n] # 1
  <2>1. r = [tree |-> u, at |-> Root] /\ u.cnt[n] > 0
      BY <1>0, <1>1, <1>2, <1>3, <1>8, <1>a
  <2>2. LinksOK(par, u)
      BY <1>0, <1>1, <1>2, <1>5, <2>1, <1>a DEF LinksOK
  <2>3. ASSUME NEW x \in Nodes
        PROVE  u.cnt[x] + Ind(x = up) - Ind(x = Root) = Expect(par, u.cnt, u.self, x)
    <3>1. t.cnt[x] + Ind(x = up) - Ind(x = n) = Expect(par, t.cnt, t.self, x)
        BY <1>1 DEF Balanced
    <3>2. u.cnt[x] = t.cnt[x] - Ind(x = n)
        BY <1>1, <1>2, <1>5 DEF Ind
    <3>3. Adds(par, u.cnt, n, x) = Ind(par[n] = x)
        BY <2>1 DEF Ind, Adds
    <3>4. Expect(par, t.cnt, t.self, x) \in Nat /\ Ind(par[n] = x) \in Int /\ Ind(x = n) \in Int /\ Ind(x = up) \in Int /\ Ind(x = Root) = 0 /\ t.cnt[x] \in Nat
        BY <1>0, <1>1, ExpectFacts DEF Ind
    <3> QED BY <3>1, <3>2, <3>3, <3>4, <1>6
  <2>4. r.tree = u /\ r.at = Root
      BY <2>1
  <2> QED BY <2>1, <2>2, <2>3, <2>4, <1>2, <1>4, <1>5 DEF Underway, Balanced, r, s
<1> QED BY <1>7, <1>8 DEF r, s

(* The climb of incr_active_cnt is defined by recursion. *)
IncrUpTo(t, n, len, f) ==
    f = [k \in 0 .. len |-> IF k = 0 THEN [tree |-> t, at |-> n] ELSE IncrStep(f[k - 1])]

LEMMA IncrExists ==
  ASSUME NEW t, NEW n, NEW N \in Nat
  PROVE  \E f : IncrUpTo(t, n, N, f)
<1> DEFINE Bad == {e \in Nat : ~ \E f : IncrUpTo(t, n, e, f)}
<1>1. SUFFICES ASSUME Bad # {} PROVE FALSE
    OBVIOUS
<1>2. PICK b \in Bad : \A m \in Bad : b <= m
    BY <1>1, LeastNat
<1>3. CASE b = 0
  <2> DEFINE f == [k \in 0 .. 0 |-> [tree |-> t, at |-> n]]
  <2>1. f = [k \in 0 .. 0 |-> IF k = 0 THEN [tree |-> t, at |-> n] ELSE IncrStep(f[k - 1])]
      OBVIOUS
  <2> HIDE DEF f
  <2>2. IncrUpTo(t, n, 0, f)
      BY <2>1 DEF IncrUpTo
  <2> QED BY <1>2, <1>3, <2>2
<1>4. CASE b # 0
  <2>1. b \in Nat /\ b - 1 \in Nat /\ b - 1 \notin Bad
      BY <1>2, <1>4
  <2>2. PICK f : IncrUpTo(t, n, b - 1, f)
      BY <2>1
  <2> DEFINE last == IncrStep(f[b - 1])
             g == [k \in 0 .. b |-> IF k = b THEN last ELSE f[k]]
             Body(k) == IF k = 0 THEN [tree |-> t, at |-> n] ELSE IncrStep(g[k - 1])
  <2>3. ASSUME NEW k \in 0 .. b PROVE g[k] = Body(k)
    <3>1. CASE k = b
      <4>1. k # 0 /\ k - 1 = b - 1 /\ k - 1 \in 0 .. b /\ k - 1 # b
          BY <1>4, <2>1, <3>1
      <4>2. g[k - 1] = f[b - 1] /\ g[k] = last
          BY <3>1, <4>1
      <4> HIDE DEF g
      <4> QED BY <3>1, <4>1, <4>2
    <3>2. CASE k # b
      <4>1. k \in 0 .. b - 1 /\ (k # 0 => k - 1 \in 0 .. b /\ k - 1 # b)
          BY <2>1, <3>2
      <4>2. g[k] = f[k] /\ (k # 0 => g[k - 1] = f[k - 1])
          BY <3>2, <4>1
      <4>3. f[k] = IF k = 0 THEN [tree |-> t, at |-> n] ELSE IncrStep(f[k - 1])
          BY <2>2, <4>1 DEF IncrUpTo
      <4> HIDE DEF g
      <4> QED BY <4>2, <4>3
    <3> QED BY <3>1, <3>2
  <2>4. g = [k \in 0 .. b |-> Body(k)]
    <3>1. g = [k \in 0 .. b |-> g[k]]
        OBVIOUS
    <3> HIDE DEF g, Body
    <3> QED BY <2>3, <3>1
  <2> HIDE DEF g
  <2>5. IncrUpTo(t, n, b, g)
      BY <2>4 DEF IncrUpTo
  <2> QED BY <1>2, <2>5
<1> QED BY <1>3, <1>4

LEMMA IncrRec ==
  ASSUME NEW t, NEW n
  PROVE  /\ IncrClimb(t, n)[0] = [tree |-> t, at |-> n]
         /\ \A k \in 1 .. Cardinality(Nodes) : IncrClimb(t, n)[k] = IncrStep(IncrClimb(t, n)[k - 1])
<1> DEFINE N == Cardinality(Nodes)
<1>1. IncrClimb(t, n) = CHOOSE f : IncrUpTo(t, n, N, f)
    BY DEF IncrClimb, IncrUpTo
<1>2. IncrUpTo(t, n, N, IncrClimb(t, n))
    BY <1>1, IncrExists, NodeFacts
<1>3. 0 \in 0 .. N /\ \A k \in 1 .. N : k \in 0 .. N /\ k # 0
    BY NodeFacts
<1> QED BY <1>2, <1>3 DEF IncrUpTo

(* The climb of decr_active_cnt is defined by recursion. *)
DecrUpTo(t, n, len, f) ==
    f = [k \in 0 .. len |-> IF k = 0 THEN [tree |-> t, at |-> n] ELSE DecrStep(f[k - 1])]

LEMMA DecrExists ==
  ASSUME NEW t, NEW n, NEW N \in Nat
  PROVE  \E f : DecrUpTo(t, n, N, f)
<1> DEFINE Bad == {e \in Nat : ~ \E f : DecrUpTo(t, n, e, f)}
<1>1. SUFFICES ASSUME Bad # {} PROVE FALSE
    OBVIOUS
<1>2. PICK b \in Bad : \A m \in Bad : b <= m
    BY <1>1, LeastNat
<1>3. CASE b = 0
  <2> DEFINE f == [k \in 0 .. 0 |-> [tree |-> t, at |-> n]]
  <2>1. f = [k \in 0 .. 0 |-> IF k = 0 THEN [tree |-> t, at |-> n] ELSE DecrStep(f[k - 1])]
      OBVIOUS
  <2> HIDE DEF f
  <2>2. DecrUpTo(t, n, 0, f)
      BY <2>1 DEF DecrUpTo
  <2> QED BY <1>2, <1>3, <2>2
<1>4. CASE b # 0
  <2>1. b \in Nat /\ b - 1 \in Nat /\ b - 1 \notin Bad
      BY <1>2, <1>4
  <2>2. PICK f : DecrUpTo(t, n, b - 1, f)
      BY <2>1
  <2> DEFINE last == DecrStep(f[b - 1])
             g == [k \in 0 .. b |-> IF k = b THEN last ELSE f[k]]
             Body(k) == IF k = 0 THEN [tree |-> t, at |-> n] ELSE DecrStep(g[k - 1])
  <2>3. ASSUME NEW k \in 0 .. b PROVE g[k] = Body(k)
    <3>1. CASE k = b
      <4>1. k # 0 /\ k - 1 = b - 1 /\ k - 1 \in 0 .. b /\ k - 1 # b
          BY <1>4, <2>1, <3>1
      <4>2. g[k - 1] = f[b - 1] /\ g[k] = last
          BY <3>1, <4>1
      <4> HIDE DEF g
      <4> QED BY <3>1, <4>1, <4>2
    <3>2. CASE k # b
      <4>1. k \in 0 .. b - 1 /\ (k # 0 => k - 1 \in 0 .. b /\ k - 1 # b)
          BY <2>1, <3>2
      <4>2. g[k] = f[k] /\ (k # 0 => g[k - 1] = f[k - 1])
          BY <3>2, <4>1
      <4>3. f[k] = IF k = 0 THEN [tree |-> t, at |-> n] ELSE DecrStep(f[k - 1])
          BY <2>2, <4>1 DEF DecrUpTo
      <4> HIDE DEF g
      <4> QED BY <4>2, <4>3
    <3> QED BY <3>1, <3>2
  <2>4. g = [k \in 0 .. b |-> Body(k)]
    <3>1. g = [k \in 0 .. b |-> g[k]]
        OBVIOUS
    <3> HIDE DEF g, Body
    <3> QED BY <2>3, <3>1
  <2> HIDE DEF g
  <2>5. DecrUpTo(t, n, b, g)
      BY <2>4 DEF DecrUpTo
  <2> QED BY <1>2, <2>5
<1> QED BY <1>3, <1>4

LEMMA DecrRec ==
  ASSUME NEW t, NEW n
  PROVE  /\ DecrClimb(t, n)[0] = [tree |-> t, at |-> n]
         /\ \A k \in 1 .. Cardinality(Nodes) : DecrClimb(t, n)[k] = DecrStep(DecrClimb(t, n)[k - 1])
<1> DEFINE N == Cardinality(Nodes)
<1>1. DecrClimb(t, n) = CHOOSE f : DecrUpTo(t, n, N, f)
    BY DEF DecrClimb, DecrUpTo
<1>2. DecrUpTo(t, n, N, DecrClimb(t, n))
    BY <1>1, DecrExists, NodeFacts
<1>3. 0 \in 0 .. N /\ \A k \in 1 .. N : k \in 0 .. N /\ k # 0
    BY NodeFacts
<1> QED BY <1>2, <1>3 DEF DecrUpTo

LEMMA ExpectPositive ==
  ASSUME NEW par, NEW cnt, NEW self, NEW x, NEW m \in Nodes, par[m] = x, cnt[m] > 0
  PROVE  Expect(par, cnt, self, x) > 0
<1> DEFINE A == {kid \in Nodes : par[kid] = x /\ cnt[kid] > 0}
<1>1. IsFiniteSet(A) /\ m \in A
    BY NodeFacts, FS_Subset
<1>2. Cardinality(A) \in Nat /\ Cardinality(A) # 0
    BY <1>1, FS_CardinalityType, FS_EmptySet
<1> QED BY <1>2, IndFacts DEF Expect

(* A node of a set that the parents do not leave is open. *)
LEMMA ClosedUpOpen ==
  ASSUME NEW par \in Parents, NEW A, ClosedUp(par, A), NEW x \in A, x # Root
  PROVE  x \in OpenIn(par) /\ par[x] \in A
BY NodeFacts DEF ClosedUp, OpenIn, Inner

(* incr_active_cnt counts in whatever is to be counted in, all the way up. *)
LEMMA IncrFacts ==
  ASSUME NEW par \in Parents, Hangs(par), NEW t, NEW A, ClosedUp(par, A), NEW n \in A,
         \A x \in A \ {Root} : t.parent[x] = par[x], Underway(par, t, n, Root)
  PROVE  LET u == incr_active_cnt(t, n)
         IN SameNodes(t, u) /\ Underway(par, u, Root, Root)
<1> DEFINE N == Cardinality(Nodes)
           f == IncrClimb(t, n)
           Got(k) == /\ f[k] = [tree |-> f[k].tree, at |-> f[k].at]
                     /\ f[k].at \in A \cup {Root} /\ SameNodes(t, f[k].tree)
                     /\ Underway(par, f[k].tree, f[k].at, Root)
                     /\ f[k].at = Root \/ Height(par, f[k].at) < N - k
<1>1. f[0] = [tree |-> t, at |-> n] /\ \A k \in 1 .. N : f[k] = IncrStep(f[k - 1])
    BY IncrRec
<1>2. N \in Nat
    BY NodeFacts
<1>3. Got(0)
  <2>1. f[0].tree = t /\ f[0].at = n
      BY <1>1
  <2>2. n # Root => n \in OpenIn(par)
      BY ClosedUpOpen
  <2>3. n = Root \/ Height(par, n) < N - 0
      BY <1>2, <2>2, HeightFacts
  <2> HIDE DEF f
  <2> QED BY <1>1, <2>1, <2>3 DEF SameNodes
<1>4. ASSUME NEW k \in 1 .. N, Got(k - 1) PROVE Got(k)
  <2> DEFINE s == f[k - 1]
             r == IncrStep(s)
  <2>1. f[k] = r
      BY <1>1
  <2>2. CASE s.at = Root
    <3>1. r = s
        BY <2>2 DEF IncrStep
    <3> HIDE DEF f
    <3> QED BY <1>4, <2>1, <2>2, <3>1
  <2>3. CASE s.at # Root
    <3>1. s.at \in OpenIn(par) /\ par[s.at] \in A /\ s.tree.parent[s.at] = par[s.at]
      <4>1. s.at \in A
          BY <1>4, <2>3
      <4> QED BY <1>4, <2>3, <4>1, ClosedUpOpen DEF SameNodes
    <3>2. s = [tree |-> s.tree, at |-> s.at]
        BY <1>4
    <3>3. /\ r = [tree |-> r.tree, at |-> r.at]
          /\ r.at \in {Root, par[s.at]} /\ SameNodes(s.tree, r.tree) /\ Underway(par, r.tree, r.at, Root)
      <4> DEFINE st == s.tree
                 sa == s.at
      <4>1. Underway(par, st, sa, Root) /\ st.parent[sa] = par[sa] /\ s = [tree |-> st, at |-> sa]
          BY <1>4, <3>1, <3>2
      <4>3. r = IncrStep([tree |-> st, at |-> sa]) /\ sa \in OpenIn(par)
          BY <3>1, <4>1
      <4> HIDE DEF st, sa, r
      <4>4. /\ r = [tree |-> r.tree, at |-> r.at]
            /\ r.at \in {Root, par[sa]} /\ SameNodes(st, r.tree) /\ Underway(par, r.tree, r.at, Root)
          BY <4>1, <4>3, IncrStepFacts
      <4> QED BY <4>4 DEF st, sa
    <3>4. SameNodes(t, r.tree)
        BY <1>4, <3>3, SameNodesTrans
    <3>5. r.at = Root \/ Height(par, r.at) < N - k
      <4>1. Height(par, s.at) < N - (k - 1) /\ Height(par, s.at) \in Nat
          BY <1>4, <2>3, <3>1, HeightFacts
      <4>2. par[s.at] # Root => Height(par, par[s.at]) \in Nat /\ Height(par, par[s.at]) < Height(par, s.at)
          BY <3>1, HeightFacts
      <4> HIDE DEF f, r, s
      <4> QED BY <1>2, <3>3, <4>1, <4>2
    <3> HIDE DEF f, r, s
    <3> QED BY <2>1, <3>1, <3>3, <3>4, <3>5
  <2> QED BY <2>2, <2>3
<1>5. ASSUME NEW k \in 0 .. N PROVE Got(k)
  <2> DEFINE Bad == {j \in 0 .. N : ~Got(j)}
  <2>1. SUFFICES ASSUME Bad # {} PROVE FALSE
      OBVIOUS
  <2> HIDE DEF Got, f
  <2>2. PICK j \in Bad : \A i \in Bad : j <= i
    <3>1. Bad \in SUBSET Nat
        BY <1>2
    <3> QED BY <2>1, <3>1, LeastNat
  <2>3. j # 0 /\ j \in 1 .. N /\ j - 1 \in 0 .. N /\ j - 1 \notin Bad
      BY <1>2, <1>3, <2>2
  <2> QED BY <1>4, <2>2, <2>3
<1>6. Got(N) /\ N \in Nat
    BY <1>2, <1>5
<1>7. f[N].at = Root
  <2>1. f[N].at # Root => f[N].at \in OpenIn(par)
      BY <1>6, ClosedUpOpen
  <2>2. f[N].at # Root => Height(par, f[N].at) \in Nat
      BY <2>1, HeightFacts
  <2> HIDE DEF f
  <2> QED BY <1>6, <2>2
<1>8. incr_active_cnt(t, n) = f[N].tree
    BY DEF incr_active_cnt
<1> HIDE DEF f
<1> QED BY <1>6, <1>7, <1>8

(* decr_active_cnt counts out whatever is to be counted out, also where some *)
(* node m outside of the path has just been moved below one of the path.     *)
LEMMA DecrFacts ==
  ASSUME NEW par \in Parents, Hangs(par), NEW t, NEW A, ClosedUp(par, A), NEW n \in A,
         \A x \in A \ {Root} : t.parent[x] = par[x], NEW up, Underway(par, t, up, n),
         NEW m, up # Root => m \in Nodes \ A /\ par[m] = up /\ t.cnt[m] > 0
  PROVE  LET u == decr_active_cnt(t, n)
         IN SameNodes(t, u) /\ Underway(par, u, up, Root) /\ \A y \in Nodes \ A : u.cnt[y] = t.cnt[y]
<1> DEFINE N == Cardinality(Nodes)
           f == DecrClimb(t, n)
           Got(k) == /\ f[k] = [tree |-> f[k].tree, at |-> f[k].at]
                     /\ f[k].at \in A \cup {Root} /\ SameNodes(t, f[k].tree)
                     /\ Underway(par, f[k].tree, up, f[k].at)
                     /\ \A y \in Nodes \ A : f[k].tree.cnt[y] = t.cnt[y]
                     /\ f[k].at = Root \/ Height(par, f[k].at) < N - k
<1>1. f[0] = [tree |-> t, at |-> n] /\ \A k \in 1 .. N : f[k] = DecrStep(f[k - 1])
    BY DecrRec
<1>2. N \in Nat
    BY NodeFacts
<1>3. Got(0)
  <2>1. f[0].tree = t /\ f[0].at = n
      BY <1>1
  <2>2. n # Root => n \in OpenIn(par)
      BY ClosedUpOpen
  <2>3. n = Root \/ Height(par, n) < N - 0
      BY <1>2, <2>2, HeightFacts
  <2> HIDE DEF f
  <2> QED BY <1>1, <2>1, <2>3 DEF SameNodes
<1>4. ASSUME NEW k \in 1 .. N, Got(k - 1) PROVE Got(k)
  <2> DEFINE s == f[k - 1]
             r == DecrStep(s)
  <2>1. f[k] = r
      BY <1>1
  <2>2. CASE s.at = Root
    <3>1. r = s
        BY <2>2 DEF DecrStep
    <3> HIDE DEF f
    <3> QED BY <1>4, <2>1, <2>2, <3>1
  <2>3. CASE s.at # Root
    <3>0. s.at \in A
        BY <1>4, <2>3
    <3>1. s.at \in OpenIn(par) /\ par[s.at] \in A /\ s.tree.parent[s.at] = par[s.at]
        BY <1>4, <2>3, <3>0, ClosedUpOpen DEF SameNodes
    <3>2. s = [tree |-> s.tree, at |-> s.at]
        BY <1>4
    <3>3. /\ r = [tree |-> r.tree, at |-> r.at]
          /\ r.at \in {Root, par[s.at]} /\ SameNodes(s.tree, r.tree) /\ Underway(par, r.tree, up, r.at)
          /\ \A y \in Nodes \ {s.at} : r.tree.cnt[y] = s.tree.cnt[y]
      <4> DEFINE st == s.tree
                 sa == s.at
      <4>1. Underway(par, st, up, sa) /\ st.parent[sa] = par[sa] /\ s = [tree |-> st, at |-> sa]
          BY <1>4, <3>1, <3>2
      <4>2. up = sa => Expect(par, st.cnt, st.self, sa) > 0
        <5>1. up # Root => m \in Nodes \ A /\ st.cnt[m] = t.cnt[m]
            BY <1>4
        <5> HIDE DEF st, sa
        <5> QED BY <2>3, <5>1, ExpectPositive DEF sa
      <4>3. r = DecrStep([tree |-> st, at |-> sa]) /\ sa \in OpenIn(par)
          BY <3>1, <4>1
      <4> HIDE DEF st, sa, r
      <4>4. /\ r = [tree |-> r.tree, at |-> r.at]
            /\ r.at \in {Root, par[sa]} /\ SameNodes(st, r.tree) /\ Underway(par, r.tree, up, r.at)
            /\ \A y \in Nodes \ {sa} : r.tree.cnt[y] = st.cnt[y]
          BY <4>1, <4>2, <4>3, DecrStepFacts
      <4> QED BY <4>4 DEF st, sa
    <3>4. SameNodes(t, r.tree)
        BY <1>4, <3>3, SameNodesTrans
    <3>5. r.at = Root \/ Height(par, r.at) < N - k
      <4>1. Height(par, s.at) < N - (k - 1) /\ Height(par, s.at) \in Nat
          BY <1>4, <2>3, <3>1, HeightFacts
      <4>2. par[s.at] # Root => Height(par, par[s.at]) \in Nat /\ Height(par, par[s.at]) < Height(par, s.at)
          BY <3>1, HeightFacts
      <4> HIDE DEF f, r, s
      <4> QED BY <1>2, <3>3, <4>1, <4>2
    <3>6. \A y \in Nodes \ A : r.tree.cnt[y] = t.cnt[y]
        BY <1>4, <3>0, <3>3
    <3> HIDE DEF f, r, s
    <3> QED BY <2>1, <3>1, <3>3, <3>4, <3>5, <3>6
  <2> QED BY <2>2, <2>3
<1>5. ASSUME NEW k \in 0 .. N PROVE Got(k)
  <2> DEFINE Bad == {j \in 0 .. N : ~Got(j)}
  <2>1. SUFFICES ASSUME Bad # {} PROVE FALSE
      OBVIOUS
  <2> HIDE DEF Got, f
  <2>2. PICK j \in Bad : \A i \in Bad : j <= i
    <3>1. Bad \in SUBSET Nat
        BY <1>2
    <3> QED BY <2>1, <3>1, LeastNat
  <2>3. j # 0 /\ j \in 1 .. N /\ j - 1 \in 0 .. N /\ j - 1 \notin Bad
      BY <1>2, <1>3, <2>2
  <2> QED BY <1>4, <2>2, <2>3
<1>6. Got(N) /\ N \in Nat
    BY <1>2, <1>5
<1>7. f[N].at = Root
  <2>1. f[N].at # Root => f[N].at \in OpenIn(par)
      BY <1>6, ClosedUpOpen
  <2>2. f[N].at # Root => Height(par, f[N].at) \in Nat
      BY <2>1, HeightFacts
  <2> HIDE DEF f
  <2> QED BY <1>6, <2>2
<1>8. decr_active_cnt(t, n) = f[N].tree
    BY DEF decr_active_cnt
<1> HIDE DEF f
<1> QED BY <1>6, <1>7, <1>8

(* Every list holds the nodes that have its owner as parent. *)
Listed(par, refs) ==
    \A p \in Inner : Distinct(refs[p]) /\ Elements(refs[p]) = {n \in Nodes : par[n] = p}

(* Only open nodes are active. *)
Idle(par, self) == \A n \in Nodes : self[n] => n \in OpenIn(par)

(* The invariant of the tree between two operations *)
Sane(t) ==
    /\ t.ok /\ Hangs(t.parent) /\ Listed(t.parent, t.refs) /\ Idle(t.parent, t.self)
    /\ Underway(t.parent, t, Root, Root)

(* The lists after n was unlinked from q and appended to p *)
Relisted(refs, n, q, p) ==
    LET r == [refs EXCEPT ![q] = Without(@, {n})] IN [r EXCEPT ![p] = Append(@, n)]

LEMMA SaneFacts ==
  ASSUME NEW t, Sane(t)
  PROVE  /\ t \in Tree /\ t.cnt \in [Nodes -> Nat] /\ t.parent \in Parents /\ Hangs(t.parent) /\ t.ok
         /\ t.refs \in [Inner -> Seq(Nodes)] /\ t.weight \in [Nodes -> 1 .. TopWeight + 1]
         /\ t.self \in [Nodes -> BOOLEAN] /\ t.linked \in [Nodes -> Inner \cup {Closed}]
         /\ Balanced(t.parent, t, Root, Root) /\ LinksOK(t.parent, t) /\ Listed(t.parent, t.refs)
         /\ Idle(t.parent, t.self) /\ \A x \in Nodes : t.cnt[x] = Expect(t.parent, t.cnt, t.self, x)
<1>1. /\ t \in Tree /\ t.cnt \in [Nodes -> Nat] /\ Hangs(t.parent) /\ t.ok
      /\ Balanced(t.parent, t, Root, Root) /\ LinksOK(t.parent, t) /\ Listed(t.parent, t.refs)
      /\ Idle(t.parent, t.self)
    BY DEF Sane, Underway
<1>2. /\ t.parent \in Parents /\ t.refs \in [Inner -> Seq(Nodes)] /\ t.weight \in [Nodes -> 1 .. TopWeight + 1]
      /\ t.self \in [Nodes -> BOOLEAN] /\ t.linked \in [Nodes -> Inner \cup {Closed}]
    BY <1>1 DEF Tree, Parents
<1>3. ASSUME NEW x \in Nodes PROVE t.cnt[x] = Expect(t.parent, t.cnt, t.self, x)
  <2>1. t.cnt[x] + Ind(x = Root) - Ind(x = Root) = Expect(t.parent, t.cnt, t.self, x) /\ t.cnt[x] \in Nat
      BY <1>1 DEF Balanced
  <2> QED BY <2>1, IndFacts, ExpectFacts
<1> QED BY <1>1, <1>2, <1>3

(* Only what Underway reads matters to it. *)
LEMMA MidwaySame ==
  ASSUME NEW par, NEW t, NEW u \in Tree, NEW up, NEW down, Underway(par, t, up, down),
         u.cnt = t.cnt, u.self = t.self, u.linked = t.linked
  PROVE  Underway(par, u, up, down)
BY DEF Underway, Balanced, LinksOK

LEMMA ParentSet ==
  ASSUME NEW t \in Tree, NEW n \in Nodes, NEW p \in Inner \cup {Closed}
  PROVE  LET u == [t EXCEPT !.parent[n] = p]
         IN /\ u \in Tree /\ u.parent = [t.parent EXCEPT ![n] = p] /\ u.refs = t.refs
            /\ u.weight = t.weight /\ u.cnt = t.cnt /\ u.self = t.self /\ u.linked = t.linked /\ u.ok = t.ok
BY DEF Tree

LEMMA RelistedFacts ==
  ASSUME NEW par \in Parents, NEW refs \in [Inner -> Seq(Nodes)], NEW n \in Nodes, NEW p \in Inner,
         par[n] \in Inner, Listed(par, refs)
  PROVE  LET new == [par EXCEPT ![n] = p]
             r   == Relisted(refs, n, par[n], p)
         IN /\ r \in [Inner -> Seq(Nodes)]
            /\ Listed(new, r)
<1> DEFINE q == par[n]
           w == Without(refs[q], {n})
           a == [refs EXCEPT ![q] = w]
           r == Relisted(refs, n, q, p)
           new == [par EXCEPT ![n] = p]
<1>1. w \in Seq(Nodes) /\ Distinct(w) /\ Elements(w) = Elements(refs[q]) \ {n}
    BY WithoutFacts DEF Listed
<1>2. /\ a \in [Inner -> Seq(Nodes)]
      /\ \A x \in Inner : Distinct(a[x]) /\ Elements(a[x]) = {m \in Nodes : par[m] = x} \ {n}
  <2>1. a \in [Inner -> Seq(Nodes)] /\ a[q] = w /\ \A x \in Inner \ {q} : a[x] = refs[x]
      BY <1>1
  <2> HIDE DEF w, a
  <2> QED BY <1>1, <2>1 DEF Listed
<1>3. /\ Append(a[p], n) \in Seq(Nodes) /\ Distinct(Append(a[p], n))
      /\ Elements(Append(a[p], n)) = Elements(a[p]) \cup {n}
  <2> HIDE DEF a
  <2>1. a[p] \in Seq(Nodes) /\ Distinct(a[p]) /\ n \notin Elements(a[p])
      BY <1>2
  <2> DEFINE s == a[p]
  <2> HIDE DEF s
  <2>2. s \in Seq(Nodes) /\ Distinct(s) /\ n \notin Elements(s)
      BY <2>1 DEF s
  <2> QED BY <2>2, AppendFacts DEF s
<1>4. r = [a EXCEPT ![p] = Append(a[p], n)]
    BY DEF Relisted
<1>5. \A m \in Nodes : new[m] = IF m = n THEN p ELSE par[m]
    BY DEF Parents
<1> HIDE DEF r, a, new
<1> QED BY <1>2, <1>3, <1>4, <1>5 DEF r, new, Listed

(* do_rebind moves a node below one that does not depend on it: the tree,    *)
(* the counts and the queues are right again afterwards.                     *)
LEMMA MoveFacts ==
  ASSUME NEW t, Sane(t), NEW n \in OpenIn(t.parent), NEW p \in OpenIn(t.parent) \cup {Root},
         NEW A, ClosedUp(t.parent, A), p \in A, n \notin A
  PROVE  LET u == Move(t, n, p)
         IN /\ Sane(u) /\ u.parent = [t.parent EXCEPT ![n] = p]
            /\ u.refs = Relisted(t.refs, n, t.parent[n], p)
            /\ u.weight = t.weight /\ u.self = t.self
<1> DEFINE par == t.parent
           q == par[n]
           new == [par EXCEPT ![n] = p]
           r == Relisted(t.refs, n, q, p)
           v == [t EXCEPT !.refs = r]
           w == IF v.cnt[n] = 0 THEN v
                ELSE incr_active_cnt(decr_active_cnt(Link(Unlink(v, n), p, n), q), p)
           u == Move(t, n, p)
<1>1. /\ t \in Tree /\ t.cnt \in [Nodes -> Nat] /\ par \in Parents /\ Hangs(par) /\ t.ok
      /\ t.refs \in [Inner -> Seq(Nodes)] /\ t.linked \in [Nodes -> Inner \cup {Closed}]
      /\ Balanced(par, t, Root, Root) /\ LinksOK(par, t) /\ Listed(t.parent, t.refs)
    BY SaneFacts
<1>2. /\ n \in Nodes /\ q \in OpenIn(par) \cup {Root} /\ q \in Inner /\ q # Closed /\ p \in Inner /\ p # Closed
      /\ Root \notin Nodes
    BY <1>1, ParentOpen, NodeFacts DEF OpenIn, Inner
<1>3. /\ r \in [Inner -> Seq(Nodes)]
      /\ Listed(new, r)
  <2> HIDE DEF par
  <2> DEFINE rf == t.refs
  <2>2. rf \in [Inner -> Seq(Nodes)] /\ Listed(par, rf)
      BY <1>1 DEF par
  <2> DEFINE rr == Relisted(rf, n, q, p)
  <2> HIDE DEF rf
  <2>3. /\ rr \in [Inner -> Seq(Nodes)]
        /\ Listed(new, rr)
    <3>1. par \in Parents /\ n \in Nodes /\ p \in Inner /\ par[n] \in Inner
        BY <1>1, <1>2
    <3> QED BY <2>2, <3>1, RelistedFacts
  <2>4. rr = r
      BY DEF rf
  <2> HIDE DEF rr, r
  <2> QED BY <2>3, <2>4
<1>4. new \in Parents /\ Hangs(new) /\ OpenIn(new) = OpenIn(par) /\ ClosedUp(new, A)
    BY <1>1, Rehang
<1>5. v \in Tree /\ v.parent = par /\ v.refs = r /\ v.weight = t.weight /\ v.cnt = t.cnt /\ v.self = t.self
      /\ v.linked = t.linked /\ v.ok = t.ok
    BY <1>1, <1>3 DEF Tree
<1>6. u = [w EXCEPT !.parent[n] = p]
  <2> DEFINE o  == [[t EXCEPT !.refs[q] = Without(@, {n})] EXCEPT !.refs[p] = Append(@, n)]
             ow == IF o.cnt[n] = 0 THEN o
                   ELSE incr_active_cnt(decr_active_cnt(Link(Unlink(o, n), p, n), q), p)
  <2>1. v = o
    <3>1. [[t EXCEPT !.refs[q] = Without(@, {n})] EXCEPT !.refs[p] = Append(@, n)]
             = [t EXCEPT !.refs = [[t.refs EXCEPT ![q] = Without(@, {n})] EXCEPT ![p] = Append(@, n)]]
        BY <1>1 DEF Tree
    <3> QED BY <3>1 DEF Relisted
  <2>2. u = [ow EXCEPT !.parent[n] = p]
      BY Zenon DEF Move
  <2>3. ow = w
    <3> HIDE DEF o, v, q
    <3> QED BY <2>1
  <2> HIDE DEF ow, w, u
  <2> QED BY <2>2, <2>3
<1>7. ASSUME NEW x \in Nodes
      PROVE  Expect(new, t.cnt, t.self, x) = t.cnt[x] + Adds(new, t.cnt, n, x) - Adds(par, t.cnt, n, x)
  <2>1. \A y \in Nodes \ {n} : new[y] = par[y]
      BY <1>1 DEF Parents
  <2> DEFINE kid == t.cnt
             s == t.self
  <2>2. Expect(new, kid, s, x) = Expect(par, kid, s, x) + Adds(new, kid, n, x) - Adds(par, kid, n, x)
    <3> HIDE DEF new, par, kid, s
    <3> QED BY <1>2, <2>1, ExpectChange
  <2>3. kid[x] = Expect(par, kid, s, x)
      BY SaneFacts
  <2> QED BY <2>2, <2>3
<1>8. new[n] = p /\ \A y \in Nodes \ {n} : new[y] = par[y]
    BY <1>1, <1>2 DEF Parents
<1>9. Underway(new, w, Root, Root) /\ SameNodes(v, w)
  <2>1. CASE t.cnt[n] = 0
    <3>1. w = v
        BY <1>5, <2>1
    <3>2. \A x \in Nodes : Adds(new, t.cnt, n, x) = 0 /\ Adds(par, t.cnt, n, x) = 0
        BY <2>1 DEF Adds
    <3>3. Balanced(new, v, Root, Root)
      <4> SUFFICES ASSUME NEW x \in Nodes
                   PROVE  v.cnt[x] + Ind(x = Root) - Ind(x = Root) = Expect(new, v.cnt, v.self, x)
          BY DEF Balanced
      <4>1. Expect(new, t.cnt, t.self, x) = t.cnt[x]
        <5>1. t.cnt[x] \in Nat
            BY <1>1
        <5> HIDE DEF new, par
        <5> QED BY <1>7, <3>2, <5>1
      <4>2. t.cnt[x] \in Nat
          BY <1>1
      <4> QED BY <1>5, <4>1, <4>2, IndFacts
    <3>4. LinksOK(new, v)
        BY <1>1, <1>5, <1>8, <2>1 DEF LinksOK
    <3> HIDE DEF v, w, new
    <3> QED BY <1>1, <1>5, <3>1, <3>3, <3>4 DEF Underway, SameNodes
  <2>2. CASE t.cnt[n] # 0
    <3> DEFINE a == Unlink(v, n)
               b == Link(a, p, n)
               d == decr_active_cnt(b, q)
               B == {q} \cup Ancestors(par, q)
    <3>1. t.cnt[n] > 0 /\ t.linked[n] = q
        BY <1>1, <1>2, <2>2 DEF LinksOK
    <3>2. /\ a \in Tree /\ SameNodes(v, a) /\ a.cnt = t.cnt
          /\ a.linked = [t.linked EXCEPT ![n] = Closed] /\ a.linked[n] = Closed
      <4>1. v.linked[n] # Closed
          BY <1>2, <1>5, <3>1
      <4> HIDE DEF v
      <4> QED BY <1>2, <1>5, <4>1, QueueUnset
    <3>3. /\ b \in Tree /\ SameNodes(a, b) /\ b.cnt = t.cnt
          /\ b.linked = [a.linked EXCEPT ![n] = p]
      <4> HIDE DEF a
      <4>1. /\ b \in Tree /\ SameNodes(a, b) /\ b.cnt = a.cnt
            /\ b.linked = [a.linked EXCEPT ![n] = p]
        <5>1. a \in Tree /\ n \in Nodes /\ p \in Inner /\ a.linked[n] = Closed
            BY <1>2, <3>2
        <5> QED BY <5>1, QueueSet
      <4> HIDE DEF b
      <4> QED BY <3>2, <4>1
    <3>4. b.linked = [t.linked EXCEPT ![n] = p]
      <4> HIDE DEF a, b
      <4> QED BY <1>1, <1>2, <3>2, <3>3
    <3>5. SameNodes(v, b) /\ b.self = t.self /\ b.parent = par
      <4> HIDE DEF a, b, v
      <4> QED BY <1>5, <3>2, <3>3 DEF SameNodes
    <3> HIDE DEF a, b, v
    <3>6. Underway(new, b, p, q)
      <4>1. Balanced(new, b, p, q)
        <5> SUFFICES ASSUME NEW x \in Nodes
                     PROVE  b.cnt[x] + Ind(x = p) - Ind(x = q) = Expect(new, b.cnt, b.self, x)
            BY DEF Balanced
        <5>1. Adds(new, t.cnt, n, x) = Ind(x = p) /\ Adds(par, t.cnt, n, x) = Ind(x = q)
            BY <1>8, <3>1 DEF Adds, Ind
        <5>2. t.cnt[x] \in Nat
            BY <1>1
        <5> HIDE DEF new, par, q
        <5> QED BY <1>7, <3>3, <3>5, <5>1, <5>2, IndFacts
      <4>2. LinksOK(new, b)
          BY <1>1, <1>2, <1>8, <3>1, <3>3, <3>4 DEF LinksOK
      <4> QED BY <1>1, <3>3, <4>1, <4>2 DEF Underway
    <3>7. ClosedUp(par, B) /\ B \subseteq OpenIn(par) \cup {Root} /\ n \notin B /\ q \in B
      <4> HIDE DEF par
      <4>1. n \in OpenIn(par)
          BY DEF par
      <4>2. Ancestors(par, n) = {par[n]} \cup Ancestors(par, par[n]) /\ n \notin Ancestors(par, n)
          BY <1>1, <4>1, AncestorsStep, NoCycle
      <4>3. ClosedUp(par, B) /\ B \subseteq OpenIn(par) \cup {Root}
          BY <1>1, <1>2, AndAncestors
      <4> QED BY <4>2, <4>3
    <3>8. ClosedUp(new, B)
        BY <1>2, <1>8, <3>7 DEF ClosedUp, Inner
    <3>9. \A x \in B \ {Root} : b.parent[x] = new[x]
        BY <1>8, <3>5, <3>7 DEF OpenIn
    <3>10. SameNodes(b, d) /\ Underway(new, d, p, Root)
      <4>1. n \in Nodes \ B /\ (p # Root => new[n] = p /\ b.cnt[n] > 0)
          BY <1>2, <1>8, <3>1, <3>3, <3>7
      <4> HIDE DEF new, B, q
      <4> QED BY <1>4, <3>6, <3>7, <3>8, <3>9, <4>1, DecrFacts
    <3>11. \A x \in A \ {Root} : d.parent[x] = new[x]
      <4>1. d.parent = par
          BY <3>5, <3>10 DEF SameNodes
      <4>2. A \ {Root} \subseteq Nodes /\ n \notin A
          BY DEF ClosedUp, Inner
      <4> HIDE DEF d
      <4> QED BY <1>8, <4>1, <4>2
    <3>12. SameNodes(d, incr_active_cnt(d, p)) /\ Underway(new, incr_active_cnt(d, p), Root, Root)
      <4> HIDE DEF new, d
      <4> QED BY <1>4, <3>10, <3>11, IncrFacts
    <3>13. w = incr_active_cnt(d, p)
        BY <1>5, <2>2 DEF a, b
    <3> HIDE DEF w, d
    <3> QED BY <3>5, <3>10, <3>12, <3>13, SameNodesTrans
  <2> QED BY <2>1, <2>2
<1> HIDE DEF w
<1>10. /\ u \in Tree /\ u.parent = new /\ u.refs = r /\ u.weight = t.weight /\ u.cnt = w.cnt
       /\ u.self = t.self /\ u.linked = w.linked /\ u.ok = t.ok /\ u.self = w.self
  <2>1. w \in Tree /\ w.parent = par /\ w.refs = r /\ w.weight = t.weight /\ w.self = t.self /\ w.ok = t.ok
      BY <1>5, <1>9 DEF SameNodes, Underway
  <2>2. /\ u \in Tree /\ u.parent = [w.parent EXCEPT ![n] = p] /\ u.refs = w.refs
        /\ u.weight = w.weight /\ u.cnt = w.cnt /\ u.self = w.self /\ u.linked = w.linked /\ u.ok = w.ok
    <3> HIDE DEF u
    <3> QED BY <1>2, <1>6, <2>1, ParentSet
  <2> HIDE DEF r, v, u
  <2> QED BY <2>1, <2>2
<1> HIDE DEF u, new, r
<1>11. Underway(new, u, Root, Root)
    BY <1>9, <1>10, MidwaySame
<1>12. Idle(new, u.self)
    BY <1>4, <1>10, SaneFacts DEF Idle
<1> QED BY <1>1, <1>3, <1>4, <1>10, <1>11, <1>12 DEF Sane, u, new, r

Put(f, x, v) == [f EXCEPT ![x] = v]

(* n is the last of a list *)
LastOf(s, n) == n \in Elements(s) /\ \A x \in Elements(s) \ {n} : Before(s, x, n)

LEMMA AppendLast ==
  ASSUME NEW s \in Seq(Nodes), NEW n
  PROVE  LastOf(Append(s, n), n)
<1> DEFINE r == Append(s, n)
<1>1. Len(s) \in Nat /\ DOMAIN s = 1 .. Len(s) /\ DOMAIN r = 1 .. Len(s) + 1 /\ r[Len(s) + 1] = n
    BY LenProperties
<1> HIDE DEF r
<1>2. n \in Elements(r)
    BY <1>1 DEF Elements
<1>3. ASSUME NEW x \in Elements(r) \ {n} PROVE Before(r, x, n)
  <2>1. PICK i \in DOMAIN r : r[i] = x
      BY DEF Elements
  <2>2. i < Len(s) + 1 /\ Len(s) + 1 \in DOMAIN r
      BY <1>1, <2>1
  <2> QED BY <1>1, <2>1, <2>2 DEF Before
<1> QED BY <1>2, <1>3 DEF LastOf, r

LEMMA WeightSet ==
  ASSUME NEW t, Sane(t), NEW n \in Nodes, NEW w \in 1 .. TopWeight + 1
  PROVE  LET u == [t EXCEPT !.weight[n] = w]
         IN /\ Sane(u) /\ u.parent = t.parent /\ u.refs = t.refs /\ u.self = t.self
            /\ u.weight = [t.weight EXCEPT ![n] = w]
<1> DEFINE u == [t EXCEPT !.weight[n] = w]
<1>1. t \in Tree /\ Underway(t.parent, t, Root, Root)
    BY DEF Sane, Underway
<1>2. /\ u \in Tree /\ u.parent = t.parent /\ u.refs = t.refs /\ u.self = t.self /\ u.ok = t.ok
      /\ u.weight = [t.weight EXCEPT ![n] = w] /\ u.cnt = t.cnt /\ u.linked = t.linked
    BY <1>1 DEF Tree
<1> HIDE DEF u
<1>3. Underway(t.parent, u, Root, Root)
    BY <1>1, <1>2, MidwaySame
<1> QED BY <1>2, <1>3 DEF Sane, u

(* A node that depends on neither end of the chain up from p: what moves     *)
(* below p is not above p.                                                   *)
LEMMA MoveBelow ==
  ASSUME NEW t, Sane(t), NEW n \in OpenIn(t.parent), NEW p \in OpenIn(t.parent) \cup {Root},
         n # p, n \notin Ancestors(t.parent, p)
  PROVE  LET u == Move(t, n, p)
         IN /\ Sane(u) /\ u.parent = [t.parent EXCEPT ![n] = p]
            /\ u.refs = Relisted(t.refs, n, t.parent[n], p)
            /\ u.weight = t.weight /\ u.self = t.self
<1> DEFINE A == {p} \cup Ancestors(t.parent, p)
<1>1. t.parent \in Parents /\ Hangs(t.parent)
    BY SaneFacts
<1>2. ClosedUp(t.parent, A) /\ p \in A /\ n \notin A
    BY <1>1, AndAncestors
<1> HIDE DEF A
<1> QED BY <1>2, MoveFacts

(* rebind, not exclusive, below a node that does not depend on the moved one *)
LEMMA RebindPlain ==
  ASSUME NEW t, Sane(t), NEW n \in OpenIn(t.parent), NEW p \in OpenIn(t.parent) \cup {Root},
         n # p, n \notin Ancestors(t.parent, p), NEW w \in 1 .. TopWeight + 1
  PROVE  LET u == Rebind(t, n, p, w)
         IN /\ Sane(u) /\ u.parent = Put(t.parent, n, p) /\ u.self = t.self
            /\ u.weight = Put(t.weight, n, w)
            /\ t.parent[n] # p => u.refs = Relisted(t.refs, n, t.parent[n], p)
<1> DEFINE v == [t EXCEPT !.weight[n] = w]
           u == Rebind(t, n, p, w)
<1>1. t.parent \in [Nodes -> Inner \cup {Closed}] /\ t.weight \in [Nodes -> 1 .. TopWeight + 1] /\ n \in Nodes
    BY SaneFacts DEF Parents, OpenIn
<1>2. IsOpen(t, n)
    BY DEF IsOpen, OpenIn
<1>3. Checked(t, IsOpen(t, n) /\ n # p /\ w \in 1 .. TopWeight + 1) = t
    BY <1>2, CheckedTrue
<1>4. u = IF t.parent[n] = p /\ t.weight[n] = w THEN t ELSE Move(v, n, p)
    BY <1>3 DEF Rebind
<1>5. CASE t.parent[n] = p /\ t.weight[n] = w
  <2>1. t.parent = [t.parent EXCEPT ![n] = p] /\ t.weight = [t.weight EXCEPT ![n] = w]
      BY <1>1, <1>5
  <2> HIDE DEF u
  <2> QED BY <1>4, <1>5, <2>1 DEF u, Put
<1>6. CASE ~(t.parent[n] = p /\ t.weight[n] = w)
  <2>1. /\ Sane(v) /\ v.parent = t.parent /\ v.refs = t.refs /\ v.self = t.self
        /\ v.weight = [t.weight EXCEPT ![n] = w]
      BY <1>1, WeightSet
  <2> HIDE DEF v
  <2>2. LET m == Move(v, n, p)
        IN /\ Sane(m) /\ m.parent = [v.parent EXCEPT ![n] = p]
           /\ m.refs = Relisted(v.refs, n, v.parent[n], p)
           /\ m.weight = v.weight /\ m.self = v.self
    <3>1. n \in OpenIn(v.parent) /\ p \in OpenIn(v.parent) \cup {Root} /\ n \notin Ancestors(v.parent, p)
        BY <2>1
    <3> QED BY <2>1, <3>1, MoveBelow
  <2>3. u = Move(v, n, p)
      BY <1>4, <1>6
  <2> HIDE DEF u
  <2> QED BY <2>1, <2>2, <2>3 DEF u, Put
<1> QED BY <1>5, <1>6

(* What rebind makes of a tree whose weight is set already: when the new     *)
(* parent p depends on n, p is first made a sibling of n.                    *)
Rebound(t, n, p) ==
    Move(IF t.refs[n] # <<>> /\ n \in Ancestors(t.parent, p) THEN Move(t, p, t.parent[n]) ELSE t, n, p)

(* A node without dependents is nobody's ancestor. *)
LEMMA AncestorListed ==
  ASSUME NEW t, Sane(t), NEW n \in OpenIn(t.parent), NEW p \in OpenIn(t.parent) \cup {Root}, n # p,
         n \in Ancestors(t.parent, p)
  PROVE  t.refs[n] # <<>>
<1> DEFINE par == t.parent
           A == (OpenIn(par) \cup {Root}) \ {n}
<1>1. par \in Parents /\ Hangs(par) /\ Listed(par, t.refs) /\ n \in Nodes /\ n \in Inner
    BY SaneFacts, NodeFacts DEF OpenIn
<1>2. SUFFICES ASSUME t.refs[n] = <<>> PROVE FALSE
    OBVIOUS
<1>3. \A x \in Nodes : par[x] # n
  <2>1. Elements(t.refs[n]) = {}
      BY <1>2 DEF Elements
  <2>2. Elements(t.refs[n]) = {x \in Nodes : par[x] = n}
      BY <1>1 DEF Listed
  <2> QED BY <2>1, <2>2
<1>4. ClosedUp(par, OpenIn(par) \cup {Root})
    BY <1>1, OpenClosedUp
<1> HIDE DEF par
<1>5. ClosedUp(par, A) /\ (p # Root => par[p] \in A)
    BY <1>3, <1>4, NodeFacts DEF ClosedUp, OpenIn, par
<1>6. Ancestors(par, p) \subseteq A
    BY <1>5, AncestorsLeast
<1> QED BY <1>6 DEF par

LEMMA ReboundFacts ==
  ASSUME NEW t, Sane(t), NEW n \in OpenIn(t.parent), NEW p \in OpenIn(t.parent) \cup {Root}, n # p
  PROVE  LET u == Rebound(t, n, p)
         IN /\ Sane(u) /\ OpenIn(u.parent) = OpenIn(t.parent) /\ u.parent[n] = p /\ u.self = t.self
            /\ u.weight = t.weight /\ LastOf(u.refs[p], n)
<1> DEFINE par == t.parent
           u == Rebound(t, n, p)
<1>1. par \in Parents /\ Hangs(par) /\ n \in Nodes /\ p \in Inner /\ par \in [Nodes -> Inner \cup {Closed}]
      /\ t.refs \in [Inner -> Seq(Nodes)]
    BY SaneFacts, NodeFacts DEF OpenIn, Parents
<1>2. ASSUME NEW v, Sane(v), NEW A, ClosedUp(v.parent, A), p \in A, n \notin A, u = Move(v, n, p),
             OpenIn(v.parent) = OpenIn(par), v.self = t.self, v.weight = t.weight
      PROVE  /\ Sane(u) /\ OpenIn(u.parent) = OpenIn(par) /\ u.parent[n] = p /\ u.self = t.self
             /\ u.weight = t.weight /\ LastOf(u.refs[p], n)
  <2> HIDE DEF u, par
  <2>1. n \in OpenIn(v.parent) /\ p \in OpenIn(v.parent) \cup {Root}
      BY <1>2 DEF par
  <2>2. /\ Sane(u) /\ u.parent = [v.parent EXCEPT ![n] = p]
        /\ u.refs = Relisted(v.refs, n, v.parent[n], p) /\ u.weight = v.weight /\ u.self = v.self
      BY <1>2, <2>1, MoveFacts
  <2>3. v.parent \in Parents /\ Hangs(v.parent) /\ v.refs \in [Inner -> Seq(Nodes)] /\ v.parent[n] \in Inner
    <3>1. v.parent \in Parents /\ Hangs(v.parent) /\ v.refs \in [Inner -> Seq(Nodes)] /\ Listed(v.parent, v.refs)
        BY <1>2, SaneFacts
    <3> QED BY <2>1, <3>1 DEF OpenIn, Parents
  <2>4. OpenIn(u.parent) = OpenIn(v.parent)
    <3> DEFINE vp == v.parent
               new == [vp EXCEPT ![n] = p]
    <3>1. ClosedUp(vp, A) /\ p \in A /\ n \notin A
        BY <1>2
    <3>2. vp \in Parents /\ Hangs(vp) /\ n \in OpenIn(vp) /\ p \in OpenIn(vp) \cup {Root}
        BY <2>1, <2>3
    <3> HIDE DEF vp
    <3>3. OpenIn(new) = OpenIn(vp)
        BY <3>1, <3>2, Rehang
    <3> QED BY <2>2, <3>3 DEF vp
  <2>5. u.parent[n] = p
      BY <1>1, <2>2, <2>3 DEF Parents
  <2> DEFINE r == [v.refs EXCEPT ![v.parent[n]] = Without(@, {n})]
  <2>6. u.refs[p] = Append(r[p], n)
    <3>1. u.refs = [r EXCEPT ![p] = Append(@, n)] /\ p \in DOMAIN r
        BY <1>1, <2>2, <2>3 DEF Relisted
    <3> HIDE DEF r
    <3> QED BY <3>1
  <2>7. r[p] \in Seq(Nodes)
    <3>1. Listed(v.parent, v.refs)
        BY <1>2, SaneFacts
    <3>2. Without(v.refs[v.parent[n]], {n}) \in Seq(Nodes)
        BY <2>3, <3>1, WithoutFacts DEF Listed
    <3> QED BY <1>1, <2>3, <3>2
  <2> HIDE DEF r
  <2>8. LastOf(u.refs[p], n)
      BY <2>6, <2>7, AppendLast
  <2> QED BY <1>2, <2>2, <2>4, <2>5, <2>8
<1>3. CASE n \notin Ancestors(par, p)
  <2> DEFINE A == {p} \cup Ancestors(par, p)
  <2>1. ClosedUp(par, A) /\ p \in A /\ n \notin A
      BY <1>1, <1>3, AndAncestors
  <2>2. u = Move(t, n, p)
      BY <1>3 DEF Rebound
  <2> HIDE DEF A, u
  <2> QED BY <1>2, <2>1, <2>2 DEF u
<1>4. CASE n \in Ancestors(par, p)
  <2> DEFINE q == par[n]
             up == Ancestors(par, n)
             v == Move(t, p, q)
             A == up \cup {p}
  <2>1. p # Root /\ p \in OpenIn(par) /\ p \in Nodes
      BY <1>1, <1>4, AncestorsFacts DEF OpenIn
  <2>2. ClosedUp(par, up) /\ q \in up /\ n \notin up /\ q \in OpenIn(par) \cup {Root}
    <3>1. n # Root
        BY <1>1, NodeFacts
    <3> QED BY <1>1, <3>1, AncestorsFacts, NoCycle, ParentOpen
  <2>3. p \notin up
    <3>1. SUFFICES ASSUME p \in up PROVE FALSE
        OBVIOUS
    <3>2. par[p] \in up
        BY <2>1, <2>2, <3>1 DEF ClosedUp
    <3>3. Ancestors(par, p) \subseteq up
      <4> HIDE DEF par, up
      <4> QED BY <2>2, <3>2, AncestorsLeast
    <3> QED BY <1>4, <2>2, <3>3
  <2>4. Sane(v) /\ v.parent = [par EXCEPT ![p] = q] /\ v.weight = t.weight /\ v.self = t.self
    <3> HIDE DEF up, q
    <3> QED BY <2>1, <2>2, <2>3, MoveFacts
  <2>5. OpenIn(v.parent) = OpenIn(par)
    <3> HIDE DEF up, q, v, par
    <3> QED BY <1>1, <2>1, <2>2, <2>3, <2>4, Rehang
  <2>6. ClosedUp(v.parent, A) /\ n \notin A
    <3>1. \A x \in Nodes : v.parent[x] = IF x = p THEN q ELSE par[x]
        BY <1>1, <2>4
    <3> HIDE DEF up, q, v
    <3> QED BY <1>1, <2>1, <2>2, <3>1 DEF ClosedUp, Inner
  <2>7. u = Move(v, n, p)
    <3>1. t.refs[n] # <<>>
        BY <1>4, AncestorListed
    <3> QED BY <1>4, <3>1 DEF Rebound
  <2> HIDE DEF u, v, A
  <2> QED BY <1>2, <2>4, <2>5, <2>6, <2>7 DEF u, A
<1> QED BY <1>3, <1>4

(* rebind, not exclusive, keeps the tree in order wherever the node goes. *)
LEMMA RebindFacts ==
  ASSUME NEW t, Sane(t), NEW n \in OpenIn(t.parent), NEW p \in OpenIn(t.parent) \cup {Root},
         n # p, NEW w \in 1 .. TopWeight + 1
  PROVE  Sane(Rebind(t, n, p, w))
<1> DEFINE v == [t EXCEPT !.weight[n] = w]
           u == Rebind(t, n, p, w)
<1>1. n \in Nodes /\ IsOpen(t, n)
    BY DEF OpenIn, IsOpen
<1>2. Checked(t, IsOpen(t, n) /\ n # p /\ w \in 1 .. TopWeight + 1) = t
    BY <1>1, CheckedTrue
<1>3. Sane(v) /\ v.parent = t.parent
    BY <1>1, WeightSet
<1> HIDE DEF v
<1>4. u = IF t.parent[n] = p /\ t.weight[n] = w THEN t ELSE Rebound(v, n, p)
    BY <1>2, <1>3 DEF Rebind, Rebound, v
<1>5. Sane(Rebound(v, n, p))
    BY <1>3, ReboundFacts
<1> QED BY <1>4, <1>5

(* The loop of convert_to_exclusive is defined by recursion. *)
ExclusiveUpTo(t, p, n, len, f) ==
    f = [k \in 0 .. len |-> IF k = 0 THEN t ELSE ExclusiveStep(f[k - 1], p, n)]

LEMMA ExclusiveExists ==
  ASSUME NEW t, NEW p, NEW n, NEW N \in Nat
  PROVE  \E f : ExclusiveUpTo(t, p, n, N, f)
<1> DEFINE Bad == {e \in Nat : ~ \E f : ExclusiveUpTo(t, p, n, e, f)}
<1>1. SUFFICES ASSUME Bad # {} PROVE FALSE
    OBVIOUS
<1>2. PICK b \in Bad : \A m \in Bad : b <= m
    BY <1>1, LeastNat
<1>3. CASE b = 0
  <2> DEFINE f == [k \in 0 .. 0 |-> t]
  <2>1. f = [k \in 0 .. 0 |-> IF k = 0 THEN t ELSE ExclusiveStep(f[k - 1], p, n)]
      OBVIOUS
  <2> HIDE DEF f
  <2>2. ExclusiveUpTo(t, p, n, 0, f)
      BY <2>1 DEF ExclusiveUpTo
  <2> QED BY <1>2, <1>3, <2>2
<1>4. CASE b # 0
  <2>1. b \in Nat /\ b - 1 \in Nat /\ b - 1 \notin Bad
      BY <1>2, <1>4
  <2>2. PICK f : ExclusiveUpTo(t, p, n, b - 1, f)
      BY <2>1
  <2> DEFINE last == ExclusiveStep(f[b - 1], p, n)
             g == [k \in 0 .. b |-> IF k = b THEN last ELSE f[k]]
             Body(k) == IF k = 0 THEN t ELSE ExclusiveStep(g[k - 1], p, n)
  <2>3. ASSUME NEW k \in 0 .. b PROVE g[k] = Body(k)
    <3>1. CASE k = b
      <4>1. k # 0 /\ k - 1 = b - 1 /\ k - 1 \in 0 .. b /\ k - 1 # b
          BY <1>4, <2>1, <3>1
      <4>2. g[k - 1] = f[b - 1] /\ g[k] = last
          BY <3>1, <4>1
      <4> HIDE DEF g
      <4> QED BY <3>1, <4>1, <4>2
    <3>2. CASE k # b
      <4>1. k \in 0 .. b - 1 /\ (k # 0 => k - 1 \in 0 .. b /\ k - 1 # b)
          BY <2>1, <3>2
      <4>2. g[k] = f[k] /\ (k # 0 => g[k - 1] = f[k - 1])
          BY <3>2, <4>1
      <4>3. f[k] = IF k = 0 THEN t ELSE ExclusiveStep(f[k - 1], p, n)
          BY <2>2, <4>1 DEF ExclusiveUpTo
      <4> HIDE DEF g
      <4> QED BY <4>2, <4>3
    <3> QED BY <3>1, <3>2
  <2>4. g = [k \in 0 .. b |-> Body(k)]
    <3>1. g = [k \in 0 .. b |-> g[k]]
        OBVIOUS
    <3> HIDE DEF g, Body
    <3> QED BY <2>3, <3>1
  <2> HIDE DEF g
  <2>5. ExclusiveUpTo(t, p, n, b, g)
      BY <2>4 DEF ExclusiveUpTo
  <2> QED BY <1>2, <2>5
<1> QED BY <1>3, <1>4

LEMMA ExclusiveRec ==
  ASSUME NEW t, NEW p, NEW n, Len(t.refs[p]) \in Nat
  PROVE  /\ ExclusiveEach(t, p, n)[0] = t
         /\ \A k \in 1 .. Len(t.refs[p]) : ExclusiveEach(t, p, n)[k] = ExclusiveStep(ExclusiveEach(t, p, n)[k - 1], p, n)
<1> DEFINE N == Len(t.refs[p])
<1>1. ExclusiveEach(t, p, n) = CHOOSE f : ExclusiveUpTo(t, p, n, N, f)
    BY DEF ExclusiveEach, ExclusiveUpTo
<1>2. ExclusiveUpTo(t, p, n, N, ExclusiveEach(t, p, n))
    BY <1>1, ExclusiveExists
<1>3. 0 \in 0 .. N /\ \A k \in 1 .. N : k \in 0 .. N /\ k # 0
    BY NodeFacts
<1> QED BY <1>2, <1>3 DEF ExclusiveUpTo

(* So is the one of vhttp_http2_scheduler_close, *)
HandOverUpTo(t, n, len, f) ==
    f = [k \in 0 .. len |-> IF k = 0 THEN t ELSE HandOver(f[k - 1], t, n, Total(t, n), t.refs[n][k])]

LEMMA HandOverExists ==
  ASSUME NEW t, NEW n, NEW N \in Nat
  PROVE  \E f : HandOverUpTo(t, n, N, f)
<1> DEFINE Bad == {e \in Nat : ~ \E f : HandOverUpTo(t, n, e, f)}
<1>1. SUFFICES ASSUME Bad # {} PROVE FALSE
    OBVIOUS
<1>2. PICK b \in Bad : \A m \in Bad : b <= m
    BY <1>1, LeastNat
<1>3. CASE b = 0
  <2> DEFINE f == [k \in 0 .. 0 |-> t]
  <2>1. f = [k \in 0 .. 0 |-> IF k = 0 THEN t ELSE HandOver(f[k - 1], t, n, Total(t, n), t.refs[n][k])]
      OBVIOUS
  <2> HIDE DEF f
  <2>2. HandOverUpTo(t, n, 0, f)
      BY <2>1 DEF HandOverUpTo
  <2> QED BY <1>2, <1>3, <2>2
<1>4. CASE b # 0
  <2>1. b \in Nat /\ b - 1 \in Nat /\ b - 1 \notin Bad
      BY <1>2, <1>4
  <2>2. PICK f : HandOverUpTo(t, n, b - 1, f)
      BY <2>1
  <2> DEFINE last == HandOver(f[b - 1], t, n, Total(t, n), t.refs[n][b])
             g == [k \in 0 .. b |-> IF k = b THEN last ELSE f[k]]
             Body(k) == IF k = 0 THEN t ELSE HandOver(g[k - 1], t, n, Total(t, n), t.refs[n][k])
  <2>3. ASSUME NEW k \in 0 .. b PROVE g[k] = Body(k)
    <3>1. CASE k = b
      <4>1. k # 0 /\ k - 1 = b - 1 /\ k - 1 \in 0 .. b /\ k - 1 # b
          BY <1>4, <2>1, <3>1
      <4>2. g[k - 1] = f[b - 1] /\ g[k] = last
          BY <3>1, <4>1
      <4> HIDE DEF g
      <4> QED BY <3>1, <4>1, <4>2
    <3>2. CASE k # b
      <4>1. k \in 0 .. b - 1 /\ (k # 0 => k - 1 \in 0 .. b /\ k - 1 # b)
          BY <2>1, <3>2
      <4>2. g[k] = f[k] /\ (k # 0 => g[k - 1] = f[k - 1])
          BY <3>2, <4>1
      <4>3. f[k] = IF k = 0 THEN t ELSE HandOver(f[k - 1], t, n, Total(t, n), t.refs[n][k])
          BY <2>2, <4>1 DEF HandOverUpTo
      <4> HIDE DEF g
      <4> QED BY <4>2, <4>3
    <3> QED BY <3>1, <3>2
  <2>4. g = [k \in 0 .. b |-> Body(k)]
    <3>1. g = [k \in 0 .. b |-> g[k]]
        OBVIOUS
    <3> HIDE DEF g, Body
    <3> QED BY <2>3, <3>1
  <2> HIDE DEF g
  <2>5. HandOverUpTo(t, n, b, g)
      BY <2>4 DEF HandOverUpTo
  <2> QED BY <1>2, <2>5
<1> QED BY <1>3, <1>4

LEMMA HandOverRec ==
  ASSUME NEW t, NEW n, Len(t.refs[n]) \in Nat
  PROVE  /\ HandOverEach(t, n)[0] = t
         /\ \A k \in 1 .. Len(t.refs[n]) : HandOverEach(t, n)[k] = HandOver(HandOverEach(t, n)[k - 1], t, n, Total(t, n), t.refs[n][k])
<1> DEFINE N == Len(t.refs[n])
<1>1. HandOverEach(t, n) = CHOOSE f : HandOverUpTo(t, n, N, f)
    BY DEF HandOverEach, HandOverUpTo
<1>2. HandOverUpTo(t, n, N, HandOverEach(t, n))
    BY <1>1, HandOverExists
<1>3. 0 \in 0 .. N /\ \A k \in 1 .. N : k \in 0 .. N /\ k # 0
    BY NodeFacts
<1> QED BY <1>2, <1>3 DEF HandOverUpTo

(* and the sum that it starts with. *)
SumsUpTo(t, p, len, f) ==
    f = [k \in 0 .. len |-> IF k = 0 THEN 0 ELSE f[k - 1] + t.weight[t.refs[p][k]]]

LEMMA SumsExists ==
  ASSUME NEW t, NEW p, NEW N \in Nat
  PROVE  \E f : SumsUpTo(t, p, N, f)
<1> DEFINE Bad == {e \in Nat : ~ \E f : SumsUpTo(t, p, e, f)}
<1>1. SUFFICES ASSUME Bad # {} PROVE FALSE
    OBVIOUS
<1>2. PICK b \in Bad : \A m \in Bad : b <= m
    BY <1>1, LeastNat
<1>3. CASE b = 0
  <2> DEFINE f == [k \in 0 .. 0 |-> 0]
  <2>1. f = [k \in 0 .. 0 |-> IF k = 0 THEN 0 ELSE f[k - 1] + t.weight[t.refs[p][k]]]
      OBVIOUS
  <2> HIDE DEF f
  <2>2. SumsUpTo(t, p, 0, f)
      BY <2>1 DEF SumsUpTo
  <2> QED BY <1>2, <1>3, <2>2
<1>4. CASE b # 0
  <2>1. b \in Nat /\ b - 1 \in Nat /\ b - 1 \notin Bad
      BY <1>2, <1>4
  <2>2. PICK f : SumsUpTo(t, p, b - 1, f)
      BY <2>1
  <2> DEFINE last == f[b - 1] + t.weight[t.refs[p][b]]
             g == [k \in 0 .. b |-> IF k = b THEN last ELSE f[k]]
             Body(k) == IF k = 0 THEN 0 ELSE g[k - 1] + t.weight[t.refs[p][k]]
  <2>3. ASSUME NEW k \in 0 .. b PROVE g[k] = Body(k)
    <3>1. CASE k = b
      <4>1. k # 0 /\ k - 1 = b - 1 /\ k - 1 \in 0 .. b /\ k - 1 # b
          BY <1>4, <2>1, <3>1
      <4>2. g[k - 1] = f[b - 1] /\ g[k] = last
          BY <3>1, <4>1
      <4> HIDE DEF g
      <4> QED BY <3>1, <4>1, <4>2
    <3>2. CASE k # b
      <4>1. k \in 0 .. b - 1 /\ (k # 0 => k - 1 \in 0 .. b /\ k - 1 # b)
          BY <2>1, <3>2
      <4>2. g[k] = f[k] /\ (k # 0 => g[k - 1] = f[k - 1])
          BY <3>2, <4>1
      <4>3. f[k] = IF k = 0 THEN 0 ELSE f[k - 1] + t.weight[t.refs[p][k]]
          BY <2>2, <4>1 DEF SumsUpTo
      <4> HIDE DEF g
      <4> QED BY <4>2, <4>3
    <3> QED BY <3>1, <3>2
  <2>4. g = [k \in 0 .. b |-> Body(k)]
    <3>1. g = [k \in 0 .. b |-> g[k]]
        OBVIOUS
    <3> HIDE DEF g, Body
    <3> QED BY <2>3, <3>1
  <2> HIDE DEF g
  <2>5. SumsUpTo(t, p, b, g)
      BY <2>4 DEF SumsUpTo
  <2> QED BY <1>2, <2>5
<1> QED BY <1>3, <1>4

LEMMA SumsRec ==
  ASSUME NEW t, NEW p, Len(t.refs[p]) \in Nat
  PROVE  /\ WeightSums(t, p)[0] = 0
         /\ \A k \in 1 .. Len(t.refs[p]) : WeightSums(t, p)[k] = WeightSums(t, p)[k - 1] + t.weight[t.refs[p][k]]
<1> DEFINE N == Len(t.refs[p])
<1>1. WeightSums(t, p) = CHOOSE f : SumsUpTo(t, p, N, f)
    BY DEF WeightSums, SumsUpTo
<1>2. SumsUpTo(t, p, N, WeightSums(t, p))
    BY <1>1, SumsExists
<1>3. 0 \in 0 .. N /\ \A k \in 1 .. N : k \in 0 .. N /\ k # 0
    BY NodeFacts
<1> QED BY <1>2, <1>3 DEF SumsUpTo

LEMMA FirstAndLast ==
  ASSUME NEW s \in Seq(Nodes), Distinct(s), NEW n, LastOf(s, n), Head(s) = n
  PROVE  s = <<n>>
<1>1. Len(s) \in Nat /\ DOMAIN s = 1 .. Len(s) /\ s \in [1 .. Len(s) -> Nodes]
    BY LenProperties
<1>2. Len(s) # 0
    BY <1>1 DEF LastOf, Elements
<1>3. s # <<>>
    BY <1>2
<1>4. s[1] = n
    BY <1>3
<1>5. Len(s) = 1
  <2>1. SUFFICES ASSUME Len(s) > 1 PROVE FALSE
      BY <1>1, <1>2
  <2>2. 1 \in DOMAIN s /\ 2 \in DOMAIN s
      BY <1>1, <2>1
  <2>3. s[2] # n /\ s[2] \in Elements(s)
      BY <1>4, <2>2 DEF Distinct, Elements
  <2>4. PICK i, j \in DOMAIN s : i < j /\ s[i] = s[2] /\ s[j] = n
      BY <2>3 DEF LastOf, Before
  <2>5. j = 1
      BY <1>4, <2>2, <2>4 DEF Distinct
  <2> QED BY <1>1, <2>4, <2>5
<1>6. n \in Nodes /\ <<n>> \in Seq(Nodes) /\ Len(<<n>>) = 1
    BY <1>1, <1>4, <1>5
<1> QED BY <1>1, <1>4, <1>5, <1>6

(* What convert_to_exclusive finds at each turn *)
Adding(t, p, n) ==
    /\ Sane(t) /\ n \in OpenIn(t.parent) /\ p \in OpenIn(t.parent) \cup {Root} /\ n # p
    /\ t.parent[n] = p /\ LastOf(t.refs[p], n)

LEMMA ExclusiveStepFacts ==
  ASSUME NEW t, NEW p, NEW n, Adding(t, p, n), Head(t.refs[p]) # n
  PROVE  LET u == ExclusiveStep(t, p, n)
         IN Adding(u, p, n) /\ Len(u.refs[p]) \in Nat /\ Len(u.refs[p]) = Len(t.refs[p]) - 1
            /\ OpenIn(u.parent) = OpenIn(t.parent)
<1> DEFINE par == t.parent
           s == t.refs[p]
           kid == Head(s)
           w == t.weight[kid]
           u == ExclusiveStep(t, p, n)
           r == Without(s, {kid})
<1>1. /\ Sane(t) /\ n \in OpenIn(par) /\ p \in OpenIn(par) \cup {Root} /\ n # p /\ par[n] = p /\ LastOf(s, n)
      /\ par \in Parents /\ Hangs(par) /\ t.refs \in [Inner -> Seq(Nodes)] /\ Listed(par, t.refs)
      /\ t.weight \in [Nodes -> 1 .. TopWeight + 1]
    BY SaneFacts DEF Adding
<1>2. p \in Inner /\ n \in Nodes /\ Nodes \subseteq Inner /\ n \in Inner
    BY <1>1, NodeFacts DEF OpenIn
<1>3. s \in Seq(Nodes) /\ Distinct(s) /\ Elements(s) = {m \in Nodes : par[m] = p}
    BY <1>1, <1>2 DEF Listed
<1>4. kid \in Elements(s) /\ kid \in Nodes /\ par[kid] = p /\ kid # n
  <2>1. s # <<>>
      BY <1>1 DEF LastOf, Elements
  <2>2. Len(s) \in Nat /\ Len(s) # 0 /\ DOMAIN s = 1 .. Len(s) /\ kid = s[1]
      BY <1>3, <2>1
  <2>3. 1 \in DOMAIN s
      BY <2>2
  <2>4. kid \in Elements(s)
      BY <2>2, <2>3 DEF Elements
  <2> HIDE DEF kid, s
  <2>5. kid # n
      BY DEF kid, s
  <2> QED BY <1>3, <2>4, <2>5
<1> HIDE DEF kid, s
<1>5. kid \in OpenIn(par) /\ par[kid] # n
    BY <1>1, <1>2, <1>4, NodeFacts DEF OpenIn
<1>6. kid \notin Ancestors(par, n)
  <2>1. Ancestors(par, n) = {p} \cup Ancestors(par, p) /\ Ancestors(par, kid) = {p} \cup Ancestors(par, p)
      BY <1>1, <1>4, <1>5, AncestorsStep
  <2> QED BY <1>1, <1>5, <2>1, NoCycle
<1>7. u = Rebind(t, kid, n, w)
    BY <1>4 DEF ExclusiveStep, kid, s
<1>8. w \in 1 .. TopWeight + 1
    BY <1>1, <1>4
<1>9. /\ Sane(u) /\ u.parent = [par EXCEPT ![kid] = n]
      /\ u.refs = Relisted(t.refs, kid, p, n)
  <2> HIDE DEF w, u
  <2> DEFINE b == Rebind(t, kid, n, w)
  <2>1. /\ Sane(t) /\ kid \in OpenIn(t.parent) /\ n \in OpenIn(t.parent) \cup {Root} /\ kid # n
        /\ kid \notin Ancestors(t.parent, n) /\ w \in 1 .. TopWeight + 1 /\ t.parent[kid] # n /\ t.parent[kid] = p
      BY <1>1, <1>4, <1>5, <1>6, <1>8
  <2>2. /\ Sane(b) /\ b.parent = Put(t.parent, kid, n)
        /\ b.refs = Relisted(t.refs, kid, t.parent[kid], n)
      BY <2>1, RebindPlain
  <2> HIDE DEF b
  <2> QED BY <1>7, <2>1, <2>2 DEF b, Put
<1> HIDE DEF u, w
<1>10. u.parent[n] = p /\ \A x \in Nodes : (u.parent[x] = Closed <=> par[x] = Closed)
    BY <1>1, <1>2, <1>4, <1>5, <1>9, NodeFacts DEF Parents, OpenIn
<1>11. OpenIn(u.parent) = OpenIn(par)
    BY <1>10 DEF OpenIn
<1>12. u.refs[p] = r
    BY <1>1, <1>2, <1>9 DEF Relisted, s
<1>13. /\ r \in Seq(Nodes) /\ Distinct(r) /\ Elements(r) = Elements(s) \ {kid}
       /\ \A x, y \in Elements(r) : Before(r, x, y) <=> Before(s, x, y)
    BY <1>3, WithoutFacts
<1>14. LastOf(r, n)
    BY <1>1, <1>4, <1>13 DEF LastOf
<1>15. Len(r) \in Nat /\ Len(r) = Len(s) - 1
  <2>1. IsFiniteSet(Elements(s)) /\ Cardinality(Elements(s)) = Len(s) /\ Len(s) \in Nat
      BY <1>3, ListLength
  <2>2. Cardinality(Elements(r)) = Len(r) /\ Len(r) \in Nat
      BY <1>13, ListLength
  <2>3. Cardinality(Elements(s) \ {kid}) = Cardinality(Elements(s)) - 1
      BY <1>4, <2>1, FS_RemoveElement
  <2> QED BY <1>13, <2>1, <2>2, <2>3
<1> QED BY <1>1, <1>9, <1>10, <1>11, <1>12, <1>14, <1>15 DEF Adding, u, s

(* The added node takes the place of all the children of its parent. *)
LEMMA ExclusiveFacts ==
  ASSUME NEW t, NEW p, NEW n, Adding(t, p, n)
  PROVE  Sane(convert_to_exclusive(t, p, n))
<1> DEFINE N == Len(t.refs[p])
           f == ExclusiveEach(t, p, n)
           Got(k) == /\ Adding(f[k], p, n)
                     /\ f[k].refs[p] = <<n>> \/ (Len(f[k].refs[p]) \in Nat /\ Len(f[k].refs[p]) <= N - k)
<1>0. ASSUME NEW x, Adding(x, p, n)
      PROVE  x.refs[p] \in Seq(Nodes) /\ Distinct(x.refs[p]) /\ LastOf(x.refs[p], n)
             /\ Len(x.refs[p]) \in Nat /\ Len(x.refs[p]) # 0
  <2>1. x.refs \in [Inner -> Seq(Nodes)] /\ Listed(x.parent, x.refs) /\ p \in Inner /\ LastOf(x.refs[p], n)
      BY <1>0, SaneFacts, NodeFacts DEF Adding, OpenIn
  <2>2. x.refs[p] \in Seq(Nodes) /\ Distinct(x.refs[p])
      BY <2>1 DEF Listed
  <2>3. Len(x.refs[p]) \in Nat /\ DOMAIN x.refs[p] = 1 .. Len(x.refs[p])
      BY <2>2
  <2>4. Len(x.refs[p]) # 0
      BY <2>1, <2>3 DEF LastOf, Elements
  <2> QED BY <2>1, <2>2, <2>3, <2>4
<1>1. N \in Nat
    BY <1>0
<1>2. f[0] = t /\ \A k \in 1 .. N : f[k] = ExclusiveStep(f[k - 1], p, n)
    BY <1>1, ExclusiveRec
<1> HIDE DEF f
<1>3. Got(0)
    BY <1>1, <1>2
<1>4. ASSUME NEW k \in 1 .. N, Got(k - 1) PROVE Got(k)
  <2> DEFINE g == f[k - 1]
  <2>1. f[k] = ExclusiveStep(g, p, n) /\ Adding(g, p, n)
      BY <1>2, <1>4
  <2>2. g.refs[p] = <<n>> \/ (Len(g.refs[p]) \in Nat /\ Len(g.refs[p]) <= N - (k - 1))
      BY <1>4
  <2> HIDE DEF g
  <2>3. CASE Head(g.refs[p]) = n
    <3>1. f[k] = g
        BY <2>1, <2>3 DEF ExclusiveStep
    <3>2. g.refs[p] = <<n>>
        BY <1>0, <2>1, <2>3, FirstAndLast
    <3> QED BY <2>1, <3>1, <3>2
  <2>4. CASE Head(g.refs[p]) # n
    <3> DEFINE e == ExclusiveStep(g, p, n)
    <3>1. Adding(e, p, n) /\ Len(e.refs[p]) \in Nat /\ Len(e.refs[p]) = Len(g.refs[p]) - 1
        BY <2>1, <2>4, ExclusiveStepFacts
    <3>2. g.refs[p] # <<n>>
        BY <2>4
    <3>3. Len(g.refs[p]) \in Nat /\ Len(g.refs[p]) <= N - (k - 1)
        BY <2>2, <3>2
    <3> HIDE DEF e
    <3>4. f[k] = e
        BY <2>1 DEF e
    <3> HIDE DEF N
    <3>5. Len(e.refs[p]) <= N - k
        BY <1>1, <3>1, <3>3
    <3> QED BY <3>1, <3>4, <3>5
  <2> QED BY <2>3, <2>4
<1>5. Got(N)
  <2> DEFINE Bad == {j \in 0 .. N : ~Got(j)}
  <2> HIDE DEF Got, N
  <2>1. SUFFICES ASSUME Bad # {} PROVE FALSE
      BY <1>1
  <2>2. PICK j \in Bad : \A i \in Bad : j <= i
    <3>1. Bad \in SUBSET Nat
        BY <1>1
    <3> QED BY <2>1, <3>1, LeastNat
  <2>3. j # 0 /\ j \in 1 .. N /\ j - 1 \in 0 .. N /\ j - 1 \notin Bad
      BY <1>1, <1>3, <2>2
  <2> QED BY <1>4, <2>2, <2>3
<1>6. Adding(f[N], p, n) /\ f[N].refs[p] = <<n>>
    BY <1>0, <1>1, <1>5
<1>7. convert_to_exclusive(t, p, n) = f[N]
    BY <1>6, CheckedTrue DEF convert_to_exclusive, f
<1> QED BY <1>6, <1>7 DEF Adding

(* rebind, exclusive *)
LEMMA RebindExclusiveFacts ==
  ASSUME NEW t, Sane(t), NEW n \in OpenIn(t.parent), NEW p \in OpenIn(t.parent) \cup {Root},
         n # p, NEW w \in 1 .. TopWeight + 1
  PROVE  Sane(RebindExclusive(t, n, p, w))
<1> DEFINE v == [t EXCEPT !.weight[n] = w]
           u == Rebound(v, n, p)
<1>1. n \in Nodes /\ IsOpen(t, n)
    BY DEF OpenIn, IsOpen
<1>2. Checked(t, IsOpen(t, n) /\ n # p /\ w \in 1 .. TopWeight + 1) = t
    BY <1>1, CheckedTrue
<1>3. Sane(v) /\ v.parent = t.parent
    BY <1>1, WeightSet
<1> HIDE DEF v
<1>4. RebindExclusive(t, n, p, w) = convert_to_exclusive(u, p, n)
    BY <1>2, <1>3 DEF RebindExclusive, Rebound, v
<1>5. Sane(u) /\ OpenIn(u.parent) = OpenIn(t.parent) /\ u.parent[n] = p /\ LastOf(u.refs[p], n)
  <2>1. n \in OpenIn(v.parent) /\ p \in OpenIn(v.parent) \cup {Root}
      BY <1>3
  <2>2. Sane(u) /\ OpenIn(u.parent) = OpenIn(v.parent) /\ u.parent[n] = p /\ LastOf(u.refs[p], n)
      BY <1>3, <2>1, ReboundFacts
  <2> HIDE DEF u
  <2> QED BY <1>3, <2>2
<1> HIDE DEF u
<1>7. Adding(u, p, n)
    BY <1>5 DEF Adding
<1> QED BY <1>4, <1>7, ExclusiveFacts

LEMMA DivFacts ==
  ASSUME NEW a \in Nat, NEW b \in Nat, b # 0
  PROVE  LET q == a \div b IN q \in Nat /\ q * b <= a /\ a < q * b + b
OBVIOUS

LEMMA MulMono ==
  ASSUME NEW a \in Int, NEW b \in Int, NEW kid \in Nat, a <= b
  PROVE  a * kid <= b * kid
OBVIOUS

LEMMA MulAssoc ==
  ASSUME NEW a \in Int, NEW b \in Int, NEW kid \in Int
  PROVE  (a * b) * kid = a * (b * kid) /\ a * b = b * a /\ a * b \in Int /\ a * (b + kid) = a * b + a * kid
OBVIOUS

(* What a child takes over is its part of the weight, within one unit; the   *)
(* error of the fixed point factor stays far below that.                     *)
LEMMA ShareFacts ==
  ASSUME NEW w \in 1 .. TopWeight + 1, NEW total \in Nat, total # 0, NEW child \in 1 .. TopWeight + 1
  PROVE  /\ Share(w, total, child) \in 1 .. TopWeight + 1
         /\ Proportional(Share(w, total, child), w, total, child)
<1> DEFINE h == total \div 2
           a == w * 65536 + h
           F == a \div total
           cF == child * F
           E == cF \div 32768
           S == (E + 1) \div 2
           cw == child * w
           Ft == F * total
           St == S * total
<1>0. w \in Nat /\ child \in Nat /\ 1 <= w /\ w <= 257 /\ 1 <= child /\ child <= 257
    BY DEF TopWeight
<1>1. h \in Nat /\ 2 * h <= total
    BY <1>0
<1>2. a \in Nat
    BY <1>0, <1>1
<1> HIDE DEF a, h
<1>3. F \in Nat /\ Ft \in Nat /\ Ft <= a /\ a < Ft + total
  <2>1. F \in Nat /\ F * total <= a /\ a < F * total + total
      BY <1>2, DivFacts
  <2>2. F * total \in Nat
    <3> HIDE DEF F
    <3> QED BY <2>1
  <2> QED BY <2>1, <2>2
<1> HIDE DEF F, Ft
<1>4. cF \in Nat
    BY <1>0, <1>3
<1> HIDE DEF cF
<1>5. E \in Nat /\ 32768 * E <= cF /\ cF < 32768 * E + 32768
    BY <1>4
<1> HIDE DEF E
<1>6. S \in Nat /\ 2 * S <= E + 1 /\ E <= 2 * S
    BY <1>5
<1>7. Share(w, total, child) = IF S < 1 THEN 1 ELSE IF S > TopWeight THEN TopWeight ELSE S
    BY DEF Share, E, cF, F, a, h
<1> HIDE DEF S
<1>8. cw \in Nat /\ St \in Nat /\ cw * 65536 = child * (w * 65536)
    BY <1>0, <1>6, MulAssoc
<1>9. cF * total = child * Ft
    BY <1>0, <1>3, MulAssoc DEF cF, Ft
<1>10. child * Ft <= child * a /\ child * a = 65536 * cw + child * h
  <2>1. child * Ft = Ft * child /\ child * a = a * child
      BY <1>0, <1>2, <1>3, MulAssoc
  <2>2. Ft * child <= a * child
      BY <1>0, <1>2, <1>3, MulMono
  <2>3. child * a = child * (w * 65536) + child * h
      BY <1>0, <1>1, MulAssoc DEF a
  <2>4. child * (w * 65536) = cw * 65536 /\ cw * 65536 = 65536 * cw
      BY <1>8
  <2> HIDE DEF cw
  <2> QED BY <2>1, <2>2, <2>3, <2>4
<1>11. child * h \in Nat /\ child * total \in Nat /\ child * h <= 257 * h /\ child * total <= 257 * total
    BY <1>0, <1>1, MulMono
<1>12. (65536 * S) * total = 65536 * St
    BY <1>6
<1>13. St - cw <= total
  <2>1. 65536 * S <= cF + 32768
      BY <1>4, <1>5, <1>6
  <2>2. (65536 * S) * total <= (cF + 32768) * total
      BY <1>4, <1>6, <2>1, MulMono
  <2>3. (cF + 32768) * total = cF * total + 32768 * total
      BY <1>4
  <2>4. 65536 * St <= 65536 * cw + child * h + 32768 * total
    <3> DEFINE x == child * Ft
               y == child * h
               z == child * a
               s == cF * total
               b == (cF + 32768) * total
               kid == (65536 * S) * total
    <3>1. x \in Int /\ y \in Int /\ z \in Int /\ s \in Int /\ b \in Int /\ kid \in Int
        BY <1>0, <1>1, <1>2, <1>3, <1>4, <1>6
    <3>2. x <= z /\ z = 65536 * cw + y /\ s = x /\ kid = 65536 * St /\ kid <= b /\ b = s + 32768 * total
        BY <1>9, <1>10, <1>12, <2>2, <2>3
    <3> HIDE DEF x, y, z, s, b, kid, cw, St
    <3>3. 65536 * St <= 65536 * cw + y + 32768 * total
        BY <1>8, <3>1, <3>2
    <3> QED BY <3>3 DEF y
  <2> DEFINE y == child * h
  <2>5. 65536 * St <= 65536 * cw + y + 32768 * total /\ y \in Nat /\ y <= 257 * h
      BY <1>11, <2>4
  <2> HIDE DEF cw, St, y
  <2> QED BY <1>1, <1>8, <2>5
<1>14. cw - St <= total
  <2>1. cF <= 65536 * S + 32768
      BY <1>4, <1>5, <1>6
  <2>2. cF * total <= (65536 * S + 32768) * total
      BY <1>4, <1>6, <2>1, MulMono
  <2>3. (65536 * S + 32768) * total = 65536 * St + 32768 * total
      BY <1>6
  <2>4. child * a <= child * (Ft + total) /\ child * (Ft + total) = child * Ft + child * total
    <3>1. a * child <= (Ft + total) * child
        BY <1>0, <1>2, <1>3, MulMono
    <3>2. a * child = child * a /\ (Ft + total) * child = child * (Ft + total)
        BY <1>0, <1>2, <1>3, MulAssoc
    <3>3. child * (Ft + total) = child * Ft + child * total
        BY <1>0, <1>3, MulAssoc
    <3> QED BY <3>1, <3>2, <3>3
  <2> DEFINE x == child * Ft
             y == child * h
             z == child * a
             s == cF * total
             v == child * total
             b == (65536 * S + 32768) * total
             kid == child * (Ft + total)
  <2>5. x \in Int /\ y \in Nat /\ z \in Int /\ s \in Int /\ v \in Nat /\ b \in Int /\ v <= 257 * total /\ kid \in Int
      BY <1>0, <1>1, <1>2, <1>3, <1>4, <1>6, <1>11
  <2>6. z <= kid /\ kid = x + v /\ z = 65536 * cw + y /\ s = x /\ s <= b /\ b = 65536 * St + 32768 * total
      BY <1>9, <1>10, <2>2, <2>3, <2>4
  <2> HIDE DEF cw, St, x, y, z, s, v, b, kid
  <2> QED BY <1>8, <2>5, <2>6
<1>15. Share(w, total, child) \in 1 .. TopWeight + 1
    BY <1>6, <1>7 DEF TopWeight
<1>16. S < 1 => S = 0 /\ St = 0
    BY <1>6
<1>17. S > 256 => 256 * total <= St
    BY <1>6, MulMono
<1> HIDE DEF cw, St
<1>18. Proportional(Share(w, total, child), w, total, child)
  <2> DEFINE s == Share(w, total, child)
  <2>1. s = 1 \/ s * total - cw <= total
    <3>1. CASE s = S
      <4>1. s * total = St
          BY <3>1 DEF St
      <4> QED BY <1>13, <4>1
    <3>2. CASE S > 256 /\ s = 256
        BY <1>8, <1>13, <1>17, <3>2
    <3> QED BY <1>6, <1>7, <3>1, <3>2 DEF TopWeight
  <2>2. s = TopWeight \/ cw - s * total <= total
    <3>1. CASE s = S
      <4>1. s * total = St
          BY <3>1 DEF St
      <4> QED BY <1>14, <4>1
    <3>2. CASE S < 1 /\ s = 1
        BY <1>8, <1>14, <1>16, <3>2
    <3> QED BY <1>6, <1>7, <3>1, <3>2 DEF TopWeight
  <2> QED BY <2>1, <2>2 DEF Proportional, cw
<1> QED BY <1>15, <1>18

LEMMA TotalFacts ==
  ASSUME NEW t, Sane(t), NEW p \in Inner, Len(t.refs[p]) # 0
  PROVE  Total(t, p) \in Nat /\ Total(t, p) # 0
<1> DEFINE r == t.refs[p]
           N == Len(r)
           f == WeightSums(t, p)
           Got(k) == f[k] \in Nat /\ f[k] >= k
<1>1. r \in Seq(Nodes) /\ t.weight \in [Nodes -> 1 .. TopWeight + 1]
    BY SaneFacts
<1>2. N \in Nat /\ N # 0 /\ \A k \in 1 .. N : r[k] \in Nodes
    BY <1>1
<1>3. f[0] = 0 /\ \A k \in 1 .. N : f[k] = f[k - 1] + t.weight[r[k]]
    BY <1>2, SumsRec
<1>4. \A k \in 1 .. N : t.weight[r[k]] \in Nat /\ t.weight[r[k]] >= 1
  <2>1. \A x \in Nodes : t.weight[x] \in 1 .. 257
      BY <1>1 DEF TopWeight
  <2>2. ASSUME NEW x \in Nodes PROVE t.weight[x] \in Nat /\ t.weight[x] >= 1
    <3> DEFINE w == t.weight[x]
    <3>1. w \in 1 .. 257
        BY <2>1
    <3> HIDE DEF w
    <3>2. w \in Nat /\ w >= 1
        BY <3>1
    <3> QED BY <3>2 DEF w
  <2> HIDE DEF r, N
  <2> QED BY <1>2, <2>2
<1> HIDE DEF f, N, r
<1>5. Got(0)
    BY <1>3
<1>6. ASSUME NEW k \in 1 .. N, Got(k - 1) PROVE Got(k)
    BY <1>2, <1>3, <1>4, <1>6
<1>7. Got(N)
  <2> DEFINE Bad == {j \in 0 .. N : ~Got(j)}
  <2> HIDE DEF Got
  <2>1. SUFFICES ASSUME Bad # {} PROVE FALSE
      BY <1>2
  <2>2. PICK j \in Bad : \A i \in Bad : j <= i
    <3>1. Bad \in SUBSET Nat
        BY <1>2
    <3> QED BY <2>1, <3>1, LeastNat
  <2>3. j # 0 /\ j \in 1 .. N /\ j - 1 \in 0 .. N /\ j - 1 \notin Bad
      BY <1>2, <1>5, <2>2
  <2> QED BY <1>6, <2>2, <2>3
<1>8. Total(t, p) = f[N]
    BY DEF Total, f, N, r
<1> QED BY <1>2, <1>7, <1>8

(* The parents and the weights after the first k dependents were moved *)
Passed(s, k) == {s[i] : i \in 1 .. k}

MovedUp(par, s, n, k) == [m \in Nodes |-> IF m \in Passed(s, k) THEN par[n] ELSE par[m]]

Shared(weight, s, n, total, k) ==
    [m \in Nodes |-> IF m \in Passed(s, k) THEN Share(weight[n], total, weight[m]) ELSE weight[m]]

(* One turn of the loop *)
LEMMA HandOverStep ==
  ASSUME NEW t, Sane(t), NEW n \in OpenIn(t.parent), NEW k \in 1 .. Len(t.refs[n]),
         NEW g, Sane(g), g.parent = MovedUp(t.parent, t.refs[n], n, k - 1), g.self = t.self,
         g.weight = Shared(t.weight, t.refs[n], n, Total(t, n), k - 1)
  PROVE  LET u == HandOver(g, t, n, Total(t, n), t.refs[n][k])
         IN /\ Sane(u) /\ u.parent = MovedUp(t.parent, t.refs[n], n, k) /\ u.self = t.self
            /\ u.weight = Shared(t.weight, t.refs[n], n, Total(t, n), k)
<1> DEFINE par == t.parent
           p == par[n]
           r == t.refs[n]
           kid == r[k]
           total == Total(t, n)
           w == Share(t.weight[n], total, t.weight[kid])
           u == HandOver(g, t, n, total, kid)
<1>1. /\ par \in Parents /\ Hangs(par) /\ t.refs \in [Inner -> Seq(Nodes)] /\ Listed(par, t.refs)
      /\ t.weight \in [Nodes -> 1 .. TopWeight + 1] /\ n \in Nodes /\ n \in Inner
    BY SaneFacts, NodeFacts DEF OpenIn
<1>2. p \in OpenIn(par) \cup {Root} /\ p # n /\ p # Closed
    BY <1>1, ParentOpen, NodeFacts DEF OpenIn
<1>3. r \in Seq(Nodes) /\ Distinct(r) /\ Elements(r) = {m \in Nodes : par[m] = n} /\ Len(r) \in Nat /\ DOMAIN r = 1 .. Len(r)
    BY <1>1 DEF Listed
<1>4. total \in Nat /\ total # 0
  <2>1. Len(t.refs[n]) # 0
      BY <1>3
  <2> QED BY <1>1, <2>1, TotalFacts
<1> HIDE DEF total, r, par, p, kid
<1>5. kid \in Nodes /\ par[kid] = n /\ kid \notin Passed(r, k - 1) /\ Passed(r, k) = Passed(r, k - 1) \cup {kid}
  <2>1. k \in DOMAIN r /\ kid \in Elements(r)
      BY <1>3 DEF Elements, kid, r
  <2>2. kid \notin Passed(r, k - 1)
      BY <1>3, <2>1 DEF Passed, Distinct, kid
  <2>3. Passed(r, k) = Passed(r, k - 1) \cup {kid}
    <3>1. k \in Nat /\ 1 .. k = 1 .. (k - 1) \cup {k}
        BY <1>3, <2>1
    <3> QED BY <3>1 DEF Passed, kid
  <2> QED BY <1>3, <2>1, <2>2, <2>3
<1>6. \A j \in 0 .. Len(r) : Passed(r, j) \subseteq {m \in Nodes : par[m] = n}
    BY <1>3 DEF Passed, Elements
<1>7. k - 1 \in 0 .. Len(r)
    BY <1>3 DEF r
<1>8. n \notin Passed(r, k - 1) /\ kid # n
  <2>1. par[n] # n
      BY <1>2 DEF p
  <2> QED BY <1>5, <1>6, <1>7, <2>1
<1>9. g.parent = MovedUp(par, r, n, k - 1) /\ g.weight = Shared(t.weight, r, n, total, k - 1)
    BY DEF par, r, total
<1>10. /\ g.parent[kid] = n /\ g.parent[n] = p /\ OpenIn(g.parent) = OpenIn(par)
  <2>1. \A m \in Nodes : g.parent[m] = IF m \in Passed(r, k - 1) THEN p ELSE par[m]
      BY <1>9 DEF MovedUp, p
  <2>2. \A m \in Nodes : m \in Passed(r, k - 1) => par[m] # Closed
    <3>1. n # Closed
        BY <1>1, NodeFacts
    <3> QED BY <1>6, <1>7, <3>1
  <2> QED BY <1>1, <1>2, <1>5, <1>8, <2>1, <2>2 DEF OpenIn, p
<1>11. w \in 1 .. TopWeight + 1
  <2>1. t.weight[n] \in 1 .. TopWeight + 1 /\ t.weight[kid] \in 1 .. TopWeight + 1
      BY <1>1, <1>5
  <2> QED BY <1>4, <2>1, ShareFacts
<1>12. kid \in OpenIn(g.parent) /\ n \in OpenIn(g.parent) /\ p \in OpenIn(g.parent) \cup {Root}
    BY <1>1, <1>2, <1>5, <1>10, NodeFacts DEF OpenIn, par
<1>13. kid \notin Ancestors(g.parent, p) /\ kid # p
  <2> DEFINE gp == g.parent
  <2>1. gp \in Parents /\ Hangs(gp) /\ gp[kid] = n /\ gp[n] = p /\ kid \in OpenIn(gp) /\ n \in OpenIn(gp)
      BY <1>10, <1>12, SaneFacts
  <2> HIDE DEF gp
  <2>2. Ancestors(gp, kid) = {n} \cup Ancestors(gp, n) /\ Ancestors(gp, n) = {p} \cup Ancestors(gp, p)
      BY <2>1, AncestorsStep
  <2>3. kid \notin Ancestors(gp, kid)
      BY <2>1, NoCycle
  <2> QED BY <2>2, <2>3 DEF gp
<1>14. u = Rebind(g, kid, p, w)
    BY DEF HandOver, p, par
<1> HIDE DEF w, u
<1>15. Sane(u) /\ u.parent = Put(g.parent, kid, p) /\ u.self = g.self /\ u.weight = Put(g.weight, kid, w)
    BY <1>11, <1>12, <1>13, <1>14, RebindPlain
<1>16. u.parent = MovedUp(par, r, n, k)
    BY <1>5, <1>9, <1>15 DEF Put, MovedUp, p
<1>17. u.weight = Shared(t.weight, r, n, total, k)
    BY <1>5, <1>9, <1>15 DEF Put, Shared, w
<1> QED BY <1>15, <1>16, <1>17 DEF u, kid, r, total, par

(* All dependents of the closing node are handed over to its parent. *)
LEMMA HandOverFacts ==
  ASSUME NEW t, Sane(t), NEW n \in OpenIn(t.parent)
  PROVE  LET u == HandOverEach(t, n)[Len(t.refs[n])]
         IN /\ Sane(u) /\ OpenIn(u.parent) = OpenIn(t.parent) /\ \A m \in Nodes : u.parent[m] # n
            /\ \A kid \in Elements(t.refs[n]) : u.weight[kid] = Share(t.weight[n], Total(t, n), t.weight[kid])
<1> DEFINE par == t.parent
           r == t.refs[n]
           N == Len(r)
           total == Total(t, n)
           f == HandOverEach(t, n)
           Got(k) == /\ Sane(f[k]) /\ f[k].parent = MovedUp(par, r, n, k) /\ f[k].self = t.self
                     /\ f[k].weight = Shared(t.weight, r, n, total, k)
<1>1. /\ par \in Parents /\ Hangs(par) /\ t.refs \in [Inner -> Seq(Nodes)] /\ Listed(par, t.refs)
      /\ t.weight \in [Nodes -> 1 .. TopWeight + 1] /\ n \in Nodes /\ n \in Inner
    BY SaneFacts, NodeFacts DEF OpenIn
<1>2. r \in Seq(Nodes) /\ Elements(r) = {m \in Nodes : par[m] = n} /\ N \in Nat /\ DOMAIN r = 1 .. N
    BY <1>1 DEF Listed
<1>3. f[0] = t /\ \A k \in 1 .. N : f[k] = HandOver(f[k - 1], t, n, total, r[k])
    BY <1>2, HandOverRec
<1> HIDE DEF f
<1>4. Got(0)
  <2>1. Passed(r, 0) = {}
      BY DEF Passed
  <2>2. par = MovedUp(par, r, n, 0)
    <3> HIDE DEF r, par
    <3> QED BY <1>1, <2>1 DEF MovedUp, Parents
  <2>3. t.weight = Shared(t.weight, r, n, total, 0)
    <3> HIDE DEF r, total
    <3> QED BY <1>1, <2>1 DEF Shared
  <2> QED BY <1>3, <2>2, <2>3
<1>5. ASSUME NEW k \in 1 .. N, Got(k - 1) PROVE Got(k)
  <2>1. f[k] = HandOver(f[k - 1], t, n, total, r[k])
      BY <1>3
  <2> DEFINE g == f[k - 1]
  <2>2. Sane(g) /\ g.parent = MovedUp(par, r, n, k - 1) /\ g.self = t.self
        /\ g.weight = Shared(t.weight, r, n, total, k - 1)
      BY <1>5
  <2> HIDE DEF g
  <2> DEFINE u == HandOver(g, t, n, total, r[k])
  <2>3. Sane(u) /\ u.parent = MovedUp(par, r, n, k) /\ u.self = t.self
        /\ u.weight = Shared(t.weight, r, n, total, k)
      BY <2>2, HandOverStep
  <2>4. f[k] = u
      BY <2>1 DEF g
  <2> HIDE DEF u, r, par, total, N
  <2> QED BY <2>3, <2>4
<1>6. Got(N)
  <2> DEFINE Bad == {j \in 0 .. N : ~Got(j)}
  <2> HIDE DEF Got, N
  <2>1. SUFFICES ASSUME Bad # {} PROVE FALSE
      BY <1>2
  <2>2. PICK j \in Bad : \A i \in Bad : j <= i
    <3>1. Bad \in SUBSET Nat
        BY <1>2
    <3> QED BY <2>1, <3>1, LeastNat
  <2>3. j # 0 /\ j \in 1 .. N /\ j - 1 \in 0 .. N /\ j - 1 \notin Bad
      BY <1>2, <1>4, <2>2
  <2> QED BY <1>5, <2>2, <2>3
<1>7. Passed(r, N) = Elements(r)
  <2> HIDE DEF r, N
  <2> QED BY <1>2 DEF Passed, Elements
<1> DEFINE u == f[N]
<1>8. Sane(u) /\ u.parent = MovedUp(par, r, n, N) /\ u.weight = Shared(t.weight, r, n, total, N)
    BY <1>6
<1> HIDE DEF u, r, par, total, N
<1>9. par[n] # n /\ par[n] # Closed /\ n # Closed
    BY <1>1, ParentOpen, NodeFacts DEF OpenIn, par
<1>10. \A m \in Nodes : u.parent[m] = IF par[m] = n THEN par[n] ELSE par[m]
    BY <1>2, <1>7, <1>8 DEF MovedUp
<1>11. OpenIn(u.parent) = OpenIn(par) /\ \A m \in Nodes : u.parent[m] # n
    BY <1>9, <1>10 DEF OpenIn
<1>12. ASSUME NEW kid \in Elements(r) PROVE u.weight[kid] = Share(t.weight[n], total, t.weight[kid])
    BY <1>2, <1>7, <1>8 DEF Shared
<1> QED BY <1>8, <1>11, <1>12 DEF u, f, r, par, total, N

(* A node without children counts only itself. *)
LEMMA ExpectLeaf ==
  ASSUME NEW par, NEW cnt, NEW self, NEW x, \A m \in Nodes : par[m] = x => ~(cnt[m] > 0)
  PROVE  Expect(par, cnt, self, x) = Ind(self[x])
<1> DEFINE K == {kid \in Nodes : par[kid] = x /\ cnt[kid] > 0}
<1>1. K = {}
    OBVIOUS
<1>2. Cardinality(K) = 0
    BY <1>1, FS_EmptySet
<1> QED BY <1>2, IndFacts DEF Expect

(* A leaf leaves: what is left hangs together. *)
LEMMA Unhang ==
  ASSUME NEW par \in Parents, Hangs(par), NEW n \in OpenIn(par), \A m \in Nodes : par[m] # n
  PROVE  LET new == Put(par, n, Closed)
         IN new \in Parents /\ Hangs(new) /\ OpenIn(new) = OpenIn(par) \ {n}
<1> DEFINE new == Put(par, n, Closed)
<1>0. n \in Nodes
    BY DEF OpenIn
<1>1. new \in Parents /\ new[n] = Closed /\ \A x \in Nodes \ {n} : new[x] = par[x]
    BY <1>0 DEF Parents, Put
<1> HIDE DEF new
<1>2. OpenIn(new) = OpenIn(par) \ {n}
    BY <1>0, <1>1 DEF OpenIn
<1>3. ASSUME NEW S \in SUBSET OpenIn(new), S # {}
      PROVE  \E m \in S : new[m] \in (OpenIn(new) \cup {Root}) \ S
  <2>1. PICK m \in S : par[m] \in (OpenIn(par) \cup {Root}) \ S
      BY <1>2, <1>3 DEF Hangs
  <2>2. m \in Nodes \ {n} /\ par[m] # n
      BY <1>2, <2>1 DEF OpenIn
  <2> QED BY <1>1, <1>2, <2>1, <2>2
<1> QED BY <1>1, <1>2, <1>3 DEF Hangs, new

LEMMA UnlistedFacts ==
  ASSUME NEW par \in Parents, NEW refs \in [Inner -> Seq(Nodes)], NEW n \in Nodes, par[n] \in Inner,
         Listed(par, refs)
  PROVE  LET r == [refs EXCEPT ![par[n]] = Without(@, {n})]
         IN r \in [Inner -> Seq(Nodes)] /\ Listed(Put(par, n, Closed), r)
<1> DEFINE q == par[n]
           w == Without(refs[q], {n})
           r == [refs EXCEPT ![q] = w]
           new == Put(par, n, Closed)
<1>1. w \in Seq(Nodes) /\ Distinct(w) /\ Elements(w) = Elements(refs[q]) \ {n}
    BY WithoutFacts DEF Listed
<1>2. r \in [Inner -> Seq(Nodes)] /\ r[q] = w /\ \A x \in Inner \ {q} : r[x] = refs[x]
    BY <1>1
<1>3. \A m \in Nodes : new[m] = IF m = n THEN Closed ELSE par[m]
    BY DEF Parents, Put
<1>4. Closed \notin Inner
    BY NodeFacts
<1> HIDE DEF w, r, new
<1> QED BY <1>1, <1>2, <1>3, <1>4 DEF Listed, r, new, w

(* The tree with another place for its nodes, and with a node's activity set *)
Placed(t, a, b, kid) == [t EXCEPT !.refs = b, !.parent = a, !.weight = kid]

Marked(t, n, b, v) == [t EXCEPT !.self[n] = b, !.cnt[n] = v]

LEMMA PlaceSet ==
  ASSUME NEW t \in Tree, NEW a \in Parents, NEW b \in [Inner -> Seq(Nodes)],
         NEW kid \in [Nodes -> 1 .. TopWeight + 1]
  PROVE  LET u == Placed(t, a, b, kid)
         IN /\ u \in Tree /\ u.parent = a /\ u.refs = b /\ u.cnt = t.cnt /\ u.self = t.self /\ u.linked = t.linked
            /\ u.ok = t.ok /\ u.weight = kid
BY DEF Tree, Parents, Placed

LEMMA SelfSet ==
  ASSUME NEW t \in Tree, NEW n \in Nodes, NEW b \in BOOLEAN, NEW v \in Int
  PROVE  LET u == Marked(t, n, b, v)
         IN /\ u \in Tree /\ u.parent = t.parent /\ u.refs = t.refs /\ u.self = Put(t.self, n, b)
            /\ u.weight = t.weight /\ u.cnt = Put(t.cnt, n, v) /\ u.linked = t.linked /\ u.ok = t.ok
<1> DEFINE u == [t EXCEPT !.self[n] = b, !.cnt[n] = v]
<1>1. /\ u.parent = t.parent /\ u.refs = t.refs /\ u.self = [t.self EXCEPT ![n] = b]
      /\ u.weight = t.weight /\ u.cnt = [t.cnt EXCEPT ![n] = v] /\ u.linked = t.linked /\ u.ok = t.ok
    BY DEF Tree
<1>2. [t.self EXCEPT ![n] = b] \in [Nodes -> BOOLEAN] /\ [t.cnt EXCEPT ![n] = v] \in [Nodes -> Int]
    BY DEF Tree
<1>3. u \in Tree
    BY <1>2 DEF Tree
<1> QED BY <1>1, <1>3 DEF Marked, Put

(* The end of vhttp_http2_scheduler_close *)
LEMMA DetachFacts ==
  ASSUME NEW t, Sane(t), NEW n \in OpenIn(t.parent), \A m \in Nodes : t.parent[m] # n
  PROVE  LET u == Detach(t, n)
         IN /\ Sane(u) /\ OpenIn(u.parent) = OpenIn(t.parent) \ {n}
            /\ \A m \in Nodes \ {n} : u.weight[m] = t.weight[m]
<1> DEFINE par == t.parent
           p == par[n]
           new == Put(par, n, Closed)
           r == [t.refs EXCEPT ![p] = Without(@, {n})]
           d == [t EXCEPT !.refs[p] = Without(@, {n}), !.parent[n] = Closed, !.weight[n] = 1]
           u == Detach(t, n)
<1>1. /\ t \in Tree /\ t.cnt \in [Nodes -> Nat] /\ par \in Parents /\ Hangs(par) /\ t.ok
      /\ t.refs \in [Inner -> Seq(Nodes)] /\ t.linked \in [Nodes -> Inner \cup {Closed}]
      /\ t.self \in [Nodes -> BOOLEAN] /\ t.weight \in [Nodes -> 1 .. TopWeight + 1]
      /\ LinksOK(par, t) /\ Listed(par, t.refs) /\ Idle(par, t.self)
      /\ \A x \in Nodes : t.cnt[x] = Expect(par, t.cnt, t.self, x)
    BY SaneFacts
<1>2. n \in Nodes /\ p \in OpenIn(par) \cup {Root} /\ p \in Inner /\ p # Closed /\ p # n /\ Root \notin Nodes
    BY <1>1, ParentOpen, NodeFacts DEF OpenIn
<1>3. new \in Parents /\ Hangs(new) /\ OpenIn(new) = OpenIn(par) \ {n}
  <2> DEFINE o == t.parent
  <2>1. o \in Parents /\ Hangs(o) /\ n \in OpenIn(o) /\ \A m \in Nodes : o[m] # n
      BY <1>1
  <2> HIDE DEF o
  <2>2. LET x == Put(o, n, Closed) IN x \in Parents /\ Hangs(x) /\ OpenIn(x) = OpenIn(o) \ {n}
      BY <2>1, Unhang
  <2> QED BY <2>2 DEF o
<1>4. new[n] = Closed /\ \A y \in Nodes \ {n} : new[y] = par[y]
    BY <1>1, <1>2 DEF Parents, Put
<1>5. r \in [Inner -> Seq(Nodes)] /\ Listed(new, r)
  <2> DEFINE o == t.parent
             rf == t.refs
             rr == [rf EXCEPT ![o[n]] = Without(@, {n})]
  <2>1. o \in Parents /\ rf \in [Inner -> Seq(Nodes)] /\ o[n] \in Inner /\ Listed(o, rf)
      BY <1>1, <1>2
  <2> HIDE DEF o, rf
  <2>2. rr \in [Inner -> Seq(Nodes)] /\ Listed(Put(o, n, Closed), rr)
      BY <1>2, <2>1, UnlistedFacts
  <2> QED BY <2>2 DEF o, rf
<1>6. /\ d \in Tree /\ d.parent = new /\ d.refs = r /\ d.cnt = t.cnt /\ d.self = t.self /\ d.linked = t.linked
      /\ d.ok = t.ok /\ d.weight = [t.weight EXCEPT ![n] = 1]
  <2> DEFINE W == 1 .. TopWeight + 1
             x == [t.weight EXCEPT ![n] = 1]
             o == Placed(t, new, r, x)
  <2>1. x \in [Nodes -> W]
    <3>1. 1 \in W /\ t.weight \in [Nodes -> W]
        BY <1>1 DEF TopWeight
    <3> HIDE DEF W
    <3> QED BY <3>1
  <2>2. d = o
      BY <1>1 DEF Tree, Put, Placed
  <2> HIDE DEF d, new, r, x
  <2>3. /\ o \in Tree /\ o.parent = new /\ o.refs = r /\ o.cnt = t.cnt /\ o.self = t.self /\ o.linked = t.linked
        /\ o.ok = t.ok /\ o.weight = x
    <3>1. t \in Tree /\ new \in Parents /\ r \in [Inner -> Seq(Nodes)] /\ x \in [Nodes -> 1 .. TopWeight + 1]
        BY <1>1, <1>3, <1>5, <2>1
    <3> QED BY <3>1, PlaceSet
  <2> HIDE DEF o
  <2> QED BY <2>2, <2>3 DEF x
<1>7. t.cnt[n] = Ind(t.self[n])
  <2>1. Expect(par, t.cnt, t.self, n) = Ind(t.self[n])
      BY ExpectLeaf
  <2> QED BY <1>1, <1>2, <2>1
<1>8. ASSUME NEW x \in Nodes
      PROVE  Expect(new, t.cnt, t.self, x) = t.cnt[x] - Adds(par, t.cnt, n, x)
  <2> DEFINE kid == t.cnt
             s == t.self
  <2>1. Expect(new, kid, s, x) = Expect(par, kid, s, x) + Adds(new, kid, n, x) - Adds(par, kid, n, x)
    <3> HIDE DEF new, par, kid, s
    <3> QED BY <1>2, <1>4, ExpectChange
  <2>2. Adds(new, kid, n, x) = 0
      BY <1>4, NodeFacts DEF Adds
  <2>3. kid[x] = Expect(par, kid, s, x) /\ kid[x] \in Nat
      BY <1>1
  <2>4. Adds(par, kid, n, x) \in Int
      BY DEF Adds
  <2> HIDE DEF new, par, kid, s
  <2>5. Expect(new, kid, s, x) = kid[x] - Adds(par, kid, n, x)
      BY <2>1, <2>2, <2>3, <2>4
  <2> QED BY <2>5 DEF kid, s
<1> HIDE DEF new, r
<1>9. CASE ~t.self[n]
  <2>1. t.cnt[n] = 0
      BY <1>7, <1>9, IndFacts
  <2>2. u = d
    <3>1. u = Checked(d, d.cnt[n] = 0)
        BY <1>6, <1>9, Zenon DEF Detach
    <3> QED BY <1>6, <2>1, <3>1, CheckedTrue
  <2> HIDE DEF d, u
  <2>3. Balanced(new, d, Root, Root)
    <3> SUFFICES ASSUME NEW x \in Nodes
                 PROVE  d.cnt[x] + Ind(x = Root) - Ind(x = Root) = Expect(new, d.cnt, d.self, x)
        BY DEF Balanced
    <3>1. Adds(par, t.cnt, n, x) = 0 /\ t.cnt[x] \in Nat
        BY <1>1, <2>1 DEF Adds
    <3> QED BY <1>6, <1>8, <3>1, IndFacts
  <2>4. LinksOK(new, d)
      BY <1>1, <1>4, <1>6, <2>1 DEF LinksOK
  <2>5. Underway(new, d, Root, Root)
      BY <1>1, <1>6, <2>3, <2>4 DEF Underway
  <2>6. Idle(new, d.self)
      BY <1>1, <1>3, <1>6, <1>9 DEF Idle
  <2> QED BY <1>1, <1>3, <1>5, <1>6, <2>2, <2>5, <2>6 DEF Sane, u
<1>10. CASE t.self[n]
  <2> DEFINE e == Unlink(d, n)
             g == decr_active_cnt(e, p)
             B == {p} \cup Ancestors(par, p)
  <2>1. t.cnt[n] = 1 /\ t.linked[n] = p
    <3>1. t.cnt[n] = 1
      <4>1. Ind(t.self[n]) = 1
          BY <1>10, Zenon DEF Ind
      <4> QED BY <1>7, <4>1
    <3> QED BY <1>1, <1>2, <3>1 DEF LinksOK
  <2>2. u = [g EXCEPT !.self[n] = FALSE, !.cnt[n] = 0]
    <3>1. Checked(d, d.cnt[n] = 1) = d /\ d.self[n]
      <4>1. d.self[n]
          BY <1>6, <1>10, Zenon
      <4>2. d.cnt[n] = 1
          BY <1>6, <2>1
      <4> HIDE DEF d
      <4> QED BY <4>1, <4>2, CheckedTrue, Zenon
    <3>2. u = IF d.self[n] THEN [decr_active_cnt(Unlink(Checked(d, d.cnt[n] = 1), n), p)
                                    EXCEPT !.self[n] = FALSE, !.cnt[n] = 0]
              ELSE Checked(d, d.cnt[n] = 0)
        BY Zenon DEF Detach
    <3> HIDE DEF d, u
    <3> QED BY <3>1, <3>2
  <2> HIDE DEF d, u
  <2>3. /\ e \in Tree /\ SameNodes(d, e) /\ e.cnt = t.cnt /\ e.linked = [t.linked EXCEPT ![n] = Closed]
      BY <1>2, <1>6, <2>1, QueueUnset
  <2>4. e.self = t.self /\ e.parent = new
      BY <1>6, <2>3 DEF SameNodes
  <2> HIDE DEF e
  <2>5. Underway(new, e, Root, p)
    <3>1. Balanced(new, e, Root, p)
      <4> SUFFICES ASSUME NEW x \in Nodes
                   PROVE  e.cnt[x] + Ind(x = Root) - Ind(x = p) = Expect(new, e.cnt, e.self, x)
          BY DEF Balanced
      <4>1. Adds(par, t.cnt, n, x) = Ind(x = p) /\ t.cnt[x] \in Nat
          BY <1>1, <2>1 DEF Adds, Ind
      <4>2. Ind(x = Root) = 0
          BY <1>2, IndFacts
      <4> HIDE DEF par, p
      <4> QED BY <1>8, <2>3, <2>4, <4>1, <4>2, IndFacts
    <3>2. LinksOK(new, e)
        BY <1>1, <1>2, <1>4, <2>1, <2>3 DEF LinksOK
    <3> QED BY <1>1, <2>3, <3>1, <3>2 DEF Underway
  <2>6. ClosedUp(par, B) /\ n \notin B /\ p \in B
    <3> DEFINE o == t.parent
    <3>1. o \in Parents /\ Hangs(o) /\ n \in OpenIn(o) /\ o[n] \in OpenIn(o) \cup {Root}
        BY <1>1, <1>2
    <3> HIDE DEF o
    <3>2. Ancestors(o, n) = {o[n]} \cup Ancestors(o, o[n]) /\ n \notin Ancestors(o, n)
        BY <3>1, AncestorsStep, NoCycle
    <3>3. ClosedUp(o, {o[n]} \cup Ancestors(o, o[n]))
        BY <3>1, AndAncestors
    <3> QED BY <3>2, <3>3 DEF o
  <2>7. ClosedUp(new, B)
      BY <1>2, <1>4, <2>6 DEF ClosedUp, Inner
  <2>8. SameNodes(e, g) /\ Underway(new, g, Root, Root)
    <3>1. \A x \in B \ {Root} : e.parent[x] = new[x]
        BY <2>4
    <3>2. Root # Root => n \in Nodes \ B /\ new[n] = Root /\ e.cnt[n] > 0
        OBVIOUS
    <3> HIDE DEF B, p
    <3> QED BY <1>3, <2>5, <2>6, <2>7, <3>1, <3>2, DecrFacts
  <2> HIDE DEF g
  <2>9. /\ g \in Tree /\ g.parent = new /\ g.refs = r /\ g.self = t.self /\ g.ok = t.ok /\ g.weight = d.weight
        /\ g.cnt \in [Nodes -> Nat] /\ Balanced(new, g, Root, Root) /\ LinksOK(new, g)
      BY <1>6, <2>3, <2>8 DEF SameNodes, Underway
  <2>10. /\ u \in Tree /\ u.parent = new /\ u.refs = r /\ u.self = [t.self EXCEPT ![n] = FALSE] /\ u.ok = t.ok
         /\ u.weight = d.weight /\ u.cnt = [g.cnt EXCEPT ![n] = 0] /\ u.linked = g.linked
    <3>1. FALSE \in BOOLEAN /\ 0 \in Int
        OBVIOUS
    <3> DEFINE o == Marked(g, n, FALSE, 0)
    <3>2. /\ o \in Tree /\ o.parent = g.parent /\ o.refs = g.refs /\ o.self = Put(g.self, n, FALSE)
          /\ o.weight = g.weight /\ o.cnt = Put(g.cnt, n, 0) /\ o.linked = g.linked /\ o.ok = g.ok
        BY <1>2, <2>9, <3>1, SelfSet
    <3>3. u = o
        BY <2>2 DEF Marked
    <3> HIDE DEF o
    <3> QED BY <2>9, <3>2, <3>3 DEF Put
  <2>11. u.cnt \in [Nodes -> Nat]
    <3> DEFINE kid == g.cnt
    <3>1. kid \in [Nodes -> Nat] /\ u.cnt = [kid EXCEPT ![n] = 0]
        BY <2>9, <2>10
    <3> HIDE DEF kid
    <3>2. [kid EXCEPT ![n] = 0] \in [Nodes -> Nat]
        BY <3>1
    <3> QED BY <3>1, <3>2
  <2>12. Balanced(new, u, Root, Root)
    <3> SUFFICES ASSUME NEW x \in Nodes
                 PROVE  u.cnt[x] + Ind(x = Root) - Ind(x = Root) = Expect(new, u.cnt, u.self, x)
        BY DEF Balanced
    <3>1. g.cnt[x] = Expect(new, g.cnt, g.self, x) /\ g.cnt[x] \in Nat
      <4>1. g.cnt[x] + Ind(x = Root) - Ind(x = Root) = Expect(new, g.cnt, g.self, x) /\ g.cnt[x] \in Nat
          BY <2>9 DEF Balanced
      <4> QED BY <4>1, IndFacts, ExpectFacts
    <3>2. u.cnt[x] \in Nat
        BY <2>11
    <3>3. u.cnt[x] = Expect(new, u.cnt, u.self, x)
      <4>1. CASE x = n
        <5>1. \A m \in Nodes : new[m] # n
            BY <1>1, <1>2, <1>4, NodeFacts DEF par
        <5>2. Expect(new, u.cnt, u.self, n) = Ind(u.self[n])
            BY <5>1, ExpectLeaf
        <5>3. ~u.self[n] /\ u.cnt[n] = 0
            BY <1>1, <1>2, <2>9, <2>10
        <5> QED BY <4>1, <5>2, <5>3, IndFacts
      <4>2. CASE x # n
        <5> DEFINE kid == g.cnt
                   c2 == u.cnt
                   s == t.self
        <5>1. \A y \in Nodes \ {n} : c2[y] = kid[y]
            BY <2>9, <2>10
        <5>2. u.self[x] = s[x]
            BY <1>1, <2>10, <4>2
        <5>3. Expect(new, c2, s, x) = Expect(new, kid, s, x) + Adds(new, c2, n, x) - Adds(new, kid, n, x)
          <6> HIDE DEF kid, c2, s
          <6> QED BY <1>2, <5>1, ExpectChange
        <5>4. Adds(new, c2, n, x) = 0 /\ Adds(new, kid, n, x) = 0
            BY <1>4, NodeFacts DEF Adds
        <5>5. Expect(new, c2, u.self, x) = Expect(new, c2, s, x)
            BY <5>2 DEF Expect
        <5>6. Expect(new, kid, s, x) \in Nat /\ kid[x] = Expect(new, kid, s, x) /\ c2[x] = kid[x]
            BY <2>9, <3>1, <4>2, <5>1
        <5> HIDE DEF kid, c2, s
        <5>7. c2[x] = Expect(new, c2, u.self, x)
            BY <5>3, <5>4, <5>5, <5>6
        <5> QED BY <5>7 DEF c2
      <4> QED BY <4>1, <4>2
    <3> QED BY <3>2, <3>3, IndFacts
  <2>13. LinksOK(new, u)
      BY <1>2, <1>4, <2>9, <2>10 DEF LinksOK
  <2>14. Idle(new, u.self)
      BY <1>1, <1>2, <1>3, <2>10 DEF Idle
  <2>15. Sane(u)
      BY <1>1, <1>3, <1>5, <2>10, <2>11, <2>12, <2>13, <2>14 DEF Sane, Underway
  <2> QED BY <1>1, <1>3, <1>6, <2>10, <2>15 DEF u
<1> QED BY <1>9, <1>10

LEMMA CloseFacts ==
  ASSUME NEW t, Sane(t), NEW n \in OpenIn(t.parent)
  PROVE  LET u == Close(t, n)
         IN /\ Sane(u) /\ OpenIn(u.parent) = OpenIn(t.parent) \ {n}
            /\ \A kid \in Elements(t.refs[n]) : u.weight[kid] = Share(t.weight[n], Total(t, n), t.weight[kid])
<1> DEFINE h == HandOverEach(t, n)[Len(t.refs[n])]
           u == Close(t, n)
<1>1. n \in Nodes /\ IsOpen(t, n)
    BY DEF OpenIn, IsOpen
<1>2. u = Detach(h, n)
    BY <1>1, CheckedTrue DEF Close
<1>3. /\ Sane(h) /\ OpenIn(h.parent) = OpenIn(t.parent) /\ \A m \in Nodes : h.parent[m] # n
      /\ \A kid \in Elements(t.refs[n]) : h.weight[kid] = Share(t.weight[n], Total(t, n), t.weight[kid])
    BY HandOverFacts
<1> HIDE DEF h
<1>4. LET x == Detach(h, n)
      IN /\ Sane(x) /\ OpenIn(x.parent) = OpenIn(h.parent) \ {n}
         /\ \A m \in Nodes \ {n} : x.weight[m] = h.weight[m]
    BY <1>3, DetachFacts
<1>5. Elements(t.refs[n]) \subseteq Nodes \ {n}
  <2>1. t.parent \in Parents /\ Hangs(t.parent) /\ Listed(t.parent, t.refs) /\ n \in Inner
      BY <1>1, SaneFacts, NodeFacts
  <2>2. t.parent[n] # n
      BY <2>1, ParentOpen
  <2> QED BY <2>1, <2>2 DEF Listed
<1> HIDE DEF u
<1> QED BY <1>2, <1>3, <1>4, <1>5 DEF u

(* A node is added as a leaf. *)
LEMMA Inhang ==
  ASSUME NEW par \in Parents, Hangs(par), NEW n \in Nodes \ OpenIn(par), NEW p \in OpenIn(par) \cup {Root}
  PROVE  LET new == Put(par, n, p)
         IN new \in Parents /\ Hangs(new) /\ OpenIn(new) = OpenIn(par) \cup {n}
<1> DEFINE new == Put(par, n, p)
<1>0. n \in Nodes /\ p \in Inner /\ p # Closed /\ n # p /\ n # Root /\ par[n] = Closed /\ \A m \in Nodes : par[m] # n
  <2>1. n \in Nodes /\ p \in Inner /\ p # Closed /\ n # p /\ n # Root /\ par[n] = Closed
      BY NodeFacts DEF OpenIn
  <2>2. ASSUME NEW m \in Nodes, par[m] = n PROVE FALSE
    <3>1. m \in OpenIn(par)
        BY <2>1, <2>2, NodeFacts DEF OpenIn
    <3> QED BY <2>1, <2>2, <3>1, ParentOpen
  <2> QED BY <2>1, <2>2
<1>1. new \in Parents /\ new[n] = p /\ \A x \in Nodes \ {n} : new[x] = par[x]
    BY <1>0 DEF Parents, Put
<1> HIDE DEF new
<1>2. OpenIn(new) = OpenIn(par) \cup {n}
    BY <1>0, <1>1 DEF OpenIn
<1>3. ASSUME NEW S \in SUBSET OpenIn(new), S # {}
      PROVE  \E m \in S : new[m] \in (OpenIn(new) \cup {Root}) \ S
  <2>1. CASE S = {n}
      BY <1>0, <1>1, <1>2, <2>1
  <2>2. CASE S # {n}
    <3>1. S \ {n} \in SUBSET OpenIn(par) /\ S \ {n} # {}
        BY <1>2, <1>3, <2>2
    <3>2. PICK m \in S \ {n} : par[m] \in (OpenIn(par) \cup {Root}) \ (S \ {n})
        BY <3>1 DEF Hangs
    <3>3. m \in Nodes /\ par[m] # n
        BY <1>0, <3>1, <3>2 DEF OpenIn
    <3> QED BY <1>1, <1>2, <3>2, <3>3
  <2> QED BY <2>1, <2>2
<1> QED BY <1>1, <1>2, <1>3 DEF Hangs, new

Added(refs, n, p) == LET r == [refs EXCEPT ![n] = <<>>] IN [r EXCEPT ![p] = Append(@, n)]

LEMMA AddedFacts ==
  ASSUME NEW par \in Parents, NEW refs \in [Inner -> Seq(Nodes)], NEW n \in Nodes, NEW p \in Inner, p # n,
         par[n] = Closed, \A m \in Nodes : par[m] # n, Listed(par, refs)
  PROVE  LET r == Added(refs, n, p)
         IN r \in [Inner -> Seq(Nodes)] /\ Listed(Put(par, n, p), r) /\ LastOf(r[p], n)
<1> DEFINE a == [refs EXCEPT ![n] = <<>>]
           r == Added(refs, n, p)
           new == Put(par, n, p)
<1>0. n \in Inner /\ Closed \notin Inner
    BY NodeFacts
<1>1. <<>> \in Seq(Nodes) /\ Distinct(<<>>) /\ Elements(<<>>) = {}
    BY DEF Distinct, Elements
<1>2. a \in [Inner -> Seq(Nodes)] /\ a[n] = <<>> /\ \A x \in Inner \ {n} : a[x] = refs[x]
    BY <1>0, <1>1
<1>3. r = [a EXCEPT ![p] = Append(a[p], n)]
    BY DEF Added
<1> HIDE DEF a, r
<1>4. a[p] \in Seq(Nodes) /\ Distinct(a[p]) /\ Elements(a[p]) = {m \in Nodes : par[m] = p} /\ n \notin Elements(a[p])
    BY <1>0, <1>2 DEF Listed
<1> DEFINE s == a[p]
           e == Append(s, n)
<1>5. /\ e \in Seq(Nodes) /\ Distinct(e) /\ Elements(e) = Elements(s) \cup {n} /\ LastOf(e, n)
  <2>1. s \in Seq(Nodes) /\ Distinct(s) /\ n \notin Elements(s)
      BY <1>4
  <2> HIDE DEF s
  <2> QED BY <2>1, AppendFacts, AppendLast
<1> HIDE DEF e
<1>6. r \in [Inner -> Seq(Nodes)] /\ r[p] = e /\ \A x \in Inner \ {p} : r[x] = a[x]
    BY <1>2, <1>3, <1>5 DEF e
<1>7. \A m \in Nodes : new[m] = IF m = n THEN p ELSE par[m]
    BY DEF Put, Parents
<1> HIDE DEF new
<1>8. ASSUME NEW x \in Inner
      PROVE  Distinct(r[x]) /\ Elements(r[x]) = {m \in Nodes : new[m] = x}
  <2>1. CASE x = p
    <3>1. Elements(s) = {m \in Nodes : par[m] = p}
        BY <1>4
    <3> HIDE DEF s
    <3> QED BY <1>5, <1>6, <1>7, <2>1, <3>1
  <2>2. CASE x = n
      BY <1>1, <1>2, <1>6, <1>7, <2>2
  <2>3. CASE x # n /\ x # p
    <3>1. r[x] = refs[x]
        BY <1>2, <1>6, <2>3
    <3>2. \A m \in Nodes : new[m] = x <=> par[m] = x
        BY <1>0, <1>7, <2>3
    <3>3. Distinct(refs[x]) /\ Elements(refs[x]) = {m \in Nodes : par[m] = x}
        BY DEF Listed
    <3> QED BY <3>1, <3>2, <3>3
  <2> QED BY <2>1, <2>2, <2>3
<1> QED BY <1>5, <1>6, <1>8 DEF Listed, r, new

ListMaps == [Inner -> Seq(Nodes)]

WeightMaps == [Nodes -> 1 .. TopWeight + 1]

Cleared(t, a, b, kid, n) == [Marked(Placed(t, a, b, kid), n, FALSE, 0) EXCEPT !.linked[n] = Closed]

LEMMA ClearedFacts ==
  ASSUME NEW t \in Tree, NEW a \in Parents, NEW b \in ListMaps, NEW kid \in WeightMaps, NEW n \in Nodes
  PROVE  LET u == Cleared(t, a, b, kid, n)
         IN /\ u \in Tree /\ u.parent = a /\ u.refs = b /\ u.weight = kid /\ u.ok = t.ok
            /\ u.cnt = Put(t.cnt, n, 0) /\ u.linked = Put(t.linked, n, Closed)
            /\ ~u.self[n] /\ \A y \in Nodes \ {n} : u.self[y] = t.self[y]
<1> DEFINE v == Placed(t, a, b, kid)
           m == Marked(v, n, FALSE, 0)
           u == [m EXCEPT !.linked[n] = Closed]
<1>1. /\ v \in Tree /\ v.parent = a /\ v.refs = b /\ v.cnt = t.cnt /\ v.self = t.self /\ v.linked = t.linked
      /\ v.ok = t.ok /\ v.weight = kid
  <2>1. b \in [Inner -> Seq(Nodes)] /\ kid \in [Nodes -> 1 .. TopWeight + 1]
      BY DEF ListMaps, WeightMaps
  <2> QED BY <2>1, PlaceSet
<1> HIDE DEF v
<1>2. /\ m \in Tree /\ m.parent = v.parent /\ m.refs = v.refs /\ m.self = Put(v.self, n, FALSE)
      /\ m.weight = v.weight /\ m.cnt = Put(v.cnt, n, 0) /\ m.linked = v.linked /\ m.ok = v.ok
  <2>1. FALSE \in BOOLEAN /\ 0 \in Int
      OBVIOUS
  <2> QED BY <1>1, <2>1, SelfSet
<1> HIDE DEF m
<1>3. /\ u \in Tree /\ SameNodes(m, u) /\ u.cnt = m.cnt /\ u.linked = [m.linked EXCEPT ![n] = Closed]
    BY <1>2 DEF Tree, SameNodes
<1>4. u = Cleared(t, a, b, kid, n)
    BY DEF Cleared, m, v
<1> HIDE DEF u
<1>5. u.linked = Put(t.linked, n, Closed)
    BY <1>1, <1>2, <1>3 DEF Put
<1>6. ~u.self[n] /\ \A y \in Nodes \ {n} : u.self[y] = t.self[y]
  <2>1. t.self \in [Nodes -> BOOLEAN] /\ u.self = [t.self EXCEPT ![n] = FALSE]
      BY <1>1, <1>2, <1>3 DEF SameNodes, Put, Tree
  <2> QED BY <2>1
<1> QED BY <1>1, <1>2, <1>3, <1>4, <1>5, <1>6 DEF SameNodes

(* vhttp_http2_scheduler_open, before the node becomes exclusive *)
LEMMA OpenFacts ==
  ASSUME NEW t, Sane(t), NEW n \in Nodes \ OpenIn(t.parent), NEW p \in OpenIn(t.parent) \cup {Root},
         NEW w \in 1 .. TopWeight + 1
  PROVE  Adding(OpenNode(t, n, p, w), p, n)
<1> DEFINE par == t.parent
           new == Put(par, n, p)
           r == Added(t.refs, n, p)
           x == Put(t.weight, n, w)
           u == OpenNode(t, n, p, w)
<1>1. /\ t \in Tree /\ t.cnt \in [Nodes -> Nat] /\ par \in Parents /\ Hangs(par) /\ t.ok
      /\ t.refs \in [Inner -> Seq(Nodes)] /\ t.linked \in [Nodes -> Inner \cup {Closed}]
      /\ t.self \in [Nodes -> BOOLEAN] /\ t.weight \in [Nodes -> 1 .. TopWeight + 1]
      /\ LinksOK(par, t) /\ Listed(par, t.refs) /\ Idle(par, t.self)
      /\ \A y \in Nodes : t.cnt[y] = Expect(par, t.cnt, t.self, y)
    BY SaneFacts
<1>2. /\ n \in Nodes /\ p \in Inner /\ p # n /\ par[n] = Closed /\ n # Root
    BY NodeFacts DEF OpenIn
<1>3. \A m \in Nodes : par[m] # n
  <2>1. ASSUME NEW m \in Nodes, par[m] = n PROVE FALSE
    <3>1. m \in OpenIn(par)
        BY <1>2, <2>1, NodeFacts DEF OpenIn
    <3> QED BY <1>1, <1>2, <2>1, <3>1, ParentOpen
  <2> QED BY <2>1
<1>4. new \in Parents /\ Hangs(new) /\ OpenIn(new) = OpenIn(par) \cup {n}
    BY <1>1, Inhang
<1>5. r \in [Inner -> Seq(Nodes)] /\ Listed(new, r) /\ LastOf(r[p], n)
  <2> DEFINE rf == t.refs
             o == t.parent
             rr == Added(rf, n, p)
  <2>1. o \in Parents /\ rf \in [Inner -> Seq(Nodes)] /\ o[n] = Closed /\ (\A m \in Nodes : o[m] # n) /\ Listed(o, rf)
      BY <1>1, <1>2, <1>3
  <2> HIDE DEF rf, o
  <2>2. rr \in [Inner -> Seq(Nodes)] /\ Listed(Put(o, n, p), rr) /\ LastOf(rr[p], n)
      BY <1>2, <2>1, AddedFacts
  <2> QED BY <2>2 DEF rf, o
<1>6. x \in [Nodes -> 1 .. TopWeight + 1]
  <2> DEFINE W == 1 .. TopWeight + 1
  <2>1. w \in W /\ t.weight \in [Nodes -> W]
      BY <1>1
  <2> HIDE DEF W
  <2>2. x \in [Nodes -> W]
      BY <2>1 DEF Put
  <2> QED BY <2>2 DEF W
<1>7. u = Cleared(t, new, r, x, n)
    BY <1>1, <1>2 DEF OpenNode, Cleared, Marked, Placed, Put, Added, Tree
<1> HIDE DEF new, r, x, u
<1>8. /\ u \in Tree /\ u.parent = new /\ u.refs = r /\ u.weight = x /\ u.ok = t.ok
      /\ u.cnt = Put(t.cnt, n, 0) /\ u.linked = Put(t.linked, n, Closed)
      /\ ~u.self[n] /\ \A y \in Nodes \ {n} : u.self[y] = t.self[y]
  <2>1. t \in Tree /\ new \in Parents /\ r \in ListMaps /\ x \in WeightMaps /\ n \in Nodes
      BY <1>1, <1>2, <1>4, <1>5, <1>6 DEF ListMaps, WeightMaps
  <2> DEFINE o == Cleared(t, new, r, x, n)
  <2>2. /\ o \in Tree /\ o.parent = new /\ o.refs = r /\ o.weight = x /\ o.ok = t.ok
        /\ o.cnt = Put(t.cnt, n, 0) /\ o.linked = Put(t.linked, n, Closed)
        /\ ~o.self[n] /\ \A y \in Nodes \ {n} : o.self[y] = t.self[y]
      BY <2>1, ClearedFacts
  <2> HIDE DEF o
  <2> QED BY <1>7, <2>2 DEF o
<1>9. /\ new[n] = p /\ \A y \in Nodes \ {n} : new[y] = par[y]
    BY <1>1, <1>2 DEF new, Put, Parents
<1>10. /\ u.cnt[n] = 0 /\ ~u.self[n] /\ u.linked[n] = Closed /\ u.cnt \in [Nodes -> Nat]
       /\ \A y \in Nodes \ {n} : u.cnt[y] = t.cnt[y] /\ u.self[y] = t.self[y] /\ u.linked[y] = t.linked[y]
  <2>1. u.cnt[n] = 0 /\ u.cnt \in [Nodes -> Nat] /\ \A y \in Nodes \ {n} : u.cnt[y] = t.cnt[y]
    <3> DEFINE kid == t.cnt
    <3>1. kid \in [Nodes -> Nat] /\ u.cnt = Put(kid, n, 0)
        BY <1>1, <1>8
    <3> HIDE DEF kid
    <3>2. Put(kid, n, 0) \in [Nodes -> Nat] /\ Put(kid, n, 0)[n] = 0 /\ \A y \in Nodes \ {n} : Put(kid, n, 0)[y] = kid[y]
        BY <1>2, <3>1 DEF Put
    <3> QED BY <3>1, <3>2 DEF kid
  <2>3. u.linked[n] = Closed /\ \A y \in Nodes \ {n} : u.linked[y] = t.linked[y]
      BY <1>1, <1>2, <1>8 DEF Put
  <2> QED BY <1>8, <2>1, <2>3
<1>11. Balanced(new, u, Root, Root)
  <2> SUFFICES ASSUME NEW y \in Nodes
               PROVE  u.cnt[y] + Ind(y = Root) - Ind(y = Root) = Expect(new, u.cnt, u.self, y)
      BY DEF Balanced
  <2>1. u.cnt[y] = Expect(new, u.cnt, u.self, y)
    <3>1. CASE y = n
      <4>1. \A m \in Nodes : new[m] # n
          BY <1>2, <1>3, <1>9
      <4>2. Expect(new, u.cnt, u.self, n) = Ind(u.self[n])
          BY <4>1, ExpectLeaf
      <4>3. Ind(u.self[n]) = 0
          BY <1>10, IndFacts
      <4> QED BY <1>10, <3>1, <4>2, <4>3
    <3>2. CASE y # n
      <4> DEFINE kid == t.cnt
                 c2 == u.cnt
                 s == t.self
      <4>1. \A z \in Nodes \ {n} : new[z] = par[z] /\ c2[z] = kid[z]
          BY <1>9, <1>10
      <4>2. Expect(new, c2, s, y) = Expect(par, kid, s, y) + Adds(new, c2, n, y) - Adds(par, kid, n, y)
        <5> HIDE DEF kid, c2, s, par
        <5> QED BY <1>2, <4>1, ExpectChange
      <4>3. Adds(new, c2, n, y) = 0 /\ Adds(par, kid, n, y) = 0
          BY <1>2, <1>10, NodeFacts DEF Adds
      <4>4. Expect(new, c2, u.self, y) = Expect(new, c2, s, y)
          BY <1>10, <3>2 DEF Expect
      <4>5. Expect(par, kid, s, y) \in Nat /\ kid[y] = Expect(par, kid, s, y) /\ c2[y] = kid[y]
          BY <1>1, <1>10, <3>2, ExpectFacts
      <4> HIDE DEF kid, c2, s, par
      <4>6. c2[y] = Expect(new, c2, u.self, y)
          BY <4>2, <4>3, <4>4, <4>5
      <4> QED BY <4>6 DEF c2
    <3> QED BY <3>1, <3>2
  <2>2. u.cnt[y] \in Nat
      BY <1>10
  <2> QED BY <2>1, <2>2, IndFacts
<1>12. LinksOK(new, u)
    BY <1>1, <1>9, <1>10 DEF LinksOK
<1>13. Idle(new, u.self)
    BY <1>1, <1>4, <1>10 DEF Idle
<1>14. Sane(u)
    BY <1>1, <1>4, <1>5, <1>8, <1>10, <1>11, <1>12, <1>13 DEF Sane, Underway
<1> QED BY <1>2, <1>4, <1>5, <1>8, <1>9, <1>14 DEF Adding, u

LEMMA ExpectSelf ==
  ASSUME NEW par, NEW cnt, NEW self, NEW self2, NEW x
  PROVE  Expect(par, cnt, self2, x) = Expect(par, cnt, self, x) + Ind(self2[x]) - Ind(self[x])
<1> DEFINE k == Cardinality({kid \in Nodes : par[kid] = x /\ cnt[kid] > 0})
<1>1. k \in Nat
  <2>1. IsFiniteSet({kid \in Nodes : par[kid] = x /\ cnt[kid] > 0})
      BY NodeFacts, FS_Subset
  <2> QED BY <2>1, FS_CardinalityType
<1>2. Expect(par, cnt, self, x) = Ind(self[x]) + k /\ Expect(par, cnt, self2, x) = Ind(self2[x]) + k
    BY DEF Expect
<1> HIDE DEF k
<1> QED BY <1>1, <1>2, IndFacts

SelfOn(t, n) == [t EXCEPT !.self[n] = TRUE]

LEMMA SelfOnFacts ==
  ASSUME NEW t \in Tree, NEW n \in Nodes
  PROVE  LET u == SelfOn(t, n)
         IN /\ u \in Tree /\ u.parent = t.parent /\ u.refs = t.refs /\ u.weight = t.weight /\ u.ok = t.ok
            /\ u.cnt = t.cnt /\ u.linked = t.linked
            /\ u.self[n] /\ \A y \in Nodes \ {n} : u.self[y] = t.self[y]
<1> DEFINE u == SelfOn(t, n)
<1>1. /\ u.parent = t.parent /\ u.refs = t.refs /\ u.weight = t.weight /\ u.ok = t.ok
      /\ u.cnt = t.cnt /\ u.linked = t.linked /\ u.self = [t.self EXCEPT ![n] = TRUE]
    BY DEF Tree, SelfOn
<1>2. t.self \in [Nodes -> BOOLEAN] /\ [t.self EXCEPT ![n] = TRUE] \in [Nodes -> BOOLEAN]
    BY DEF Tree
<1>3. u \in Tree
    BY <1>2 DEF Tree, SelfOn
<1>4. u.self[n] /\ \A y \in Nodes \ {n} : u.self[y] = t.self[y]
    BY <1>1, <1>2
<1> HIDE DEF u
<1> QED BY <1>1, <1>3, <1>4 DEF u

SelfOff(t, n) == [t EXCEPT !.self[n] = FALSE]

LEMMA SelfOffFacts ==
  ASSUME NEW t \in Tree, NEW n \in Nodes
  PROVE  LET u == SelfOff(t, n)
         IN /\ u \in Tree /\ u.parent = t.parent /\ u.refs = t.refs /\ u.weight = t.weight /\ u.ok = t.ok
            /\ u.cnt = t.cnt /\ u.linked = t.linked
            /\ ~u.self[n] /\ \A y \in Nodes \ {n} : u.self[y] = t.self[y]
<1> DEFINE u == SelfOff(t, n)
<1>1. /\ u.parent = t.parent /\ u.refs = t.refs /\ u.weight = t.weight /\ u.ok = t.ok
      /\ u.cnt = t.cnt /\ u.linked = t.linked /\ u.self = [t.self EXCEPT ![n] = FALSE]
    BY DEF Tree, SelfOff
<1>2. t.self \in [Nodes -> BOOLEAN] /\ [t.self EXCEPT ![n] = FALSE] \in [Nodes -> BOOLEAN]
    BY DEF Tree
<1>3. u \in Tree
    BY <1>2 DEF Tree, SelfOff
<1>4. ~u.self[n] /\ \A y \in Nodes \ {n} : u.self[y] = t.self[y]
    BY <1>1, <1>2
<1> HIDE DEF u
<1> QED BY <1>1, <1>3, <1>4 DEF u

(* The path up from an open node *)
LEMMA PathUp ==
  ASSUME NEW par \in Parents, Hangs(par), NEW n \in OpenIn(par)
  PROVE  LET A == {n} \cup Ancestors(par, n) IN ClosedUp(par, A) /\ n \in A
BY AndAncestors

LEMMA ActivateFacts ==
  ASSUME NEW t, Sane(t), NEW n \in OpenIn(t.parent)
  PROVE  Sane(ActivateNode(t, n))
<1> DEFINE par == t.parent
           v == SelfOn(t, n)
           u == incr_active_cnt(v, n)
           A == {n} \cup Ancestors(par, n)
<1>1. /\ t \in Tree /\ t.cnt \in [Nodes -> Nat] /\ par \in Parents /\ Hangs(par) /\ t.ok
      /\ t.self \in [Nodes -> BOOLEAN] /\ LinksOK(par, t) /\ Listed(par, t.refs) /\ Idle(par, t.self)
      /\ \A x \in Nodes : t.cnt[x] = Expect(par, t.cnt, t.self, x)
    BY SaneFacts
<1>2. n \in Nodes /\ Root \notin Nodes
    BY NodeFacts DEF OpenIn
<1>3. CASE t.self[n]
    BY <1>3, Zenon DEF ActivateNode
<1>4. CASE ~t.self[n]
  <2>1. /\ v \in Tree /\ v.parent = par /\ v.refs = t.refs /\ v.weight = t.weight /\ v.ok = t.ok
        /\ v.cnt = t.cnt /\ v.linked = t.linked
        /\ v.self[n] /\ \A y \in Nodes \ {n} : v.self[y] = t.self[y]
      BY <1>1, <1>2, SelfOnFacts
  <2>2. ActivateNode(t, n) = u
      BY <1>4, Zenon DEF ActivateNode, SelfOn
  <2> HIDE DEF v
  <2>3. Balanced(par, v, n, Root)
    <3> SUFFICES ASSUME NEW x \in Nodes
                 PROVE  v.cnt[x] + Ind(x = n) - Ind(x = Root) = Expect(par, v.cnt, v.self, x)
        BY DEF Balanced
    <3> DEFINE kid == t.cnt
               s == t.self
               s2 == v.self
    <3>1. Expect(par, kid, s2, x) = Expect(par, kid, s, x) + Ind(s2[x]) - Ind(s[x])
      <4> HIDE DEF par, kid, s, s2
      <4> QED BY ExpectSelf
    <3>2. Ind(s2[x]) = Ind(s[x]) + Ind(x = n)
      <4>1. CASE x = n
        <5>1. Ind(s2[x]) = 1 /\ Ind(s[x]) = 0
            BY <1>4, <2>1, <4>1, Zenon DEF Ind
        <5>2. Ind(x = n) = 1
            BY <4>1, IndFacts
        <5> HIDE DEF s, s2
        <5> QED BY <5>1, <5>2
      <4>2. CASE x # n
        <5>1. s2[x] = s[x]
            BY <2>1, <4>2
        <5> HIDE DEF s, s2
        <5>2. Ind(s2[x]) = Ind(s[x])
            BY <5>1
        <5>3. Ind(s[x]) \in {0, 1}
            BY Zenon DEF Ind
        <5>4. Ind(x = n) = 0
            BY <4>2, IndFacts
        <5> QED BY <5>2, <5>3, <5>4
      <4> QED BY <4>1, <4>2
    <3>3. kid[x] = Expect(par, kid, s, x) /\ kid[x] \in Nat /\ v.cnt = kid
        BY <1>1, <2>1
    <3>4. Ind(x = Root) = 0
        BY <1>2, IndFacts
    <3> HIDE DEF par, kid, s
    <3>5. Expect(par, kid, s2, x) = kid[x] + Ind(x = n)
      <4> HIDE DEF s2
      <4> QED BY <3>1, <3>2, <3>3, IndFacts
    <3> QED BY <3>3, <3>4, <3>5, IndFacts
  <2>4. Underway(par, v, n, Root)
      BY <1>1, <2>1, <2>3 DEF Underway, LinksOK
  <2>5. ClosedUp(par, A) /\ n \in A
      BY <1>1, PathUp
  <2>6. SameNodes(v, u) /\ Underway(par, u, Root, Root)
    <3>1. \A x \in A \ {Root} : v.parent[x] = par[x]
        BY <2>1
    <3> HIDE DEF par, A
    <3> QED BY <1>1, <2>4, <2>5, <3>1, IncrFacts
  <2> HIDE DEF u
  <2>7. u.parent = par /\ u.refs = t.refs /\ u.ok = t.ok /\ u.self = v.self
      BY <2>1, <2>6 DEF SameNodes
  <2>8. Idle(par, u.self)
      BY <1>1, <2>1, <2>7 DEF Idle
  <2> QED BY <1>1, <2>2, <2>6, <2>7, <2>8 DEF Sane
<1> QED BY <1>3, <1>4

LEMMA DeactivateFacts ==
  ASSUME NEW t, Sane(t), NEW n \in OpenIn(t.parent)
  PROVE  Sane(DeactivateNode(t, n))
<1> DEFINE par == t.parent
           v == SelfOff(t, n)
           u == decr_active_cnt(v, n)
           A == {n} \cup Ancestors(par, n)
<1>1. /\ t \in Tree /\ t.cnt \in [Nodes -> Nat] /\ par \in Parents /\ Hangs(par) /\ t.ok
      /\ t.self \in [Nodes -> BOOLEAN] /\ LinksOK(par, t) /\ Listed(par, t.refs) /\ Idle(par, t.self)
      /\ \A x \in Nodes : t.cnt[x] = Expect(par, t.cnt, t.self, x)
    BY SaneFacts
<1>2. n \in Nodes /\ Root \notin Nodes
    BY NodeFacts DEF OpenIn
<1>3. CASE ~t.self[n]
    BY <1>3, Zenon DEF DeactivateNode
<1>4. CASE t.self[n]
  <2>1. /\ v \in Tree /\ v.parent = par /\ v.refs = t.refs /\ v.weight = t.weight /\ v.ok = t.ok
        /\ v.cnt = t.cnt /\ v.linked = t.linked
        /\ ~v.self[n] /\ \A y \in Nodes \ {n} : v.self[y] = t.self[y]
    <3>1. t \in Tree /\ n \in Nodes
        BY <1>1, <1>2
    <3>2. /\ v \in Tree /\ v.parent = t.parent /\ v.refs = t.refs /\ v.weight = t.weight /\ v.ok = t.ok
          /\ v.cnt = t.cnt /\ v.linked = t.linked
          /\ ~v.self[n] /\ \A y \in Nodes \ {n} : v.self[y] = t.self[y]
        BY <3>1, SelfOffFacts
    <3> QED BY <3>2
  <2>2. DeactivateNode(t, n) = u
      BY <1>4, Zenon DEF DeactivateNode, SelfOff
  <2> HIDE DEF v
  <2>3. Balanced(par, v, Root, n)
    <3> SUFFICES ASSUME NEW x \in Nodes
                 PROVE  v.cnt[x] + Ind(x = Root) - Ind(x = n) = Expect(par, v.cnt, v.self, x)
        BY DEF Balanced
    <3> DEFINE kid == t.cnt
               s == t.self
               s2 == v.self
    <3>1. Expect(par, kid, s2, x) = Expect(par, kid, s, x) + Ind(s2[x]) - Ind(s[x])
      <4> HIDE DEF par, kid, s, s2
      <4> QED BY ExpectSelf
    <3>2. Ind(s[x]) = Ind(s2[x]) + Ind(x = n)
      <4>1. CASE x = n
        <5>1. Ind(s2[x]) = 0 /\ Ind(s[x]) = 1
            BY <1>4, <2>1, <4>1, Zenon DEF Ind
        <5>2. Ind(x = n) = 1
            BY <4>1, IndFacts
        <5> HIDE DEF s, s2
        <5> QED BY <5>1, <5>2
      <4>2. CASE x # n
        <5>1. s2[x] = s[x]
            BY <2>1, <4>2
        <5> HIDE DEF s, s2
        <5>2. Ind(s2[x]) = Ind(s[x])
            BY <5>1
        <5>3. Ind(s[x]) \in {0, 1}
            BY Zenon DEF Ind
        <5>4. Ind(x = n) = 0
            BY <4>2, IndFacts
        <5> QED BY <5>2, <5>3, <5>4
      <4> QED BY <4>1, <4>2
    <3>3. kid[x] = Expect(par, kid, s, x) /\ kid[x] \in Nat /\ v.cnt = kid
        BY <1>1, <2>1
    <3>4. Ind(x = Root) = 0
        BY <1>2, IndFacts
    <3> HIDE DEF par, kid, s
    <3>5. Expect(par, kid, s2, x) = kid[x] - Ind(x = n)
      <4> HIDE DEF s2
      <4> QED BY <3>1, <3>2, <3>3, IndFacts
    <3> QED BY <3>3, <3>4, <3>5, IndFacts
  <2>4. Underway(par, v, Root, n)
      BY <1>1, <2>1, <2>3 DEF Underway, LinksOK
  <2>5. ClosedUp(par, A) /\ n \in A
      BY <1>1, PathUp
  <2>6. SameNodes(v, u) /\ Underway(par, u, Root, Root)
    <3>1. \A x \in A \ {Root} : v.parent[x] = par[x]
        BY <2>1
    <3>2. Root # Root => n \in Nodes \ A /\ par[n] = Root /\ v.cnt[n] > 0
        OBVIOUS
    <3> HIDE DEF par, A
    <3> QED BY <1>1, <2>4, <2>5, <3>1, <3>2, DecrFacts
  <2> HIDE DEF u
  <2>7. u.parent = par /\ u.refs = t.refs /\ u.ok = t.ok /\ u.self = v.self
      BY <2>1, <2>6 DEF SameNodes
  <2>8. Idle(par, u.self)
      BY <1>1, <1>2, <2>1, <2>7 DEF Idle
  <2> QED BY <1>1, <2>2, <2>6, <2>7, <2>8 DEF Sane
<1> QED BY <1>3, <1>4

(* proceed, for the node that queue_pop led to *)
LEMMA CallbackFacts ==
  ASSUME NEW t, Sane(t), NEW n \in Nodes, t.self[n], NEW b \in BOOLEAN
  PROVE  Sane(AfterCallback(Checked(Unlink(t, n), t.cnt[n] # 0), n, b))
<1> DEFINE par == t.parent
           p == par[n]
           a == Unlink(t, n)
           u == IF b THEN a ELSE [a EXCEPT !.self[n] = FALSE, !.cnt[n] = @ - 1]
           z == AfterCallback(a, n, b)
<1>1. /\ t \in Tree /\ t.cnt \in [Nodes -> Nat] /\ par \in Parents /\ Hangs(par) /\ t.ok
      /\ t.self \in [Nodes -> BOOLEAN] /\ t.linked \in [Nodes -> Inner \cup {Closed}]
      /\ LinksOK(par, t) /\ Listed(par, t.refs) /\ Idle(par, t.self)
      /\ \A x \in Nodes : t.cnt[x] = Expect(par, t.cnt, t.self, x)
    BY SaneFacts
<1>2. n \in OpenIn(par)
    BY <1>1 DEF Idle
<1>3. p \in OpenIn(par) \cup {Root} /\ p # n /\ p \in Inner /\ p # Closed /\ Root \notin Nodes
    BY <1>1, <1>2, ParentOpen, NodeFacts DEF OpenIn
<1>4. t.cnt[n] > 0
  <2> DEFINE k == Cardinality({kid \in Nodes : par[kid] = n /\ t.cnt[kid] > 0})
  <2>1. k \in Nat
    <3>1. IsFiniteSet({kid \in Nodes : par[kid] = n /\ t.cnt[kid] > 0})
        BY NodeFacts, FS_Subset
    <3> QED BY <3>1, FS_CardinalityType
  <2>2. t.cnt[n] = Ind(t.self[n]) + k
      BY <1>1 DEF Expect
  <2>3. Ind(t.self[n]) = 1
      BY Zenon DEF Ind
  <2> DEFINE i == Ind(t.self[n])
  <2>4. t.cnt[n] = i + k /\ i = 1
      BY <2>2, <2>3
  <2> HIDE DEF k, i
  <2> QED BY <2>1, <2>4
<1>5. t.linked[n] = p
    BY <1>1, <1>4 DEF LinksOK
<1>6. /\ a \in Tree /\ SameNodes(t, a) /\ a.cnt = t.cnt
      /\ a.linked = [t.linked EXCEPT ![n] = Closed] /\ a.linked[n] = Closed
  <2>1. t \in Tree /\ n \in Nodes /\ t.linked[n] # Closed
      BY <1>1, <1>3, <1>5
  <2> QED BY <2>1, QueueUnset
<1>7. Checked(a, t.cnt[n] # 0) = a
    BY <1>1, <1>4, CheckedTrue
<1>called. AfterCallback(Checked(Unlink(t, n), t.cnt[n] # 0), n, b) = z
    BY <1>7, Zenon
<1> HIDE DEF a
<1>8. a.parent = par /\ a.self = t.self /\ a.refs = t.refs /\ a.ok = t.ok
    BY <1>6 DEF SameNodes
<1>9. z = IF u.cnt[n] # 0 THEN Link(u, p, n) ELSE decr_active_cnt(u, p)
    BY <1>8 DEF AfterCallback
<1> HIDE DEF z
<1>10. ASSUME NEW v, v \in Tree, v.parent = par, v.refs = t.refs, v.ok = t.ok, v.cnt \in [Nodes -> Nat],
             v.cnt[n] > 0, v.linked = a.linked, \A y \in Nodes \ {n} : v.cnt[y] = t.cnt[y],
             \A y \in Nodes : v.self[y] => t.self[y],
             \A y \in Nodes : v.cnt[y] = Expect(par, v.cnt, v.self, y)
       PROVE  Sane(Link(v, p, n))
  <2> DEFINE q == Link(v, p, n)
  <2>1. /\ q \in Tree /\ SameNodes(v, q) /\ q.cnt = v.cnt /\ q.linked = [v.linked EXCEPT ![n] = p]
    <3>1. v \in Tree /\ n \in Nodes /\ p \in Inner /\ v.linked[n] = Closed
        BY <1>3, <1>6, <1>10
    <3> HIDE DEF p
    <3> QED BY <3>1, QueueSet
  <2> HIDE DEF q
  <2>2. q.parent = par /\ q.refs = t.refs /\ q.ok = t.ok /\ q.self = v.self
      BY <1>10, <2>1 DEF SameNodes
  <2>3. \A y \in Nodes : q.linked[y] = IF y = n THEN p ELSE t.linked[y]
    <3> HIDE DEF p
    <3> QED BY <1>1, <1>6, <1>10, <2>1
  <2>4. LinksOK(par, q)
      BY <1>1, <1>10, <2>1, <2>3 DEF LinksOK
  <2>5. Balanced(par, q, Root, Root)
    <3> SUFFICES ASSUME NEW y \in Nodes
                 PROVE  q.cnt[y] + Ind(y = Root) - Ind(y = Root) = Expect(par, q.cnt, q.self, y)
        BY DEF Balanced
    <3>1. q.cnt[y] = Expect(par, q.cnt, q.self, y) /\ q.cnt[y] \in Nat
        BY <1>10, <2>1, <2>2
    <3> QED BY <3>1, IndFacts
  <2>6. Idle(par, q.self)
      BY <1>1, <1>10, <2>2 DEF Idle
  <2> QED BY <1>1, <1>10, <2>1, <2>2, <2>4, <2>5, <2>6 DEF Sane, Underway, q
<1>11. CASE b
  <2>1. u = a
      BY <1>11
  <2>2. z = Link(a, p, n)
    <3>1. a.cnt[n] # 0
        BY <1>1, <1>4, <1>6
    <3> HIDE DEF p
    <3> QED BY <1>9, <2>1, <3>1
  <2>3. Sane(Link(a, p, n))
    <3>1. a.cnt \in [Nodes -> Nat] /\ a.cnt[n] > 0 /\ (\A y \in Nodes \ {n} : a.cnt[y] = t.cnt[y])
        BY <1>1, <1>4, <1>6
    <3>2. (\A y \in Nodes : a.self[y] => t.self[y]) /\ \A y \in Nodes : a.cnt[y] = Expect(par, a.cnt, a.self, y)
        BY <1>1, <1>6, <1>8
    <3> HIDE DEF par, p
    <3> QED BY <1>6, <1>8, <1>10, <3>1, <3>2
  <2>4. Sane(z)
      BY <2>2, <2>3
  <2> QED BY <1>called, <2>4, Zenon
<1>12. CASE ~b
  <2> DEFINE m == Marked(a, n, FALSE, t.cnt[n] - 1)
  <2>1. u = m
      BY <1>6, <1>12 DEF Marked
  <2>2. /\ m \in Tree /\ m.parent = par /\ m.refs = t.refs /\ m.ok = t.ok /\ m.linked = a.linked
        /\ m.cnt = Put(t.cnt, n, t.cnt[n] - 1)
        /\ ~m.self[n] /\ \A y \in Nodes \ {n} : m.self[y] = t.self[y]
    <3>1. a \in Tree /\ n \in Nodes /\ t.cnt[n] - 1 \in Int
        BY <1>1, <1>6
    <3>2. /\ m.parent = a.parent /\ m.refs = a.refs /\ m.self = [a.self EXCEPT ![n] = FALSE]
          /\ m.cnt = [a.cnt EXCEPT ![n] = t.cnt[n] - 1] /\ m.linked = a.linked /\ m.ok = a.ok
        BY <3>1 DEF Tree, Marked
    <3>3. m \in Tree
      <4>1. [a.self EXCEPT ![n] = FALSE] \in [Nodes -> BOOLEAN] /\ [a.cnt EXCEPT ![n] = t.cnt[n] - 1] \in [Nodes -> Int]
          BY <3>1 DEF Tree
      <4> QED BY <3>1, <4>1 DEF Tree, Marked
    <3> HIDE DEF m
    <3>4. ~m.self[n] /\ \A y \in Nodes \ {n} : m.self[y] = t.self[y]
        BY <1>1, <1>8, <3>2
    <3> QED BY <1>6, <1>8, <3>2, <3>3, <3>4 DEF Put
  <2> HIDE DEF m
  <2>3. m.cnt[n] = t.cnt[n] - 1 /\ m.cnt \in [Nodes -> Nat] /\ \A y \in Nodes \ {n} : m.cnt[y] = t.cnt[y]
    <3> DEFINE kid == t.cnt
    <3>1. kid \in [Nodes -> Nat] /\ kid[n] > 0 /\ m.cnt = Put(kid, n, kid[n] - 1)
        BY <1>1, <1>4, <2>2
    <3> HIDE DEF kid
    <3>2. kid[n] - 1 \in Nat
        BY <3>1
    <3>3. Put(kid, n, kid[n] - 1) \in [Nodes -> Nat] /\ Put(kid, n, kid[n] - 1)[n] = kid[n] - 1
          /\ \A y \in Nodes \ {n} : Put(kid, n, kid[n] - 1)[y] = kid[y]
        BY <3>1, <3>2 DEF Put
    <3> QED BY <3>1, <3>3 DEF kid
  <2>4. ASSUME NEW x \in Nodes
        PROVE  Expect(par, m.cnt, m.self, x) = m.cnt[x] - (IF x = p /\ m.cnt[n] = 0 THEN 1 ELSE 0)
    <3> DEFINE kid == t.cnt
               c2 == m.cnt
               s == t.self
               s2 == m.self
    <3>1. Expect(par, c2, s, x) = Expect(par, kid, s, x) + Adds(par, c2, n, x) - Adds(par, kid, n, x)
      <4>1. \A y \in Nodes \ {n} : par[y] = par[y] /\ c2[y] = kid[y]
          BY <2>3
      <4> HIDE DEF par, kid, c2, s
      <4> QED BY <4>1, ExpectChange
    <3>2. Expect(par, c2, s2, x) = Expect(par, c2, s, x) + Ind(s2[x]) - Ind(s[x])
      <4> HIDE DEF par, kid, c2, s, s2
      <4> QED BY ExpectSelf
    <3>3. kid[x] = Expect(par, kid, s, x) /\ kid[x] \in Nat /\ kid[n] \in Nat /\ c2[n] = kid[n] - 1 /\ kid[n] > 0
        BY <1>1, <1>4, <2>3
    <3>4. CASE x = n
      <4>1. Adds(par, c2, n, x) = 0 /\ Adds(par, kid, n, x) = 0
          BY <1>3, <3>4 DEF Adds
      <4>2. Ind(s2[x]) = 0 /\ Ind(s[x]) = 1
          BY <2>2, <3>4, Zenon DEF Ind
      <4>3. x # p
          BY <1>3, <3>4
      <4> HIDE DEF par, kid, c2, s, s2, p
      <4>4. Expect(par, c2, s2, x) = c2[x]
          BY <3>1, <3>2, <3>3, <3>4, <4>1, <4>2
      <4>5. c2[x] \in Int
          BY <3>3, <3>4
      <4> QED BY <4>3, <4>4, <4>5 DEF c2, s2
    <3>5. CASE x # n
      <4>1. Adds(par, kid, n, x) = IF x = p THEN 1 ELSE 0
          BY <3>3 DEF Adds
      <4>2. Adds(par, c2, n, x) = IF x = p /\ c2[n] # 0 THEN 1 ELSE 0
          BY <3>3 DEF Adds
      <4>3. Ind(s2[x]) = Ind(s[x]) /\ c2[x] = kid[x]
        <5>1. s2[x] = s[x] /\ c2[x] = kid[x]
            BY <2>2, <2>3, <3>5
        <5> HIDE DEF s, s2
        <5> QED BY <5>1
      <4>4. Ind(s[x]) \in {0, 1}
          BY Zenon DEF Ind
      <4> HIDE DEF par, kid, c2, s, s2, p
      <4>5. Expect(par, c2, s2, x) = c2[x] - (IF x = p /\ c2[n] = 0 THEN 1 ELSE 0)
          BY <3>1, <3>2, <3>3, <4>1, <4>2, <4>3, <4>4
      <4> QED BY <4>5 DEF c2, s2
    <3> QED BY <3>4, <3>5
  <2>5. CASE m.cnt[n] # 0
    <3>1. z = Link(m, p, n)
      <4> HIDE DEF p
      <4> QED BY <1>9, <2>1, <2>5
    <3>2. m.cnt[n] > 0
      <4>1. m.cnt[n] \in Nat
          BY <2>3
      <4> QED BY <2>5, <4>1
    <3>3. \A y \in Nodes : m.cnt[y] = Expect(par, m.cnt, m.self, y)
      <4> SUFFICES ASSUME NEW y \in Nodes PROVE m.cnt[y] = Expect(par, m.cnt, m.self, y)
          OBVIOUS
      <4>1. m.cnt[y] \in Nat
          BY <2>3
      <4> HIDE DEF par, p
      <4> QED BY <2>4, <2>5, <4>1
    <3>4. \A y \in Nodes : m.self[y] => t.self[y]
        BY <2>2
    <3>5. Sane(Link(m, p, n))
      <4> HIDE DEF par, p
      <4> QED BY <1>10, <2>2, <2>3, <3>2, <3>3, <3>4
    <3>6. Sane(z)
        BY <3>1, <3>5
    <3> QED BY <1>called, <3>6, Zenon
  <2>6. CASE m.cnt[n] = 0
    <3> DEFINE d == decr_active_cnt(m, p)
               A == {p} \cup Ancestors(par, p)
    <3>1. z = d
      <4> HIDE DEF p
      <4> QED BY <1>9, <2>1, <2>6
    <3>2. Balanced(par, m, Root, p)
      <4> SUFFICES ASSUME NEW x \in Nodes
                   PROVE  m.cnt[x] + Ind(x = Root) - Ind(x = p) = Expect(par, m.cnt, m.self, x)
          BY DEF Balanced
      <4>1. m.cnt[x] \in Nat /\ Ind(x = Root) = 0
          BY <1>3, <2>3, IndFacts
      <4>2. Ind(x = p) = IF x = p THEN 1 ELSE 0
          BY DEF Ind
      <4> HIDE DEF par, p
      <4> QED BY <2>4, <2>6, <4>1, <4>2
    <3>3. LinksOK(par, m)
      <4>1. \A y \in Nodes : m.linked[y] = IF y = n THEN Closed ELSE t.linked[y]
          BY <1>1, <1>6, <2>2
      <4> QED BY <1>1, <2>3, <2>6, <4>1 DEF LinksOK
    <3>4. Underway(par, m, Root, p)
        BY <2>2, <2>3, <3>2, <3>3 DEF Underway
    <3>5. ClosedUp(par, A) /\ p \in A
        BY <1>1, <1>3, AndAncestors
    <3>6. SameNodes(m, d) /\ Underway(par, d, Root, Root)
      <4>1. \A x \in A \ {Root} : m.parent[x] = par[x]
          BY <2>2
      <4>2. Root # Root => n \in Nodes \ A /\ par[n] = Root /\ m.cnt[n] > 0
          OBVIOUS
      <4> HIDE DEF par, A, p
      <4> QED BY <1>1, <3>4, <3>5, <4>1, <4>2, DecrFacts
    <3> HIDE DEF d
    <3>7. d.parent = par /\ d.refs = t.refs /\ d.ok = t.ok /\ d.self = m.self
        BY <2>2, <3>6 DEF SameNodes
    <3>8. Idle(par, d.self)
        BY <1>1, <2>2, <3>7 DEF Idle
    <3>9. Sane(z)
        BY <1>1, <3>1, <3>6, <3>7, <3>8 DEF Sane
    <3> QED BY <1>called, <3>9, Zenon
  <2> QED BY <2>5, <2>6
<1> QED BY <1>11, <1>12

(* Another node in the place of one: what hangs together still does. *)
LEMMA Rename ==
  ASSUME NEW par \in Parents, Hangs(par), NEW src \in OpenIn(par), NEW dst \in Nodes \ OpenIn(par)
  PROVE  LET new == NewParent(par, dst, src)
         IN /\ new \in Parents /\ Hangs(new) /\ OpenIn(new) = (OpenIn(par) \ {src}) \cup {dst}
            /\ \A m \in Nodes : par[m] # dst
            /\ par[src] \notin {dst, src, Closed} /\ par[src] \in Inner
<1> DEFINE new == NewParent(par, dst, src)
           p == par[src]
<1>1. /\ src \in Nodes /\ dst \in Nodes /\ src # dst /\ src # Root /\ dst # Root /\ src # Closed /\ dst # Closed
      /\ src \in Inner /\ dst \in Inner /\ par[dst] = Closed
    BY NodeFacts DEF OpenIn
<1>2. \A m \in Nodes : par[m] # dst
  <2>1. ASSUME NEW m \in Nodes, par[m] = dst PROVE FALSE
    <3>1. m \in OpenIn(par)
        BY <1>1, <2>1 DEF OpenIn
    <3> QED BY <1>1, <2>1, <3>1, ParentOpen
  <2> QED BY <2>1
<1>3. p \in OpenIn(par) \cup {Root} /\ p # src /\ p # dst /\ p # Closed /\ p \in Inner
    BY <1>1, <1>2, ParentOpen, NodeFacts DEF OpenIn
<1>4. /\ new \in Parents /\ new[dst] = p /\ new[src] = Closed
      /\ \A m \in Nodes \ {src, dst} : new[m] = IF par[m] = src THEN dst ELSE par[m]
    BY <1>1, <1>3 DEF NewParent, Renamed, Parents
<1> HIDE DEF new, p
<1>5. OpenIn(new) = (OpenIn(par) \ {src}) \cup {dst}
  <2>1. ASSUME NEW m \in Nodes PROVE m \in OpenIn(new) <=> m \in (OpenIn(par) \ {src}) \cup {dst}
      BY <1>1, <1>3, <1>4 DEF OpenIn
  <2> QED BY <1>1, <2>1 DEF OpenIn
<1>6. ASSUME NEW S \in SUBSET OpenIn(new), S # {}
      PROVE  \E m \in S : new[m] \in (OpenIn(new) \cup {Root}) \ S
  <2> DEFINE T == IF dst \in S THEN (S \ {dst}) \cup {src} ELSE S
  <2>1. T \in SUBSET OpenIn(par) /\ T # {}
      BY <1>5, <1>6
  <2>2. PICK m \in T : par[m] \in (OpenIn(par) \cup {Root}) \ T
      BY <2>1 DEF Hangs
  <2>3. CASE m = src
    <3>1. dst \in S /\ p \notin T
        BY <1>5, <2>2, <2>3 DEF p
    <3>2. p \in (OpenIn(new) \cup {Root}) \ S
        BY <1>3, <1>5, <3>1
    <3> QED BY <1>4, <3>1, <3>2
  <2>4. CASE m # src
    <3>1. m \in S /\ m # dst /\ m \in Nodes
        BY <2>1, <2>2, <2>4 DEF OpenIn
    <3>2. CASE par[m] = src
      <4>1. dst \notin S /\ new[m] = dst
          BY <1>4, <2>2, <2>4, <3>1, <3>2
      <4> QED BY <1>5, <3>1, <4>1
    <3>3. CASE par[m] # src
      <4>1. new[m] = par[m] /\ par[m] # dst
          BY <1>2, <1>4, <2>4, <3>1, <3>3
      <4> QED BY <1>5, <2>2, <3>1, <3>3, <4>1
    <3> QED BY <3>2, <3>3
  <2> QED BY <2>3, <2>4
<1> QED BY <1>2, <1>3, <1>4, <1>5, <1>6 DEF Hangs, new, p

LEMMA RenamedList ==
  ASSUME NEW s \in Seq(Nodes), Distinct(s), NEW src \in Nodes, NEW dst \in Nodes, dst \notin Elements(s), src \in Elements(s)
  PROVE  LET r == [k \in DOMAIN s |-> Renamed(s[k], dst, src)]
         IN r \in Seq(Nodes) /\ Distinct(r) /\ Elements(r) = (Elements(s) \ {src}) \cup {dst}
<1> DEFINE r == [k \in DOMAIN s |-> Renamed(s[k], dst, src)]
<1>1. DOMAIN s = 1 .. Len(s) /\ Len(s) \in Nat /\ \A k \in DOMAIN s : s[k] \in Nodes
    BY LenProperties, ElementOfSeq
<1>2. DOMAIN r = DOMAIN s /\ \A k \in DOMAIN s : r[k] = (IF s[k] = src THEN dst ELSE s[k]) /\ r[k] \in Nodes
    BY <1>1 DEF Renamed
<1>3. r \in Seq(Nodes)
  <2>1. r \in [1 .. Len(s) -> Nodes]
      BY <1>1 DEF Renamed
  <2> HIDE DEF r
  <2> QED BY <1>1, <2>1, SeqDef
<1> HIDE DEF r
<1>4. Distinct(r)
  <2> SUFFICES ASSUME NEW i \in DOMAIN s, NEW j \in DOMAIN s, r[i] = r[j] PROVE i = j
      BY <1>2 DEF Distinct
  <2>1. s[i] # dst /\ s[j] # dst
      BY DEF Elements
  <2>2. s[i] = s[j]
      BY <1>2, <2>1
  <2> QED BY <2>2 DEF Distinct
<1>5. Elements(r) = (Elements(s) \ {src}) \cup {dst}
    BY <1>2 DEF Elements
<1> QED BY <1>3, <1>4, <1>5 DEF r

LEMMA RenameLists ==
  ASSUME NEW par \in Parents, Hangs(par), NEW src \in OpenIn(par), NEW dst \in Nodes \ OpenIn(par),
         NEW refs \in [Inner -> Seq(Nodes)], Listed(par, refs)
  PROVE  LET r == NewRefs(par, refs, dst, src)
         IN r \in [Inner -> Seq(Nodes)] /\ Listed(NewParent(par, dst, src), r)
<1> DEFINE new == NewParent(par, dst, src)
           p == par[src]
           r == NewRefs(par, refs, dst, src)
           e == [k \in DOMAIN refs[p] |-> Renamed(refs[p][k], dst, src)]
<1>1. /\ src \in Nodes /\ dst \in Nodes /\ src # dst /\ src # Closed /\ dst # Closed
      /\ src \in Inner /\ dst \in Inner /\ par[dst] = Closed
    BY NodeFacts DEF OpenIn
<1>2. (\A m \in Nodes : par[m] # dst) /\ p # dst /\ p # src /\ p # Closed /\ p \in Inner
    BY Rename
<1>3. /\ new[dst] = p /\ new[src] = Closed
      /\ \A m \in Nodes \ {src, dst} : new[m] = IF par[m] = src THEN dst ELSE par[m]
    BY <1>1 DEF NewParent, Renamed
<1>4. e \in Seq(Nodes) /\ Distinct(e) /\ Elements(e) = ({m \in Nodes : par[m] = p} \ {src}) \cup {dst}
  <2> DEFINE s == refs[p]
  <2>1. s \in Seq(Nodes) /\ Distinct(s) /\ Elements(s) = {m \in Nodes : par[m] = p}
      BY <1>2 DEF Listed
  <2>2. dst \notin Elements(s) /\ src \in Elements(s)
      BY <1>1, <1>2, <2>1
  <2> DEFINE f == [k \in DOMAIN s |-> Renamed(s[k], dst, src)]
  <2>3. f \in Seq(Nodes) /\ Distinct(f) /\ Elements(f) = (Elements(s) \ {src}) \cup {dst}
    <3> HIDE DEF s
    <3> QED BY <1>1, <2>1, <2>2, RenamedList
  <2> QED BY <2>1, <2>3
<1>5. /\ r[dst] = refs[src] /\ r[src] = <<>> /\ r[p] = e
      /\ \A x \in Inner \ {src, dst, p} : r[x] = refs[x]
    BY <1>1, <1>2 DEF NewRefs
<1>6. <<>> \in Seq(Nodes) /\ Distinct(<<>>) /\ Elements(<<>>) = {}
    BY DEF Distinct, Elements
<1>7. r \in [Inner -> Seq(Nodes)]
  <2>1. r = [x \in Inner |-> r[x]]
      BY DEF NewRefs
  <2> HIDE DEF r, e, p
  <2>2. \A x \in Inner : r[x] \in Seq(Nodes)
      BY <1>1, <1>2, <1>4, <1>5, <1>6
  <2> QED BY <2>1, <2>2
<1> HIDE DEF r, new, e
<1>8. ASSUME NEW x \in Inner
      PROVE  Distinct(r[x]) /\ Elements(r[x]) = {m \in Nodes : new[m] = x}
  <2>0. \A y \in Inner : Distinct(refs[y]) /\ Elements(refs[y]) = {m \in Nodes : par[m] = y}
      BY DEF Listed
  <2>1. CASE x = dst
    <3>1. \A m \in Nodes : new[m] = dst <=> par[m] = src
        BY <1>1, <1>2, <1>3
    <3> QED BY <1>1, <1>5, <2>0, <2>1, <3>1
  <2>2. CASE x = src
    <3>1. \A m \in Nodes : new[m] # src
        BY <1>1, <1>2, <1>3
    <3> QED BY <1>5, <1>6, <2>2, <3>1
  <2>3. CASE x = p
    <3>1. \A m \in Nodes : new[m] = p <=> m \in ({y \in Nodes : par[y] = p} \ {src}) \cup {dst}
        BY <1>1, <1>2, <1>3
    <3> HIDE DEF p
    <3> QED BY <1>1, <1>4, <1>5, <2>3, <3>1
  <2>4. CASE x \notin {src, dst, p}
    <3>1. \A m \in Nodes : new[m] = x <=> par[m] = x
      <4>1. x # Closed
          BY NodeFacts
      <4> QED BY <1>1, <1>3, <2>4, <4>1
    <3>2. r[x] = refs[x]
        BY <1>5, <2>4
    <3> QED BY <2>0, <3>1, <3>2
  <2> QED BY <2>1, <2>2, <2>3, <2>4
<1> QED BY <1>7, <1>8 DEF Listed, r, new

(* The counts that go with NewParent *)
LEMMA RenameCounts ==
  ASSUME NEW par \in Parents, Hangs(par), NEW src \in OpenIn(par), NEW dst \in Nodes \ OpenIn(par),
         NEW cnt \in [Nodes -> Nat], NEW self, NEW cnt2 \in [Nodes -> Nat], NEW self2,
         \A x \in Nodes : cnt[x] = Expect(par, cnt, self, x),
         cnt2[dst] = cnt[src], cnt2[src] = 0, \A x \in Nodes \ {src, dst} : cnt2[x] = cnt[x],
         self2[dst] = self[src], ~self2[src], \A x \in Nodes \ {src, dst} : self2[x] = self[x],
         NEW x \in Nodes
  PROVE  cnt2[x] = Expect(NewParent(par, dst, src), cnt2, self2, x)
<1> DEFINE new == NewParent(par, dst, src)
           p == par[src]
           K(y) == {kid \in Nodes : par[kid] = y /\ cnt[kid] > 0}
           L == {kid \in Nodes : new[kid] = x /\ cnt2[kid] > 0}
<1>1. src \in Nodes /\ dst \in Nodes /\ src # dst /\ src # Closed /\ dst # Closed /\ par[dst] = Closed /\ x # Closed
    BY NodeFacts DEF OpenIn
<1>2. (\A m \in Nodes : par[m] # dst) /\ p # dst /\ p # src /\ p # Closed
    BY Rename
<1>3. /\ new[dst] = p /\ new[src] = Closed
      /\ \A m \in Nodes \ {src, dst} : new[m] = IF par[m] = src THEN dst ELSE par[m]
    BY <1>1 DEF NewParent, Renamed
<1> HIDE DEF new
<1>4. \A y : IsFiniteSet(K(y)) /\ Cardinality(K(y)) \in Nat
  <2> TAKE y
  <2>1. IsFiniteSet(K(y))
      BY NodeFacts, FS_Subset
  <2> QED BY <2>1, FS_CardinalityType
<1>5. Expect(new, cnt2, self2, x) = Ind(self2[x]) + Cardinality(L)
    BY DEF Expect
<1>6. \A y \in Nodes : cnt[y] = Ind(self[y]) + Cardinality(K(y))
    BY DEF Expect
<1>7. ASSUME NEW y \in Nodes, cnt2[x] = cnt[y], Ind(self2[x]) = Ind(self[y]), Cardinality(L) = Cardinality(K(y))
      PROVE  cnt2[x] = Expect(new, cnt2, self2, x)
    BY <1>5, <1>6, <1>7
<1>8. CASE x = src
  <2>1. \A m \in Nodes : new[m] = src => ~(cnt2[m] > 0)
      BY <1>1, <1>2, <1>3
  <2>2. Expect(new, cnt2, self2, src) = Ind(self2[src])
      BY <2>1, ExpectLeaf
  <2>3. Ind(self2[src]) = 0
      BY Zenon DEF Ind
  <2> QED BY <1>8, <2>2, <2>3 DEF new
<1>9. CASE x = dst
  <2>1. \A m \in Nodes : m \in L <=> m \in K(src)
      BY <1>1, <1>2, <1>3, <1>9
  <2>2. L = K(src)
      BY <2>1
  <2>3. Ind(self2[x]) = Ind(self[src])
      BY <1>9, Zenon
  <2> HIDE DEF L, K
  <2> QED BY <1>1, <1>7, <1>9, <2>2, <2>3 DEF new
<1>10. CASE x \notin {src, dst}
  <2>1. cnt2[x] = cnt[x] /\ self2[x] = self[x]
      BY <1>10
  <2>2. Ind(self2[x]) = Ind(self[x])
      BY <2>1
  <2>3. Cardinality(L) = Cardinality(K(x))
    <3>1. CASE x = p /\ cnt[src] > 0
      <4>1. \A m \in Nodes : m \in L <=> m \in (K(x) \ {src}) \cup {dst}
          BY <1>1, <1>2, <1>3, <1>10, <3>1
      <4>2. L = (K(x) \ {src}) \cup {dst}
          BY <1>1, <4>1
      <4>3. src \in K(x) /\ dst \notin K(x)
          BY <1>1, <1>2, <3>1
      <4> HIDE DEF L, K
      <4>4. Cardinality(K(x) \ {src}) = Cardinality(K(x)) - 1 /\ IsFiniteSet(K(x) \ {src})
          BY <1>4, <4>3, FS_RemoveElement
      <4>5. Cardinality((K(x) \ {src}) \cup {dst}) = Cardinality(K(x) \ {src}) + 1
          BY <4>3, <4>4, FS_AddElement
      <4> QED BY <1>4, <4>2, <4>4, <4>5
    <3>2. CASE ~(x = p /\ cnt[src] > 0)
      <4>1. cnt[src] \in Nat /\ cnt2[dst] = cnt[src]
          BY <1>1
      <4>2. \A m \in Nodes : m \in L <=> m \in K(x)
          BY <1>1, <1>2, <1>3, <1>10, <3>2, <4>1
      <4>3. L = K(x)
          BY <4>2
      <4> HIDE DEF L, K
      <4> QED BY <4>3
    <3> QED BY <3>1, <3>2
  <2> HIDE DEF L, K
  <2> QED BY <1>7, <2>1, <2>2, <2>3 DEF new
<1> QED BY <1>8, <1>9, <1>10

(* vhttp_http2_scheduler_relocate *)
LEMMA RelocateFacts ==
  ASSUME NEW t, Sane(t), NEW src \in OpenIn(t.parent), NEW dst \in Nodes \ OpenIn(t.parent)
  PROVE  LET u == Relocate(t, dst, src) IN Sane(u) /\ dst \in OpenIn(u.parent)
<1> DEFINE par == t.parent
           p == par[src]
           new == NewParent(par, dst, src)
           r == NewRefs(par, t.refs, dst, src)
           u == Relocate(t, dst, src)
<1>1. /\ t \in Tree /\ t.cnt \in [Nodes -> Nat] /\ par \in Parents /\ Hangs(par) /\ t.ok
      /\ t.refs \in [Inner -> Seq(Nodes)] /\ t.linked \in [Nodes -> Inner \cup {Closed}]
      /\ t.self \in [Nodes -> BOOLEAN] /\ t.weight \in [Nodes -> 1 .. TopWeight + 1]
      /\ LinksOK(par, t) /\ Listed(par, t.refs) /\ Idle(par, t.self)
      /\ \A x \in Nodes : t.cnt[x] = Expect(par, t.cnt, t.self, x)
    BY SaneFacts
<1>2. src \in Nodes /\ dst \in Nodes /\ src # dst /\ src # Closed /\ dst # Closed /\ src \in Inner /\ dst \in Inner
    BY NodeFacts DEF OpenIn
<1>3. /\ new \in Parents /\ Hangs(new) /\ OpenIn(new) = (OpenIn(par) \ {src}) \cup {dst}
      /\ (\A m \in Nodes : par[m] # dst) /\ p # dst /\ p # src /\ p # Closed /\ p \in Inner
  <2> HIDE DEF par
  <2>1. src \in OpenIn(par) /\ dst \in Nodes \ OpenIn(par)
      BY DEF par
  <2> QED BY <1>1, <2>1, Rename
<1>4. r \in [Inner -> Seq(Nodes)] /\ Listed(new, r)
  <2> DEFINE o == t.parent
             rf == t.refs
  <2>1. o \in Parents /\ Hangs(o) /\ src \in OpenIn(o) /\ dst \in Nodes \ OpenIn(o) /\ rf \in [Inner -> Seq(Nodes)] /\ Listed(o, rf)
      BY <1>1
  <2> HIDE DEF o, rf
  <2>2. LET y == NewRefs(o, rf, dst, src) IN y \in [Inner -> Seq(Nodes)] /\ Listed(NewParent(o, dst, src), y)
      BY <2>1, RenameLists
  <2> QED BY <2>2 DEF o, rf
<1> DEFINE linked == [[n \in Nodes |-> Renamed(t.linked[n], dst, src)] EXCEPT ![dst] = t.linked[src], ![src] = Closed]
           cnt == [t.cnt EXCEPT ![dst] = t.cnt[src], ![src] = 0]
           self == [t.self EXCEPT ![dst] = t.self[src], ![src] = FALSE]
           weight == [t.weight EXCEPT ![src] = 1, ![dst] = t.weight[src]]
<1>5. /\ linked \in [Nodes -> Inner \cup {Closed}] /\ cnt \in [Nodes -> Nat] /\ self \in [Nodes -> BOOLEAN]
      /\ weight \in [Nodes -> 1 .. TopWeight + 1]
  <2>1. linked \in [Nodes -> Inner \cup {Closed}]
      BY <1>1, <1>2 DEF Renamed
  <2>2. cnt \in [Nodes -> Nat]
    <3> DEFINE kid == t.cnt
    <3>1. kid \in [Nodes -> Nat]
        BY <1>1
    <3> HIDE DEF kid
    <3>2. [kid EXCEPT ![dst] = kid[src], ![src] = 0] \in [Nodes -> Nat]
        BY <1>2, <3>1
    <3> QED BY <3>2 DEF kid
  <2>3. self \in [Nodes -> BOOLEAN]
      BY <1>1, <1>2
  <2>4. weight \in [Nodes -> 1 .. TopWeight + 1]
    <3> DEFINE W == 1 .. TopWeight + 1
               kid == t.weight
    <3>1. 1 \in W /\ kid \in [Nodes -> W]
        BY <1>1 DEF TopWeight
    <3> HIDE DEF W, kid
    <3>2. [kid EXCEPT ![src] = 1, ![dst] = kid[src]] \in [Nodes -> W]
        BY <1>2, <3>1
    <3> QED BY <3>2 DEF W, kid
  <2> QED BY <2>1, <2>2, <2>3, <2>4
<1>6. /\ u \in Tree /\ u.parent = new /\ u.refs = r /\ u.cnt = cnt /\ u.self = self /\ u.linked = linked /\ u.ok = t.ok
  <2>1. u = [t EXCEPT !.parent = new, !.refs = r, !.weight = weight, !.cnt = cnt, !.self = self, !.linked = linked]
    <3>1. \A kid \in Elements(t.refs[src]) : t.parent[kid] = src
        BY <1>1, <1>2 DEF Listed
    <3>2. Checked(t, \A kid \in Elements(t.refs[src]) : t.parent[kid] = src) = t
        BY <3>1, CheckedTrue
    <3> QED BY <3>2, Zenon DEF Relocate
  <2>2. cnt \in [Nodes -> Int]
      BY <1>5
  <2>3. new \in [Nodes -> Inner \cup {Closed}]
      BY <1>3 DEF Parents
  <2> HIDE DEF u, new, r, weight, cnt, self, linked
  <2> QED BY <1>1, <1>4, <1>5, <2>1, <2>2, <2>3 DEF Tree
<1>7. \A m \in Nodes : new[m] = IF m = dst THEN p ELSE IF m = src THEN Closed ELSE IF par[m] = src THEN dst ELSE par[m]
    BY DEF NewParent, Renamed
<1>8. /\ \A m \in Nodes : linked[m] = IF m = dst THEN t.linked[src] ELSE IF m = src THEN Closed
                                      ELSE IF t.linked[m] = src THEN dst ELSE t.linked[m]
      /\ cnt[dst] = t.cnt[src] /\ cnt[src] = 0 /\ \A m \in Nodes \ {src, dst} : cnt[m] = t.cnt[m]
      /\ self[dst] = t.self[src] /\ ~self[src] /\ \A m \in Nodes \ {src, dst} : self[m] = t.self[m]
  <2>1. \A m \in Nodes : linked[m] = IF m = dst THEN t.linked[src] ELSE IF m = src THEN Closed
                                     ELSE IF t.linked[m] = src THEN dst ELSE t.linked[m]
      BY <1>2 DEF Renamed
  <2>2. cnt[dst] = t.cnt[src] /\ cnt[src] = 0 /\ \A m \in Nodes \ {src, dst} : cnt[m] = t.cnt[m]
      BY <1>1, <1>2
  <2>3. self[dst] = t.self[src] /\ ~self[src] /\ \A m \in Nodes \ {src, dst} : self[m] = t.self[m]
      BY <1>1, <1>2
  <2> QED BY <2>1, <2>2, <2>3
<1> HIDE DEF new, r, linked, cnt, self, weight, u
<1>10. \A x \in Nodes : cnt[x] = Expect(new, cnt, self, x)
  <2> DEFINE o == t.parent
             kid == t.cnt
             s == t.self
  <2>1. /\ o \in Parents /\ Hangs(o) /\ src \in OpenIn(o) /\ dst \in Nodes \ OpenIn(o) /\ kid \in [Nodes -> Nat]
        /\ \A x \in Nodes : kid[x] = Expect(o, kid, s, x)
      BY <1>1
  <2>2. /\ cnt[dst] = kid[src] /\ cnt[src] = 0 /\ \A m \in Nodes \ {src, dst} : cnt[m] = kid[m]
        /\ self[dst] = s[src] /\ ~self[src] /\ \A m \in Nodes \ {src, dst} : self[m] = s[m]
      BY <1>8
  <2> HIDE DEF o, kid, s
  <2>3. \A x \in Nodes : cnt[x] = Expect(NewParent(o, dst, src), cnt, self, x)
      BY <1>5, <2>1, <2>2, RenameCounts
  <2> QED BY <2>3 DEF o, new
<1>11. Balanced(new, u, Root, Root)
  <2> SUFFICES ASSUME NEW x \in Nodes
               PROVE  u.cnt[x] + Ind(x = Root) - Ind(x = Root) = Expect(new, u.cnt, u.self, x)
      BY DEF Balanced
  <2>1. u.cnt[x] = Expect(new, u.cnt, u.self, x) /\ u.cnt[x] \in Nat
      BY <1>5, <1>6, <1>10
  <2> QED BY <2>1, IndFacts
<1>12. LinksOK(new, u)
  <2> SUFFICES ASSUME NEW x \in Nodes PROVE u.linked[x] = IF u.cnt[x] > 0 THEN new[x] ELSE Closed
      BY DEF LinksOK
  <2>1. \A m \in Nodes : t.linked[m] = IF t.cnt[m] > 0 THEN par[m] ELSE Closed
      BY <1>1 DEF LinksOK
  <2> QED BY <1>2, <1>7, <1>6, <1>8, <2>1
<1>13. Idle(new, u.self)
    BY <1>1, <1>2, <1>3, <1>6, <1>8 DEF Idle
<1>14. Sane(u)
    BY <1>1, <1>3, <1>4, <1>5, <1>6, <1>11, <1>12, <1>13 DEF Sane, Underway
<1> QED BY <1>3, <1>6, <1>14 DEF u

(* The inductive invariant *)
SchedulerInv == Sane(tree) /\ next_slot \in 1 .. Len(RecentlyClosed)

LEMMA RingFacts ==
  /\ Len(RecentlyClosed) \in Nat \ {0} /\ OfStreams \subseteq Nodes
  /\ \A k \in 1 .. Len(RecentlyClosed) : RecentlyClosed[k] \in Nodes /\ RecentlyClosed[k] \notin OfStreams
<1>1. RecentlyClosed \in Seq(Elements(RecentlyClosed)) /\ RecentlyClosed # <<>> /\ Elements(RecentlyClosed) \cap OfStreams = {}
    BY SchedulerAssumption
<1>2. Len(RecentlyClosed) \in Nat \ {0} /\ \A k \in 1 .. Len(RecentlyClosed) : RecentlyClosed[k] \in Elements(RecentlyClosed)
    BY <1>1
<1> QED BY <1>1, <1>2 DEF Nodes

LEMMA OpenNodesFacts == OpenNodes = OpenIn(tree.parent)
BY DEF OpenNodes, OpenIn, IsOpen

LEMMA SchedulerStart == TreeInit => SchedulerInv
<1> SUFFICES ASSUME TreeInit PROVE SchedulerInv
    OBVIOUS
<1> DEFINE par == [n \in Nodes |-> Closed]
           cnt == [n \in Nodes |-> 0]
           self == [n \in Nodes |-> FALSE]
           refs == [p \in Inner |-> <<>>]
           weight == [n \in Nodes |-> 1]
<1>1. tree = [parent |-> par, refs |-> refs, weight |-> weight, cnt |-> cnt, self |-> self, linked |-> par, ok |-> TRUE]
    BY DEF TreeInit
<1>2. OpenIn(par) = {}
    BY DEF OpenIn
<1>3. /\ par \in [Nodes -> Inner \cup {Closed}] /\ cnt \in [Nodes -> Int] /\ cnt \in [Nodes -> Nat]
      /\ self \in [Nodes -> BOOLEAN] /\ refs \in [Inner -> Seq(Nodes)]
    OBVIOUS
<1>4. weight \in [Nodes -> 1 .. TopWeight + 1]
    BY DEF TopWeight
<1>5. Listed(par, refs)
  <2> SUFFICES ASSUME NEW p \in Inner PROVE Distinct(refs[p]) /\ Elements(refs[p]) = {n \in Nodes : par[n] = p}
      BY DEF Listed
  <2>1. refs[p] = <<>> /\ \A n \in Nodes : par[n] # p
      BY NodeFacts
  <2>2. Distinct(<<>>) /\ Elements(<<>>) = {}
      BY DEF Distinct, Elements
  <2> HIDE DEF refs, par
  <2> QED BY <2>1, <2>2
<1>6. Hangs(par) /\ Idle(par, self)
    BY <1>2 DEF Hangs, Idle
<1>7. \A n \in Nodes : par[n] = Closed /\ cnt[n] = 0 /\ ~self[n]
    OBVIOUS
<1> HIDE DEF par, cnt, self, refs, weight
<1>8. /\ tree \in Tree /\ tree.parent = par /\ tree.refs = refs /\ tree.cnt = cnt /\ tree.self = self
      /\ tree.linked = par /\ tree.ok
    BY <1>1, <1>3, <1>4 DEF Tree
<1>9. Balanced(par, tree, Root, Root)
  <2> SUFFICES ASSUME NEW x \in Nodes
               PROVE  tree.cnt[x] + Ind(x = Root) - Ind(x = Root) = Expect(par, tree.cnt, tree.self, x)
      BY DEF Balanced
  <2>1. tree.cnt[x] = 0 /\ \A m \in Nodes : par[m] = x => ~(cnt[m] > 0)
      BY <1>7, <1>8
  <2>2. Expect(par, cnt, self, x) = Ind(self[x])
      BY <2>1, ExpectLeaf
  <2>3. Ind(self[x]) = 0
      BY <1>7, Zenon DEF Ind
  <2> QED BY <1>8, <2>1, <2>2, <2>3, IndFacts
<1>10. LinksOK(par, tree)
    BY <1>7, <1>8 DEF LinksOK
<1>11. Sane(tree)
    BY <1>3, <1>5, <1>6, <1>8, <1>9, <1>10 DEF Sane, Underway
<1>12. next_slot \in 1 .. Len(RecentlyClosed)
    BY RingFacts DEF TreeInit
<1> QED BY <1>11, <1>12 DEF SchedulerInv

LEMMA OpenAction ==
  ASSUME Sane(tree), NEW n \in OfStreams, NEW p \in OpenNodes \cup {Root}, NEW w \in GivenWeights, NEW x \in BOOLEAN,
         vhttp_http2_scheduler_open(n, p, w, x)
  PROVE  Sane(tree') /\ next_slot' = next_slot
<1>1. n \in Nodes \ OpenIn(tree.parent) /\ p \in OpenIn(tree.parent) \cup {Root} /\ w \in 1 .. TopWeight + 1
    BY OpenNodesFacts, RingFacts, SchedulerAssumption DEF vhttp_http2_scheduler_open, IsOpen, OpenIn
<1> DEFINE t == OpenNode(tree, n, p, w)
<1>2. Adding(t, p, n)
    BY <1>1, OpenFacts
<1>3. Sane(t)
    BY <1>2 DEF Adding
<1>4. Sane(convert_to_exclusive(t, p, n))
    BY <1>2, ExclusiveFacts
<1>5. tree' = IF x THEN convert_to_exclusive(t, p, n) ELSE t
    BY DEF vhttp_http2_scheduler_open
<1>6. next_slot' = next_slot
    BY DEF vhttp_http2_scheduler_open
<1> HIDE DEF t
<1> QED BY <1>3, <1>4, <1>5, <1>6

LEMMA RebindAction ==
  ASSUME Sane(tree), NEW n \in OfStreams, NEW p \in OpenNodes \cup {Root}, NEW w \in GivenWeights, NEW x \in BOOLEAN,
         vhttp_http2_scheduler_rebind(n, p, w, x)
  PROVE  Sane(tree') /\ next_slot' = next_slot
<1>1. /\ n \in OpenIn(tree.parent) /\ p \in OpenIn(tree.parent) \cup {Root} /\ w \in 1 .. TopWeight + 1 /\ n # p
    BY OpenNodesFacts, RingFacts, SchedulerAssumption DEF vhttp_http2_scheduler_rebind, IsOpen, OpenIn
<1>2. Sane(Rebind(tree, n, p, w))
    BY <1>1, RebindFacts
<1>3. Sane(RebindExclusive(tree, n, p, w))
    BY <1>1, RebindExclusiveFacts
<1>4. /\ tree' = IF x THEN RebindExclusive(tree, n, p, w) ELSE Rebind(tree, n, p, w)
      /\ next_slot' = next_slot
    BY DEF vhttp_http2_scheduler_rebind
<1> QED BY <1>2, <1>3, <1>4

LEMMA CloseAction ==
  ASSUME Sane(tree), NEW n \in Nodes, vhttp_http2_scheduler_close(n)
  PROVE  Sane(tree') /\ next_slot' = next_slot
<1>1. n \in OpenIn(tree.parent) /\ tree' = Close(tree, n) /\ next_slot' = next_slot
    BY DEF vhttp_http2_scheduler_close, IsOpen, OpenIn
<1>2. Sane(Close(tree, n))
    BY <1>1, CloseFacts
<1> QED BY <1>1, <1>2

LEMMA ActivateAction ==
  ASSUME Sane(tree), NEW n \in OfStreams, vhttp_http2_scheduler_activate(n) \/ vhttp_http2_scheduler_deactivate(n)
  PROVE  Sane(tree') /\ next_slot' = next_slot
<1>1. n \in OpenIn(tree.parent) /\ next_slot' = next_slot
    BY RingFacts DEF vhttp_http2_scheduler_activate, vhttp_http2_scheduler_deactivate, IsOpen, OpenIn
<1>2. Sane(ActivateNode(tree, n)) /\ Sane(DeactivateNode(tree, n))
    BY <1>1, ActivateFacts, DeactivateFacts
<1>3. tree' = ActivateNode(tree, n) \/ tree' = DeactivateNode(tree, n)
    BY DEF vhttp_http2_scheduler_activate, vhttp_http2_scheduler_deactivate
<1> QED BY <1>1, <1>2, <1>3

LEMMA PreserveAction ==
  ASSUME SchedulerInv, NEW src \in OfStreams, preserve_stream_scheduler(src)
  PROVE  SchedulerInv'
<1> DEFINE dst == RecentlyClosed[next_slot]
           t == IF IsOpen(tree, dst) THEN Close(tree, dst) ELSE tree
           u == Relocate(t, dst, src)
<1>1. Sane(tree) /\ next_slot \in 1 .. Len(RecentlyClosed) /\ dst \in Nodes /\ src \in Nodes /\ src # dst
    BY RingFacts DEF SchedulerInv
<1>2. src \in OpenIn(tree.parent)
    BY <1>1 DEF preserve_stream_scheduler, IsOpen, OpenIn
<1>3. tree' = DeactivateNode(u, dst) /\ next_slot' = (next_slot % Len(RecentlyClosed)) + 1
    BY DEF preserve_stream_scheduler
<1> HIDE DEF dst
<1>4. Sane(t) /\ src \in OpenIn(t.parent) /\ dst \in Nodes \ OpenIn(t.parent)
  <2>1. CASE IsOpen(tree, dst)
    <3>1. dst \in OpenIn(tree.parent)
        BY <1>1, <2>1 DEF OpenIn, IsOpen
    <3>2. Sane(Close(tree, dst)) /\ OpenIn(Close(tree, dst).parent) = OpenIn(tree.parent) \ {dst}
        BY <1>1, <3>1, CloseFacts
    <3>3. t = Close(tree, dst)
        BY <2>1
    <3> HIDE DEF t
    <3> QED BY <1>1, <1>2, <3>2, <3>3
  <2>2. CASE ~IsOpen(tree, dst)
    <3>1. dst \notin OpenIn(tree.parent)
        BY <2>2 DEF OpenIn, IsOpen
    <3>2. t = tree
        BY <2>2
    <3> HIDE DEF t
    <3> QED BY <1>1, <1>2, <3>1, <3>2
  <2> QED BY <2>1, <2>2
<1> HIDE DEF t
<1>5. Sane(u) /\ dst \in OpenIn(u.parent)
    BY <1>4, RelocateFacts
<1> HIDE DEF u
<1>6. Sane(DeactivateNode(u, dst))
    BY <1>5, DeactivateFacts
<1>7. (next_slot % Len(RecentlyClosed)) + 1 \in 1 .. Len(RecentlyClosed)
    BY <1>1, RingFacts
<1> QED BY <1>3, <1>6, <1>7 DEF SchedulerInv

LEMMA ProceedAction ==
  ASSUME Sane(tree), NEW b \in BOOLEAN, proceed(b)
  PROVE  Sane(tree') /\ next_slot' = next_slot
<1>1. PICK n \in Elected(tree) :
        /\ tree' = AfterCallback(Checked(Unlink(tree, n), tree.cnt[n] # 0), n, b)
        /\ next_slot' = next_slot
    BY DEF proceed
<1>2. n \in Nodes /\ tree.self[n]
    BY DEF Elected
<1>3. Sane(AfterCallback(Checked(Unlink(tree, n), tree.cnt[n] # 0), n, b))
    BY <1>2, CallbackFacts
<1> QED BY <1>1, <1>3

LEMMA SchedulerStep == SchedulerInv /\ [TreeNext]_tree_vars => SchedulerInv'
<1> SUFFICES ASSUME SchedulerInv, [TreeNext]_tree_vars PROVE SchedulerInv'
    OBVIOUS
<1>1. Sane(tree) /\ next_slot \in 1 .. Len(RecentlyClosed)
    BY DEF SchedulerInv
<1>2. ASSUME Sane(tree'), next_slot' = next_slot PROVE SchedulerInv'
    BY <1>1, <1>2 DEF SchedulerInv
<1>3. ASSUME NEW n \in OfStreams, NEW p \in OpenNodes \cup {Root}, NEW w \in GivenWeights, NEW x \in BOOLEAN,
             vhttp_http2_scheduler_open(n, p, w, x) \/ vhttp_http2_scheduler_rebind(n, p, w, x)
      PROVE  SchedulerInv'
    BY <1>1, <1>2, <1>3, OpenAction, RebindAction
<1>4. ASSUME NEW n \in Nodes, vhttp_http2_scheduler_close(n) PROVE SchedulerInv'
    BY <1>1, <1>2, <1>4, CloseAction
<1>5. ASSUME NEW n \in OfStreams, vhttp_http2_scheduler_activate(n) \/ vhttp_http2_scheduler_deactivate(n)
      PROVE  SchedulerInv'
    BY <1>1, <1>2, <1>5, ActivateAction
<1>6. ASSUME NEW n \in OfStreams, preserve_stream_scheduler(n) PROVE SchedulerInv'
    BY <1>6, PreserveAction
<1>7. ASSUME NEW b \in BOOLEAN, proceed(b) PROVE SchedulerInv'
    BY <1>1, <1>2, <1>7, ProceedAction
<1>8. CASE UNCHANGED tree_vars
  <2>1. tree' = tree /\ next_slot' = next_slot
      BY <1>8 DEF tree_vars
  <2> QED BY <1>1, <1>2, <2>1
<1> QED BY <1>3, <1>4, <1>5, <1>6, <1>7, <1>8 DEF TreeNext

LEMMA SchedulerInductive == TreeSpec => []SchedulerInv
BY SchedulerStart, SchedulerStep, PTL DEF TreeSpec

LEMMA RootedFollows == SchedulerInv => TreeInv
<1> SUFFICES ASSUME Sane(tree) PROVE TreeInv
    BY DEF SchedulerInv
<1>1. tree.ok /\ Hangs(tree.parent) /\ Listed(tree.parent, tree.refs)
    BY SaneFacts
<1>2. \A p \in Inner : Elements(tree.refs[p]) = {n \in Nodes : tree.parent[n] = p}
    BY <1>1 DEF Listed
<1>3. \A S \in SUBSET OpenNodes : S # {} => \E n \in S : tree.parent[n] \in (OpenNodes \cup {Root}) \ S
    BY <1>1, OpenNodesFacts DEF Hangs
<1> QED BY <1>1, <1>2, <1>3 DEF TreeInv, NoneFailed, Rooted

LEMMA QueuesFollow == SchedulerInv => QueuesAgree
<1> SUFFICES ASSUME Sane(tree), next_slot \in 1 .. Len(RecentlyClosed) PROVE QueuesAgree
    BY DEF SchedulerInv
<1>1. /\ tree \in Tree /\ tree.cnt \in [Nodes -> Nat] /\ tree.parent \in Parents /\ Hangs(tree.parent)
      /\ LinksOK(tree.parent, tree) /\ Listed(tree.parent, tree.refs)
      /\ \A x \in Nodes : tree.cnt[x] = Expect(tree.parent, tree.cnt, tree.self, x)
    BY SaneFacts
<1> DEFINE K(n) == {kid \in Nodes : tree.parent[kid] = n /\ tree.cnt[kid] > 0}
<1>2. CountExact
  <2> SUFFICES ASSUME NEW n \in Nodes
               PROVE  tree.cnt[n] = (IF tree.self[n] THEN 1 ELSE 0) + Cardinality(K(n))
      BY DEF CountExact
  <2>1. tree.cnt[n] = Ind(tree.self[n]) + Cardinality(K(n))
      BY <1>1 DEF Expect
  <2>2. Ind(tree.self[n]) = IF tree.self[n] THEN 1 ELSE 0
      BY Zenon DEF Ind
  <2> HIDE DEF K
  <2> QED BY <2>1, <2>2
<1>3. LinkedWhereActive
    BY <1>1 DEF LinkedWhereActive, LinksOK
<1>4. \A p \in Inner : Distinct(tree.refs[p])
    BY <1>1 DEF Listed
<1>5. ASSUME NEW n \in Nodes PROVE tree.cnt[n] \in 0 .. Cardinality(Nodes)
  <2>1. n \notin K(n)
    <3>1. tree.parent[n] # n
      <4>1. CASE n \in OpenIn(tree.parent)
          BY <1>1, <4>1, ParentOpen
      <4>2. CASE n \notin OpenIn(tree.parent)
          BY <4>2, NodeFacts DEF OpenIn
      <4> QED BY <4>1, <4>2
    <3> QED BY <3>1
  <2>2. K(n) \subseteq Nodes \ {n}
      BY <2>1
  <2>3. IsFiniteSet(Nodes \ {n}) /\ Cardinality(Nodes \ {n}) = Cardinality(Nodes) - 1
      BY NodeFacts, FS_RemoveElement
  <2>4. Cardinality(K(n)) <= Cardinality(Nodes) - 1 /\ Cardinality(K(n)) \in Nat
    <3> HIDE DEF K
    <3>1. IsFiniteSet(K(n)) /\ Cardinality(K(n)) <= Cardinality(Nodes \ {n})
        BY <2>2, <2>3, FS_Subset
    <3> QED BY <2>3, <3>1, FS_CardinalityType
  <2>5. tree.cnt[n] = Ind(tree.self[n]) + Cardinality(K(n))
      BY <1>1 DEF Expect
  <2>6. Ind(tree.self[n]) \in 0 .. 1
      BY IndFacts
  <2> HIDE DEF K
  <2> QED BY <2>4, <2>5, <2>6, NodeFacts
<1> QED BY <1>1, <1>2, <1>3, <1>4, <1>5 DEF QueuesAgree, TreeTypeOK

(* For every number of streams and every size of the ring: no assertion of    *)
(* scheduler.c fails (a node is linked once, counted out as often as in, an   *)
(* exclusive node is the only child, a closed node has nothing active left),  *)
(* and the nodes form a tree that hangs from the root, also after one was     *)
(* moved below its own dependent.                                             *)
THEOREM TreeTheorem == TreeSpec => []TreeInv
BY SchedulerInductive, RootedFollows, PTL

(* The counts of active nodes are exact, and a node is in the queue of its    *)
(* present parent exactly when it or a dependent is active.                   *)
THEOREM QueuesTheorem == TreeSpec => []QueuesAgree
BY SchedulerInductive, QueuesFollow, PTL

(* vhttp_http2_scheduler_close hands the weight of the node to its dependents *)
(* in proportion to theirs, within one unit, for every weight and any number  *)
(* of dependents.                                                             *)
THEOREM SharesTheorem == TreeSpec => SharesProportional
<1> DEFINE A == \A n \in OpenNodes :
                  ~IsOpen(tree', n) /\ vhttp_http2_scheduler_close(n) =>
                    \A kid \in Elements(tree.refs[n]) :
                      Proportional(tree'.weight[kid], tree.weight[n], Total(tree, n), tree.weight[kid])
<1>1. SchedulerInv => A
  <2> SUFFICES ASSUME Sane(tree), NEW n \in OpenNodes, vhttp_http2_scheduler_close(n), NEW kid \in Elements(tree.refs[n])
               PROVE  Proportional(tree'.weight[kid], tree.weight[n], Total(tree, n), tree.weight[kid])
      BY DEF SchedulerInv
  <2>1. n \in OpenIn(tree.parent) /\ n \in Nodes /\ n \in Inner /\ tree' = Close(tree, n)
      BY OpenNodesFacts, NodeFacts DEF vhttp_http2_scheduler_close, OpenIn
  <2>2. tree'.weight[kid] = Share(tree.weight[n], Total(tree, n), tree.weight[kid])
      BY <2>1, CloseFacts
  <2>3. tree.refs[n] \in Seq(Nodes) /\ Elements(tree.refs[n]) \subseteq Nodes /\ Len(tree.refs[n]) # 0
      BY <2>1, SaneFacts DEF Listed, Elements
  <2>4. Total(tree, n) \in Nat /\ Total(tree, n) # 0
      BY <2>1, <2>3, TotalFacts
  <2>5. tree.weight[n] \in 1 .. TopWeight + 1 /\ tree.weight[kid] \in 1 .. TopWeight + 1
      BY <2>1, <2>3, SaneFacts
  <2> DEFINE w == tree.weight[n]
             tot == Total(tree, n)
             ch == tree.weight[kid]
  <2>6. w \in 1 .. TopWeight + 1 /\ tot \in Nat /\ tot # 0 /\ ch \in 1 .. TopWeight + 1
      BY <2>4, <2>5
  <2> HIDE DEF w, tot, ch
  <2>7. Proportional(Share(w, tot, ch), w, tot, ch)
      BY <2>6, ShareFacts
  <2> QED BY <2>2, <2>7 DEF w, tot, ch
<1> QED BY <1>1, SchedulerInductive, PTL DEF SharesProportional
==============================================================================
