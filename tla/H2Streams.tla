------------------------------ MODULE H2Streams ------------------------------
(***************************************************************************)
(* The life cycle of the streams of one HTTP/2 server connection           *)
(* (src/lib/http2/connection.c, src/lib/http2/stream.c): the frames of the *)
(* client, the handlers that answer, the writes that complete.             *)
(*                                                                         *)
(* c is the connection. An operator takes a connection and returns the one *)
(* that the function of the same name leaves; an assertion (or a call of   *)
(* vhttp_fatal) that fails on the way adds its label to fail. A handler    *)
(* that answers from within its own invocation is one that answers in the  *)
(* next step. Bytes are reduced to none and some, priorities are the       *)
(* subject of H2Scheduler; server push is left out.                        *)
(***************************************************************************)
EXTENDS Integers, Sequences, FiniteSets, Lists

CONSTANTS
    MaxId,          \* streams are 1 .. MaxId, in the order of their ids
    MaxStreams,     \* http2.max_streams
    MaxConcurrent,  \* http2.max_concurrent_requests_per_connection
    MaxStreaming,   \* http2.max_concurrent_streaming_requests_per_connection
    MaxPriority,    \* http2.max_streams_for_priority
    Scenarios       \* sets of what clients and handlers do beyond the usual, see On

ASSUME H2StreamsAssumption ==
    /\ {MaxId, MaxStreams, MaxConcurrent, MaxStreaming} \subseteq Nat \ {0} /\ MaxPriority \in Nat
    /\ Scenarios \subseteq SUBSET STRING

Ids == 1 .. MaxId

VARIABLE c

(* vhttp_http2_stream_state_t; an id without a stream is ABSENT *)
ABSENT == 0
IDLE == 1
RECV_HEADERS == 2
RECV_BODY == 3
REQ_PENDING == 4
SEND_HEADERS == 5
SEND_BODY == 6
SEND_BODY_IS_FINAL == 7
END_STREAM == 8

(* en_vhttp_req_body_state_t *)
NONE == 0
BEFORE_FIRST_FRAME == 1
OPEN == 2
CLOSE_QUEUED == 3
CLOSE_DELIVERED == 4

(* vhttp_http2_conn_state_t; after close_connection_now the connection is FREED *)
CONN_OPEN == 0
HALF_CLOSED == 1
IS_CLOSING == 2
FREED == 3

(* proceed: req.proceed_req is set; write: req.write_req.cb is not set, set, *)
(* or set by a handler whose upstream is gone; entity: req.entity is NULL,   *)
(* of length zero, or not; more: req_body.buf has bytes beyond the entity;   *)
(* busy: the handler will call proceed_req; turn: the handler may send;      *)
(* active: self of the scheduler; data: _data is not empty; window:          *)
(* output_window is positive; done: send_state is not in progress.           *)
Stream ==
    [st : ABSENT .. END_STREAM, body : NONE .. CLOSE_DELIVERED, proceed : BOOLEAN,
     streamed : BOOLEAN, tunnel : BOOLEAN, write : {"none", "open", "dead"},
     entity : {"null", "empty", "some"}, more : BOOLEAN, busy : BOOLEAN, called : BOOLEAN,
     turn : BOOLEAN, active : BOOLEAN, data : BOOLEAN, window : BOOLEAN, done : BOOLEAN,
     blocked : BOOLEAN, reset_by_peer : BOOLEAN]

NoStream ==
    [st |-> ABSENT, body |-> NONE, proceed |-> FALSE, streamed |-> FALSE, tunnel |-> FALSE,
     write |-> "none", entity |-> "null", more |-> FALSE, busy |-> FALSE, called |-> FALSE,
     turn |-> FALSE, active |-> FALSE, data |-> FALSE, window |-> TRUE, done |-> FALSE,
     blocked |-> FALSE, reset_by_peer |-> FALSE]

NoContinuation == [id |-> 0, end |-> FALSE]

(* The assertions, and what else must not happen *)
Label ==
    {"425", "active and linked", "blocked_by_server", "close_connection_now", "data left",
     "ended twice", "execute", "headers twice", "incoming", "linked", "linked twice", "nothing to send",
     "prepare", "proceed_request", "process_called", "receiving state", "req_body.state",
     "request_freed", "send", "stream state", "stream_send_error", "streamed",
     "streaming state", "write_streaming_body", "written"}

Conn ==
    [features : SUBSET STRING, s : [Ids -> Stream], state : CONN_OPEN .. FREED,
     max_open : 0 .. MaxId, continuation : [id : 0 .. MaxId, end : BOOLEAN],
     early_data : BOOLEAN, pending : Seq(Ids), to_proceed : Seq(Ids), early : Seq(Ids),
     priority_open : Int, open : Int, half_closed : Int, send_body : Int,
     blocked : Int, streaming : Int, tunnel : Int,
     budget : 0 .. MaxConcurrent, delay : BOOLEAN, fail : SUBSET Label]

Init == \E features \in Scenarios :
    c = [features |-> features, s |-> [i \in Ids |-> NoStream], state |-> CONN_OPEN, max_open |-> 0,
         continuation |-> NoContinuation, early_data |-> "tooearly" \in features,
         pending |-> <<>>, to_proceed |-> <<>>, early |-> <<>>,
         priority_open |-> 0, open |-> 0, half_closed |-> 0, send_body |-> 0,
         blocked |-> 0, streaming |-> 0, tunnel |-> 0,
         budget |-> MaxConcurrent, delay |-> FALSE, fail |-> {}]

TypeOK ==
    /\ c \in Conn
    /\ \A list \in {c.pending, c.to_proceed, c.early} :
          Distinct(list) /\ Elements(list) \subseteq {i \in Ids : c.s[i].st # ABSENT}
    /\ {c.priority_open, c.open, c.half_closed, c.send_body, c.blocked, c.streaming, c.tunnel}
          \subseteq 0 .. MaxId

Check(d, cond, label) == IF cond THEN d ELSE [d EXCEPT !.fail = @ \cup {label}]

Linked(d, i) == i \in Elements(d.pending) \cup Elements(d.to_proceed) \cup Elements(d.early)

Unlink(d, i) ==
    [d EXCEPT !.pending = Without(@, {i}), !.to_proceed = Without(@, {i}), !.early = Without(@, {i})]

-----------------------------------------------------------------------------
(* The states of a stream and the counters of the connection *)

set_blocked_by_server(d, i, on) ==
    Check([d EXCEPT !.s[i].blocked = on, !.blocked = IF on THEN @ + 1 ELSE @ - 1],
          d.s[i].blocked # on, "blocked_by_server")

Block(d, i) == IF d.s[i].blocked THEN d ELSE set_blocked_by_server(d, i, TRUE)

Unblock(d, i) == IF d.s[i].blocked THEN set_blocked_by_server(d, i, FALSE) ELSE d

(* Mutation: a stream that had sent no headers stays counted. *)
EndStreamUncounted(d, i) ==
    LET st == d.s[i].st
        e  == [d EXCEPT
                 !.half_closed = IF st \in SEND_BODY .. SEND_BODY_IS_FINAL THEN @ - 1 ELSE @,
                 !.send_body = IF st \in SEND_BODY .. SEND_BODY_IS_FINAL THEN @ - 1 ELSE @,
                 !.open = IF st # IDLE THEN @ - 1 ELSE @,
                 !.priority_open = IF st = IDLE THEN @ - 1 ELSE @,
                 !.s[i].st = END_STREAM]
    IN Unblock(e, i)

(* vhttp_http2_stream_set_state to END_STREAM *)
EndStream(d, i) ==
    LET st == d.s[i].st
        e  == [d EXCEPT
                 !.s[i].st = END_STREAM,
                 !.half_closed = IF st \in SEND_HEADERS .. SEND_BODY_IS_FINAL THEN @ - 1 ELSE @,
                 !.send_body = IF st \in SEND_BODY .. SEND_BODY_IS_FINAL THEN @ - 1 ELSE @,
                 !.open = IF st # IDLE THEN @ - 1 ELSE @,
                 !.priority_open = IF st = IDLE THEN @ - 1 ELSE @]
    IN Check(Unblock(e, i), st # END_STREAM, "ended twice")

(* vhttp_http2_stream_set_state to any other state, which mostly has to       *)
(* follow its predecessor                                                    *)
set_state(d, i, new) ==
    Check([d EXCEPT !.s[i].st = new,
                    !.priority_open = IF new = RECV_HEADERS THEN @ - 1 ELSE @,
                    !.open = IF new = RECV_HEADERS THEN @ + 1 ELSE @,
                    !.half_closed = IF new = SEND_HEADERS THEN @ + 1 ELSE @,
                    !.send_body = IF new = SEND_BODY THEN @ + 1 ELSE @],
          new \in {RECV_BODY, REQ_PENDING} \/ d.s[i].st = new - 1, "stream state")

set_req_body_state(d, i, new) ==
    LET ends == new = CLOSE_DELIVERED /\ d.s[i].streamed
    IN Check([d EXCEPT !.s[i].body = new,
                       !.streaming = IF ends THEN @ - 1 ELSE @,
                       !.tunnel = IF ends /\ d.s[i].tunnel THEN @ - 1 ELSE @],
             d.s[i].body < new /\ ~(new = CLOSE_DELIVERED /\ d.s[i].proceed), "req_body.state")

-----------------------------------------------------------------------------
(* Running the requests *)

can_run_requests(d) == d.half_closed < MaxConcurrent

process_request(d, i) ==
    LET streamed == Check([d EXCEPT !.s[i].streamed = TRUE, !.streaming = @ + 1,
                                    !.tunnel = IF d.s[i].tunnel THEN @ + 1 ELSE @],
                          d.s[i].body \notin {NONE, CLOSE_DELIVERED}, "streaming state")
        whole    == IF d.s[i].st < SEND_HEADERS
                    THEN set_state(set_state(d, i, REQ_PENDING), i, SEND_HEADERS) ELSE d
        e        == IF d.s[i].proceed THEN streamed ELSE whole
    IN Check([e EXCEPT !.s[i] = [@ EXCEPT !.called = TRUE, !.turn = TRUE]],
             ~d.s[i].called, "process_called")

MayRun(d, i) ==
    /\ can_run_requests(d)
    /\ ~(d.s[i].proceed /\ d.streaming - d.tunnel >= MaxStreaming)

RunIfRoom(d, i) == IF MayRun(d, i) THEN process_request(Unlink(d, i), i) ELSE d

(* The connection after each of the entries of the list has had its turn *)
RunEach(d) ==
    LET pass[n \in 0 .. Len(d.pending)] ==
            IF n = 0 THEN d ELSE RunIfRoom(pass[n - 1], d.pending[n])
    IN pass

(* One pass over the list is enough: nothing that runs makes room for a      *)
(* request that was passed over.                                             *)
run_pending_requests(d) == IF d.delay THEN d ELSE RunEach(d)[Len(d.pending)]

(* What vhttp_http2_stream_close does before the stream is unregistered *)
StopStream(d, i) ==
    LET e == [d EXCEPT !.s[i] = [@ EXCEPT !.active = FALSE, !.proceed = FALSE]]
    IN Unblock(IF d.s[i].body \in BEFORE_FIRST_FRAME .. CLOSE_QUEUED
               THEN set_req_body_state(e, i, CLOSE_DELIVERED) ELSE e, i)

Budget(d, i) ==
    IF d.s[i].reset_by_peer THEN (IF d.budget > 0 THEN d.budget - 1 ELSE 0)
    ELSE IF d.budget < MaxConcurrent THEN d.budget + 1 ELSE d.budget

(* vhttp_http2_conn_unregister_stream, the stream being freed *)
Unregister(d, i) ==
    LET e == IF d.s[i].st # END_STREAM THEN EndStream(d, i) ELSE d
    IN Check([Unlink(e, i) EXCEPT !.s[i] = NoStream, !.budget = Budget(d, i)],
             CASE d.s[i].st \in {IDLE, RECV_HEADERS} -> ~Linked(d, i)
               [] d.s[i].st = REQ_PENDING -> Linked(d, i)
               [] OTHER -> TRUE, "linked")

RunUnlessClosing(d) == IF d.state < IS_CLOSING THEN run_pending_requests(d) ELSE d

stream_close(d, i) == RunUnlessClosing(Unregister(StopStream(d, i), i))

stream_reset(d, i) ==
    IF d.s[i].st <= REQ_PENDING THEN stream_close(d, i)
    ELSE LET e == IF d.s[i].st = END_STREAM THEN d ELSE EndStream(d, i)
             f == [e EXCEPT !.s[i].data = FALSE]
         IN IF Linked(f, i) THEN f ELSE stream_close(f, i)

stream_send_error(d) == Check(d, d.state < IS_CLOSING, "stream_send_error")

SendErrorAndReset(d, i) == stream_reset(stream_send_error(d), i)

(* Mutation: streams opened after GOAWAY are served. *)
NothingDisregarded(d, i) == FALSE

(* reset_stream_if_disregarded: opened after GOAWAY was sent *)
Disregarded(d, i) == i > d.max_open

execute_or_enqueue_request_core(d, i) ==
    run_pending_requests(Check([d EXCEPT !.pending = Append(@, i)], ~Linked(d, i), "linked twice"))

execute_or_enqueue_request(d, i) ==
    LET e == Check(d, d.s[i].st \in {RECV_HEADERS, REQ_PENDING}, "execute")
    IN IF Disregarded(e, i) THEN stream_reset(e, i)
       ELSE execute_or_enqueue_request_core(Block(set_state(e, i, REQ_PENDING), i), i)

-----------------------------------------------------------------------------
(* Sending a response *)

InsertToProceed(d, i) ==
    Check([d EXCEPT !.to_proceed = Append(@, i)], ~Linked(d, i), "linked twice")

Activate(d, i) ==
    Check([d EXCEPT !.s[i].active = TRUE], ~Linked(d, i), "active and linked")

register_for_proceed_callback(d, i) ==
    IF d.s[i].data \/ d.s[i].st >= SEND_BODY_IS_FINAL
    THEN IF d.s[i].window THEN Activate(d, i) ELSE d
    ELSE InsertToProceed(d, i)

request_write_and_close(d, i) ==
    LET e == [EndStream(d, i) EXCEPT !.s[i].active = FALSE]
    IN IF Linked(e, i) THEN e ELSE InsertToProceed(e, i)

(* An answer of 425 while the TLS handshake is not complete, to be replayed *)
register_for_replay(d, i) ==
    IF d.early_data
    THEN Check([d EXCEPT !.early = Append(@, i)], ~Linked(d, i), "linked twice")
    ELSE [d EXCEPT !.s[i].turn = TRUE]

(* The states a stream passes through before it sends *)
StartHeaders(d, i) ==
    LET pending == IF d.s[i].st = RECV_BODY THEN set_state(d, i, REQ_PENDING) ELSE d
    IN IF d.s[i].st = SEND_HEADERS THEN d ELSE set_state(pending, i, SEND_HEADERS)

StartBody(d, i) ==
    IF d.s[i].st = SEND_BODY THEN d ELSE set_state(StartHeaders(d, i), i, SEND_BODY)

(* bufs are left to be sent *)
SendBody(d, i, answer, bufs) ==
    LET body == StartBody(d, i)
        fin  == IF answer = "progress" THEN body ELSE set_state(body, i, SEND_BODY_IS_FINAL)
    IN register_for_proceed_callback([fin EXCEPT !.s[i].data = bufs], i)

(* The handler gave an answer: "progress", "final", "error", "refused" for    *)
(* req.upstream_refused, or "too_early"                                      *)
Answered(d, i, answer) ==
    [Unblock(Check(d, ~d.s[i].done /\ ~d.s[i].data, "send"), i) EXCEPT
        !.s[i] = [@ EXCEPT !.turn = FALSE, !.done = answer \notin {"progress", "too_early"}]]

(* finalostream_send; bufs: something is to be sent *)
finalostream_send(d, i, answer, bufs) ==
    LET st == d.s[i].st
        e  == Answered(d, i, answer)
    IN CASE answer = "too_early" ->
              register_for_replay(Check(e, st <= SEND_HEADERS, "425"), i)
         [] answer # "too_early" /\ st = END_STREAM -> e
         [] st \in RECV_BODY .. SEND_HEADERS /\ answer = "refused" ->
              request_write_and_close(StartHeaders(e, i), i)
         [] st \in RECV_BODY .. SEND_HEADERS /\ answer = "final" /\ ~bufs ->
              request_write_and_close(StartBody(e, i), i)
         [] \/ st \in RECV_BODY .. SEND_HEADERS /\ answer \in {"progress", "error"}
            \/ st \in RECV_BODY .. SEND_HEADERS /\ answer = "final" /\ bufs
            \/ st = SEND_BODY /\ answer \in {"progress", "final", "error"} ->
              SendBody(e, i, answer, bufs)
         [] OTHER -> Check(e, FALSE, "receiving state")

vhttp_http2_stream_proceed(d, i) ==
    IF d.s[i].st = END_STREAM
    THEN IF d.s[i].body \in {NONE, CLOSE_DELIVERED} THEN stream_close(d, i) ELSE d
    ELSE [Block(d, i) EXCEPT !.s[i].turn = TRUE]

(* Mutation: a stream that is out of window is taken for done. *)
EmitForgetsWindow(d, i, outcome, window) ==
    LET sent == [d EXCEPT !.s[i] = [@ EXCEPT !.data = outcome = "part" /\ d.s[i].data, !.window = window]]
        all  == IF outcome # "part" /\ d.s[i].st = SEND_BODY_IS_FINAL THEN EndStream(sent, i)
                ELSE sent
    IN IF all.s[i].data \/ all.s[i].st = SEND_BODY_IS_FINAL
       THEN [all EXCEPT !.s[i].active = FALSE]
       ELSE InsertToProceed([all EXCEPT !.s[i].active = FALSE], i)

(* The callback of the scheduler with vhttp_http2_stream_send_pending_data:  *)
(* all or a part of the data is sent, or reading it fails; window tells if   *)
(* any window is left.                                                       *)
Emit(d, i, outcome, window) ==
    LET sent == [d EXCEPT !.s[i] = [@ EXCEPT !.data = outcome = "part" /\ d.s[i].data, !.window = window]]
    IN CASE ~d.s[i].window -> d
         [] d.s[i].window /\ outcome = "error" -> EndStream([sent EXCEPT !.s[i].done = TRUE], i)
         [] d.s[i].window /\ outcome # "error" ->
              IF ~(outcome = "part" /\ d.s[i].data) /\ d.s[i].st = SEND_BODY_IS_FINAL
              THEN EndStream(sent, i) ELSE sent

emit_writereq_of_openref(d, i, outcome, window) ==
    LET e == Emit(Check(d, d.s[i].data \/ d.s[i].st >= SEND_BODY_IS_FINAL, "nothing to send"),
                  i, outcome, window)
    IN IF e.s[i].data \/ e.s[i].st = SEND_BODY_IS_FINAL
       THEN [e EXCEPT !.s[i].active = e.s[i].window]
       ELSE InsertToProceed([e EXCEPT !.s[i].active = FALSE], i)

update_stream_output_window(d, i, window) ==
    LET e == [d EXCEPT !.s[i].window = window]
    IN IF ~d.s[i].window /\ window /\ (d.s[i].data \/ d.s[i].st = SEND_BODY_IS_FINAL)
       THEN Activate(e, i) ELSE e

-----------------------------------------------------------------------------
(* Receiving a request *)

(* The last of the body is given to the handler. *)
Deliver(d, i) ==
    IF d.s[i].body = CLOSE_QUEUED
    THEN set_req_body_state([d EXCEPT !.s[i].proceed = FALSE], i, CLOSE_DELIVERED) ELSE d

write_streaming_body(d, i) ==
    LET last == d.s[i].body = CLOSE_QUEUED
        e == Check(Deliver(d, i),
                   /\ d.s[i].entity = "null" /\ d.s[i].write # "none"
                   /\ last \/ (d.s[i].body \in {BEFORE_FIRST_FRAME, OPEN} /\ d.s[i].more),
                   "write_streaming_body")
        given == [e EXCEPT !.s[i] =
                     [@ EXCEPT !.entity = IF d.s[i].more THEN "some" ELSE "empty", !.more = FALSE]]
        f == [given EXCEPT !.s[i] =
                 [@ EXCEPT !.busy = ~last, !.write = IF last THEN "none" ELSE d.s[i].write]]
    IN IF d.s[i].write = "dead" THEN SendErrorAndReset(given, i)
       ELSE IF last /\ d.s[i].st = END_STREAM THEN stream_close(f, i)
       ELSE f

(* Mutation: the handler may still ask for more of a body that was delivered. *)
EndOfBodyKeepsProceed(d, i) ==
    LET e == IF d.s[i].st < REQ_PENDING THEN set_state(d, i, REQ_PENDING) ELSE d
        f == IF d.s[i].st < REQ_PENDING /\ d.s[i].called THEN set_state(e, i, SEND_HEADERS) ELSE e
    IN IF d.s[i].write # "none" THEN set_req_body_state(f, i, CLOSE_QUEUED)
       ELSE set_req_body_state(f, i, CLOSE_DELIVERED)

(* The part of handle_request_body_chunk that records the end of the body *)
EndOfBody(d, i) ==
    LET e == IF d.s[i].st < REQ_PENDING THEN set_state(d, i, REQ_PENDING) ELSE d
        f == IF d.s[i].st < REQ_PENDING /\ d.s[i].called THEN set_state(e, i, SEND_HEADERS) ELSE e
    IN IF d.s[i].write # "none" THEN set_req_body_state(f, i, CLOSE_QUEUED)
       ELSE set_req_body_state([f EXCEPT !.s[i].proceed = FALSE], i, CLOSE_DELIVERED)

FirstFrame(d, i) ==
    IF d.s[i].body = BEFORE_FIRST_FRAME THEN set_req_body_state(d, i, OPEN)
    ELSE Check(d, d.s[i].body = OPEN, "req_body.state")

(* The part that adds the chunk to the body; old is the stream before *)
AddChunk(d, i, old, len, end, streamable) ==
    LET chunk == [d EXCEPT !.s[i].more = @ \/ len]
        whole == [d.s[i] EXCEPT !.entity = IF len \/ d.s[i].more THEN "some"
                                           ELSE IF d.s[i].entity = "null" THEN "empty" ELSE d.s[i].entity,
                                !.more = FALSE]
    IN IF d.s[i].streamed /\ d.s[i].write # "none"
       THEN IF d.s[i].entity = "null" THEN write_streaming_body(chunk, i) ELSE chunk
       ELSE IF ~d.s[i].streamed /\ old.body = BEFORE_FIRST_FRAME /\ ~end /\ streamable
       THEN execute_or_enqueue_request_core([d EXCEPT !.s[i] = [whole EXCEPT !.proceed = TRUE]], i)
       ELSE IF ~d.s[i].streamed /\ end /\ ~old.proceed
       THEN execute_or_enqueue_request([d EXCEPT !.s[i] = whole], i)
       ELSE [d EXCEPT !.s[i] = whole]

(* len: the frame has payload; end: it is the last; streamable: the handler  *)
(* supports request streaming; valid: size and content-length are right      *)
handle_request_body_chunk(d, i, len, end, streamable, valid) ==
    LET e == FirstFrame(d, i)
        f == Block(e, i)
    IN IF ~valid THEN SendErrorAndReset(e, i)
       ELSE IF Disregarded(f, i) THEN stream_reset(f, i)
       ELSE AddChunk(IF end THEN EndOfBody(f, i) ELSE f, i, d.s[i], len, end, streamable)

(* send_invalid_request_error, and the answer to an unknown expectation *)
send_invalid_request_error(d, i) ==
    finalostream_send(set_state(set_state(d, i, REQ_PENDING), i, SEND_HEADERS), i, "final", TRUE)

(* kind: "normal", "connect", "malformed" (pseudo headers), "invalid"        *)
handle_incoming_request(d, i, end, kind) ==
    LET e == Check(d, d.s[i].st = RECV_HEADERS, "incoming")
        t == set_state([e EXCEPT !.s[i] = [@ EXCEPT !.tunnel = TRUE, !.entity = "empty",
                                                    !.proceed = TRUE]], i, RECV_BODY)
    IN CASE kind = "malformed" \/ e.open > MaxStreams -> SendErrorAndReset(e, i)
         [] e.open <= MaxStreams /\ (kind = "invalid" \/ (kind = "connect" /\ end)) ->
              send_invalid_request_error(e, i)
         [] e.open <= MaxStreams /\ kind = "connect" /\ ~end ->
              process_request(set_req_body_state(t, i, OPEN), i)
         [] e.open <= MaxStreams /\ kind = "normal" ->
              IF end THEN execute_or_enqueue_request(e, i)
              ELSE set_req_body_state(set_state(e, i, RECV_BODY), i, BEFORE_FIRST_FRAME)

handle_trailing_headers(d, i) == handle_request_body_chunk(d, i, FALSE, TRUE, FALSE, TRUE)

vhttp_http2_stream_open(d, i, window) ==
    [d EXCEPT !.s[i] = [NoStream EXCEPT !.st = IDLE, !.window = window],
              !.priority_open = @ + 1]

prepare_for_request(d, i, window) ==
    set_state(Check([d EXCEPT !.s[i].window = window,
                              !.max_open = IF d.state = CONN_OPEN /\ @ < i THEN i ELSE @],
                    d.state # IS_CLOSING, "prepare"),
              i, RECV_HEADERS)

(* enqueue_goaway and close_connection, after an error of the connection *)
ConnectionError(d) == [d EXCEPT !.state = IS_CLOSING]

(* proceed_request of the HTTP/2 server: the handler wants more of the body. *)
(* (The window of the client is taken to be open.)                           *)
ProceedMore(d, i) ==
    LET written == d.s[i].entity
        e == Check([d EXCEPT !.s[i] = [@ EXCEPT !.entity = "null", !.busy = FALSE]],
                   d.s[i].streamed, "streamed")
    IN CASE d.s[i].body = OPEN ->
              LET f == Unblock(e, i) IN IF d.s[i].more THEN write_streaming_body(f, i) ELSE f
         [] d.s[i].body = CLOSE_QUEUED ->
              IF written = "some" THEN write_streaming_body(e, i) ELSE Check(d, FALSE, "written")
         [] OTHER -> Check(e, FALSE, "proceed_request")

(* proceed_request of the HTTP/2 server with an error *)
ProceedError(d, i) ==
    LET e == Check([d EXCEPT !.s[i] = [@ EXCEPT !.entity = "null", !.busy = FALSE, !.proceed = FALSE]],
                   d.s[i].streamed, "streamed")
        f == set_req_body_state(e, i, CLOSE_DELIVERED)
        g == [stream_send_error(f) EXCEPT !.s[i].active = FALSE]
        h == stream_reset(IF Linked(g, i) THEN g ELSE InsertToProceed(g, i), i)
    IN IF d.state >= IS_CLOSING THEN f ELSE Check(h, h.s[i].st # ABSENT, "request_freed")

-----------------------------------------------------------------------------
(* The frames of the client. While a header block is incomplete only         *)
(* CONTINUATION is accepted; a frame that is not accepted ends the           *)
(* connection (ProtocolError).                                               *)

Reading == c.state < IS_CLOSING /\ c.continuation = NoContinuation

Present(i) == c.s[i].st # ABSENT

handle_data_frame(i, len, end, streamable, valid) ==
    /\ Reading
    /\ Present(i) \/ i <= c.max_open
    /\ c' = IF ~Present(i) THEN stream_send_error(c)
            ELSE IF c.s[i].body \notin {BEFORE_FIRST_FRAME, OPEN} THEN SendErrorAndReset(c, i)
            ELSE handle_request_body_chunk(c, i, len, end, streamable, valid)

(* HEADERS that open a stream, or give headers to one opened by PRIORITY.    *)
(* After GOAWAY max_open stays, and trailers come here too: the stream has   *)
(* its headers, and the assertion of prepare_for_request fails.              *)
handle_headers_frame(i, end, end_headers, kind, window) ==
    LET d == IF Present(i) THEN c ELSE vhttp_http2_stream_open(c, i, window)
        e == prepare_for_request(d, i, window)
    IN /\ Reading /\ i > c.max_open
       /\ c' = IF d.s[i].st # IDLE THEN Check(c, FALSE, "headers twice")
               ELSE IF end_headers THEN handle_incoming_request(e, i, end, kind)
               ELSE [e EXCEPT !.continuation = [id |-> i, end |-> end]]

(* HEADERS that are trailers *)
HandleTrailers(i, end_headers) ==
    /\ Reading /\ i <= c.max_open
    /\ c.s[i].body \in {BEFORE_FIRST_FRAME, OPEN} /\ ~c.s[i].tunnel
    /\ c' = IF end_headers THEN handle_trailing_headers(c, i)
            ELSE [c EXCEPT !.continuation = [id |-> i, end |-> TRUE]]

(* The block is completed, or has become too large. The frame may name      *)
(* another stream than the HEADERS did.                                      *)
expect_continuation_of_headers(i, kind, too_large) ==
    LET d == [c EXCEPT !.continuation = NoContinuation]
    IN /\ c.state < IS_CLOSING /\ c.continuation # NoContinuation
       /\ c.s[i].st \in {RECV_HEADERS, RECV_BODY}
       /\ c' = IF too_large THEN SendErrorAndReset(c, i)
               ELSE IF c.s[i].st = RECV_HEADERS
               THEN handle_incoming_request(d, i, c.continuation.end, kind)
               ELSE handle_trailing_headers(d, i)

handle_priority_frame(i) ==
    /\ Reading /\ ~Present(i) /\ i > c.max_open /\ c.priority_open < MaxPriority
    /\ c' = vhttp_http2_stream_open(c, i, TRUE)

handle_rst_stream_frame(i) ==
    LET d == stream_reset([c EXCEPT !.s[i].reset_by_peer = TRUE], i)
    IN /\ Reading /\ Present(i) /\ i <= c.max_open
       /\ c' = IF d.budget = 0 /\ "dos" \in c.features THEN [d EXCEPT !.delay = TRUE] ELSE d

(* WINDOW_UPDATE of a stream *)
handle_window_update_frame(i) ==
    /\ Reading /\ Present(i) /\ i <= c.max_open
    /\ c' = update_stream_output_window(c, i, TRUE)

(* WINDOW_UPDATE that overflows the window, or of zero *)
HandleBadWindowUpdate(i) ==
    /\ Reading /\ Present(i)
    /\ c' = stream_send_error(stream_reset(c, i))

(* update_stream_output_window of each of the streams, which are independent *)
UpdateWindows(up, changed) ==
    LET after(i) == update_stream_output_window(c, i, up)
    IN [c EXCEPT !.s = [i \in Ids |-> IF i \in changed THEN after(i).s[i] ELSE @[i]],
                 !.fail = UNION ({c.fail} \cup {after(i).fail : i \in changed})]

(* SETTINGS with another initial window: every window moves the same way *)
handle_settings_frame(up, changed) ==
    /\ Reading
    /\ \A i \in changed : Present(i) /\ c.s[i].window # up
    /\ c' = UpdateWindows(up, changed)

ProtocolError ==
    /\ c.state < IS_CLOSING
    /\ c' = ConnectionError(c)

-----------------------------------------------------------------------------
(* The handlers *)

(* write_req.cb is set (on_connect of the proxy, on_req of connect) *)
HandlerAccept(i) ==
    /\ c.s[i].turn /\ c.s[i].proceed /\ c.s[i].write = "none" /\ c.s[i].st < SEND_BODY
    /\ c' = [c EXCEPT !.s[i] = [@ EXCEPT !.write = "open", !.busy = TRUE]]

HandlerSend(i, answer, bufs) ==
    /\ c.s[i].turn
    /\ c' = finalostream_send(c, i, answer, bufs)

(* The handler gave the body away that it had been given *)
HandlerProceed(i) ==
    /\ c.s[i].proceed /\ c.s[i].busy
    /\ c' = ProceedMore(c, i)

Gone(d, i) ==
    LET left == IF d.s[i].write = "open" THEN "dead" ELSE d.s[i].write
    IN [d EXCEPT !.s[i] = [@ EXCEPT !.write = left, !.busy = FALSE]]

(* on_head of the proxy with an error: 502, and the body is not wanted *)
HandlerHeadError(i) ==
    LET d == finalostream_send(Gone(c, i), i, "final", TRUE)
    IN /\ c.s[i].turn /\ c.s[i].write = "open" /\ c.s[i].st <= SEND_HEADERS
       /\ c' = IF d.s[i].proceed THEN ProceedError(d, i) ELSE d

(* on_body of the proxy with an error, while the response is sent *)
HandlerBodyError(i) ==
    LET d == IF c.s[i].proceed THEN ProceedError(Gone(c, i), i) ELSE Gone(c, i)
    IN /\ c.s[i].write = "open" /\ c.s[i].st = SEND_BODY
       /\ c' = IF c.s[i].turn THEN finalostream_send(d, i, "error", FALSE) ELSE d

(* The upstream breaks off after its response is complete *)
HandlerWriteError(i) ==
    /\ c.s[i].proceed /\ c.s[i].write = "open" /\ c.s[i].done
    /\ c' = ProceedError(Gone(c, i), i)

(* on_send_stop of an HTTP/3 upstream, before the response *)
HandlerStopSending(i) ==
    /\ c.s[i].proceed /\ c.s[i].busy /\ c.s[i].write = "open" /\ c.s[i].st < SEND_BODY
    /\ c' = ProceedError(Gone(c, i), i)

(* The upstream refused the request *)
HandlerRefused(i) ==
    /\ c.s[i].turn /\ c.s[i].st <= SEND_HEADERS
    /\ c.s[i].proceed => c.s[i].write = "open"
    /\ c' = finalostream_send(Gone(c, i), i, "refused", FALSE)

HandlerTooEarly(i) ==
    /\ c.s[i].turn /\ c.s[i].st <= SEND_HEADERS
    /\ c' = finalostream_send(c, i, "too_early", FALSE)

-----------------------------------------------------------------------------
(* Events of the loop *)

(* do_emit_writereq: the scheduler picks an active stream *)
EmitWrite(i, outcome, window) ==
    /\ c.state < IS_CLOSING /\ c.s[i].active
    /\ c' = emit_writereq_of_openref(c, i, outcome, window)

(* Mutation: only the first of the streams to proceed is served. *)
WriteCompleteOne ==
    /\ c.state < IS_CLOSING /\ c.to_proceed # <<>>
    /\ c' = vhttp_http2_stream_proceed([c EXCEPT !.to_proceed = <<>>], Head(c.to_proceed))

ProceedOne(d, i) ==
    vhttp_http2_stream_proceed(Unlink(Check(d, ~d.s[i].data, "data left"), i), i)

ProceedEach(d) ==
    LET pass[n \in 0 .. Len(d.to_proceed)] ==
            IF n = 0 THEN d ELSE ProceedOne(pass[n - 1], d.to_proceed[n])
    IN pass

on_write_complete ==
    /\ c.state < IS_CLOSING /\ c.to_proceed # <<>>
    /\ c' = ProceedEach(c)[Len(c.to_proceed)]

on_dos_process_delay ==
    /\ c.delay /\ c.state < FREED
    /\ c' = run_pending_requests([c EXCEPT !.delay = FALSE])

(* on_read, the TLS handshake being complete: replay what was too early *)
ReplayOne(d, i) == [Block(Unlink(d, i), i) EXCEPT !.s[i].turn = TRUE]

ReplayEach(d) ==
    LET pass[n \in 0 .. Len(d.early)] ==
            IF n = 0 THEN d ELSE ReplayOne(pass[n - 1], d.early[n])
    IN pass

ReplayEarly ==
    /\ c.state < IS_CLOSING /\ c.early_data
    /\ c' = ReplayEach([c EXCEPT !.early_data = FALSE])[Len(c.early)]

enqueue_goaway ==
    /\ c.state = CONN_OPEN
    /\ c' = [c EXCEPT !.state = HALF_CLOSED]

(* do_emit_writereq: nothing is left to be done after GOAWAY *)
CloseDrained ==
    /\ c.state = HALF_CLOSED /\ c.open = 0
    /\ c' = [c EXCEPT !.state = IS_CLOSING]

(* The streams are closed one by one; the order does not matter, as nothing  *)
(* is run any more.                                                          *)
CloseEach(d) ==
    LET pass[n \in 0 .. MaxId] ==
            IF n = 0 THEN d
            ELSE IF d.s[n].st # ABSENT THEN stream_close(pass[n - 1], n) ELSE pass[n - 1]
    IN pass

close_connection_now ==
    LET d == CloseEach(c)[MaxId]
        e == Check(d, /\ d.open = 0 /\ d.half_closed = 0 /\ d.send_body = 0
                      /\ d.priority_open = 0 /\ d.blocked = 0 /\ d.streaming = 0 /\ d.tunnel = 0
                      /\ d.pending = <<>> /\ d.to_proceed = <<>>, "close_connection_now")
    IN /\ c.state = IS_CLOSING
       /\ c' = [e EXCEPT !.state = FREED, !.delay = FALSE, !.max_open = 0,
                         !.continuation = NoContinuation]

-----------------------------------------------------------------------------
(* A failed assertion ends the process; a freed request may go unnoticed.     *)
Running == c.fail \subseteq {"request_freed"}

(* What a scenario may have of: priority, window, dos, goaway, trailers,      *)
(* continuation, streaming, tunnel, tooearly, refused, unaccepted,            *)
(* stop_sending, last_stream, early_end, late_trailers; or single_stream,     *)
(* which only restricts.                                                      *)
On(feature) == feature \in c.features

(* The ids the client uses: the last one is for streams that cross GOAWAY. *)
Used(i) == IF On("single_stream") THEN i = 1 ELSE i < MaxId \/ On("last_stream")

(* early_end: the client half-closes a tunnel before it got its 200 response *)
MayEnd(i, end) == end => c.s[i].entity # "empty" \/ On("early_end")

(* late_trailers: the client sends HEADERS again on a stream that it opened  *)
(* after GOAWAY was sent                                                     *)
MaySendHeaders(i) == c.s[i].st <= IDLE \/ On("late_trailers")

Kinds == {"normal", "malformed", "invalid"} \cup (IF On("tunnel") THEN {"connect"} ELSE {})

(* Inputs that make no difference to a frame are not varied. *)
Frame(i) ==
    \/ \E len, end, streamable, valid \in BOOLEAN :
          /\ streamable => On("streaming") /\ c.s[i].body = BEFORE_FIRST_FRAME /\ ~end
          /\ len \/ end
          /\ ~valid \/ c.s[i].body \notin {BEFORE_FIRST_FRAME, OPEN} => len /\ ~end /\ ~streamable
          /\ MayEnd(i, end)
          /\ handle_data_frame(i, len, end, streamable, valid)
    \/ \E end, end_headers, window \in BOOLEAN, kind \in Kinds :
          /\ ~end_headers => On("continuation") /\ kind = "normal"
          /\ kind \in {"malformed", "invalid"} => end
          /\ window \/ On("window")
          /\ MaySendHeaders(i)
          /\ handle_headers_frame(i, end, end_headers, kind, window)
    \/ On("trailers") /\ \E end_headers \in BOOLEAN :
          (end_headers \/ On("continuation")) /\ HandleTrailers(i, end_headers)
    \/ \E kind \in Kinds, too_large \in BOOLEAN :
          /\ MayEnd(i, TRUE)
          /\ expect_continuation_of_headers(i, kind, too_large)
    \/ On("priority") /\ handle_priority_frame(i)
    \/ handle_rst_stream_frame(i)
    \/ On("window") /\ (handle_window_update_frame(i) \/ HandleBadWindowUpdate(i))

Handler(i) ==
    \/ HandlerAccept(i)
    \/ \E answer \in {"progress", "final", "error"}, bufs \in BOOLEAN :
          /\ c.s[i].proceed /\ ~c.s[i].done /\ c.s[i].st < SEND_BODY =>
                (c.s[i].write = "none" => On("unaccepted"))
          /\ HandlerSend(i, answer, bufs)
    \/ HandlerProceed(i)
    \/ HandlerHeadError(i)
    \/ HandlerBodyError(i)
    \/ HandlerWriteError(i)
    \/ On("stop_sending") /\ HandlerStopSending(i)
    \/ On("refused") /\ HandlerRefused(i)
    \/ On("tooearly") /\ HandlerTooEarly(i)

Next ==
    /\ Running
    /\ \/ \E i \in Ids : Used(i) /\ Frame(i)
       \/ \E i \in Ids : Handler(i)
       \/ \E i \in Ids, outcome \in {"all", "part", "error"}, window \in BOOLEAN :
             /\ window \/ On("window")
             /\ outcome = "part" => c.s[i].data
             /\ EmitWrite(i, outcome, window)
       \/ On("window") /\ \E up \in BOOLEAN, changed \in SUBSET Ids : handle_settings_frame(up, changed)
       \/ on_write_complete
       \/ on_dos_process_delay
       \/ ReplayEarly
       \/ On("goaway") /\ enqueue_goaway
       \/ CloseDrained
       \/ ProtocolError
       \/ close_connection_now

Spec == Init /\ [][Next]_c

-----------------------------------------------------------------------------
Streams(P(_)) == Cardinality({i \in Ids : P(c.s[i])})

(* Each counter of num_streams is the number of streams it is meant to count, *)
(* whichever way streams were ended, reset, closed or never started.          *)
CountersExact ==
    /\ c.priority_open = Streams(LAMBDA s : s.st = IDLE)
    /\ c.open = Streams(LAMBDA s : s.st \in RECV_HEADERS .. SEND_BODY_IS_FINAL)
    /\ c.half_closed = Streams(LAMBDA s : s.st \in SEND_HEADERS .. SEND_BODY_IS_FINAL)
    /\ c.send_body = Streams(LAMBDA s : s.st \in SEND_BODY .. SEND_BODY_IS_FINAL)
    /\ c.blocked = Streams(LAMBDA s : s.blocked)
    /\ c.streaming = Streams(LAMBDA s : s.streamed /\ s.body < CLOSE_DELIVERED)
    /\ c.tunnel = Streams(LAMBDA s : s.tunnel /\ s.streamed /\ s.body < CLOSE_DELIVERED)

Lacking(causes) == c.features \cap causes = {}

(* While the handler works on a request that was received in full, on a       *)
(* stream that has not ended, the stream counts as blocked by the server: the *)
(* idle timeout, which is off as long as one does, cannot close an open       *)
(* connection under the handler. (A request that is replayed because the      *)
(* handshake was complete already is not counted.)                            *)
IdleTimeoutOff ==
    Lacking({"tooearly"}) /\ c.state < IS_CLOSING =>
        \A i \in Ids :
            /\ c.s[i].turn
            /\ c.s[i].st # END_STREAM
            /\ c.s[i].body \in {NONE, CLOSE_QUEUED, CLOSE_DELIVERED}
            => c.s[i].blocked

(* The counters are exact and the handlers are not timed out; the lists hold  *)
(* what their types say.                                                      *)
StreamsInv == TypeOK /\ CountersExact /\ IdleTimeoutOff

(* A stream that has something to send and the window for it is in the        *)
(* scheduler, and what is in the scheduler is in no list: it cannot be closed *)
(* by a completed write while the scheduler still refers to it.               *)
NoStall ==
    \A i \in Ids :
        /\ (c.s[i].data \/ c.s[i].st = SEND_BODY_IS_FINAL) /\ c.s[i].window => c.s[i].active
        /\ c.s[i].active => ~Linked(c, i)

(* A request waits in the list of pending requests only while the delay timer *)
(* runs or another stream is being served, whose closing will run it.         *)
PendingServed ==
    c.pending # <<>> /\ c.state < IS_CLOSING =>
        c.delay \/ \E i \in Ids \ Elements(c.pending) : c.s[i].st >= SEND_HEADERS \/ c.s[i].streamed

(* Whatever can go on does: streams that can send are scheduled, requests     *)
(* that wait have somebody who runs them.                                     *)
NothingStuck == NoStall /\ PendingServed

Zombie(i) ==
    /\ c.s[i].st = END_STREAM /\ c.state < IS_CLOSING
    /\ ~Linked(c, i)
    /\ c.s[i].body \notin {BEFORE_FIRST_FRAME, OPEN}
    /\ ~(c.s[i].body = CLOSE_QUEUED /\ c.s[i].busy)

(* "the stream will be closed when the read side is done" (stream.c): a       *)
(* stream that has ended is closed by the completion of a write, or when the  *)
(* client or the handler is done with the request body.                       *)
EndedIsClosed == \A i \in Ids : ~Zombie(i)

(* The same of requests that their handler accepts and whose upstream neither *)
(* refuses them nor answers 425, however they end.                            *)
NoZombie == Lacking({"unaccepted", "refused", "tooearly"}) => EndedIsClosed

(* Of a client that neither half-closes a tunnel before its response (see     *)
(* WrittenSome) nor sends trailers on a stream opened after GOAWAY (see       *)
(* HeadersOnce): no assertion of connection.c, stream.c and http2_internal.h  *)
(* fails, no switch over a state meets a state it calls unexpected, and       *)
(* proceed_request does not free the request, whose generator is its caller   *)
(* and would be freed with it (unless the upstream stops the body before its  *)
(* response). A client that does the one or the other makes no other          *)
(* assertion fail than the one of its own property.                           *)
AssertionsHold ==
    c.fail \subseteq (IF On("stop_sending") THEN {"request_freed"} ELSE {})
                \cup (IF On("early_end") THEN {"written"} ELSE {})
                \cup (IF On("late_trailers") THEN {"headers twice"} ELSE {})

(* The assertion of proceed_request: when the client has ended the request    *)
(* body, the handler asks for more only after it was given some of it.        *)
WrittenSome == "written" \notin c.fail

(* The assertion of vhttp_http2_stream_prepare_for_request: a stream is       *)
(* prepared for the headers of its request only once, before any came.        *)
HeadersOnce == "headers twice" \notin c.fail

(* A stream opened after GOAWAY was sent is ignored: its request is not run.  *)
(* CONNECT is, as the code looks at max_open only where a request is queued   *)
(* or a body arrives.                                                         *)
DisregardedNotRun == \A i \in Ids : i > c.max_open => ~c.s[i].called \/ c.s[i].tunnel
=============================================================================
