------------------------------ MODULE H2Output ------------------------------
(***************************************************************************)
(* The output side of one HTTP/2 server connection and the ways it ends    *)
(* (src/lib/http2/connection.c): one write in flight at a time, the timer  *)
(* and the write notification that start the next, reading that stops      *)
(* when too much is buffered, the idle and write timeout, GOAWAY, graceful *)
(* shutdown and the deferred close.                                        *)
(*                                                                         *)
(* c is the connection. An operator takes a connection and returns the one *)
(* that the function of the same name leaves; an assertion that fails on   *)
(* the way adds its label to fail. Three functions do something for each   *)
(* frame or stream in the middle: c.phase is parse in on_read, proceed in  *)
(* on_write_complete and emit in do_emit_writereq until the rest of the    *)
(* function is done, and handlers may be called from parse and proceed.    *)
(*                                                                         *)
(* Streams are reduced to what the output side sees of them (H2Streams has *)
(* their life cycle): the headers of the request were received and nothing *)
(* of its body (recv; late if that was after GOAWAY), or a part of it      *)
(* (partial), a handler owes the headers (wait, informed after a 1xx) or   *)
(* more of the body (body), there is something to send and window for it   *)
(* (active) or no window (stalled), it is on streams_to_proceed (flushed,  *)
(* or ended once its state is END_STREAM). Requests whose body is streamed *)
(* to the handler are left to H2Streams. Sizes of buffers saturate at      *)
(* SoftMax.                                                                *)
(***************************************************************************)
EXTENDS Integers, FiniteSets

CONSTANTS
    Streams,            \* the streams of the connection
    SoftMax,            \* vhttp_HTTP2_DEFAULT_OUTBUF_SOFT_MAX_SIZE, in frames
    GracefulTimeouts,   \* is http2.graceful_shutdown_timeout > 0: the settings considered
    MaxInitiates        \* bound: how often a shutdown of the connection is initiated

ASSUME H2OutputAssumption ==
    /\ SoftMax \in Nat \ {0} /\ MaxInitiates \in Nat
    /\ GracefulTimeouts \subseteq BOOLEAN

VARIABLE c

(* vhttp_http2_conn_state_t; after close_connection_now the connection is FREED *)
OPEN == 0
HALF_CLOSED == 1
IS_CLOSING == 2
FREED == 3

StreamStates ==
    {"none", "recv", "late", "partial", "wait", "informed", "body", "active", "stalled",
     "flushed", "ended"}

(* buf, flight: the sizes of _write.buf and _write.buf_in_flight, 0 if none; *)
(* write_timer, idle_timer, graceful_timer: _write.timeout_entry,            *)
(* _timeout_entry and _graceful_shutdown_timeout are linked; notify: the     *)
(* socket will call on_notify_write; window: _write.window is positive;      *)
(* final: streams in SEND_BODY_IS_FINAL; list: the list of the context the   *)
(* connection is on; shutdown: the context has been told to shut down while  *)
(* the connection was not; preface: it has been received.                    *)
Conn ==
    [state : OPEN .. FREED, s : [Streams -> StreamStates], final : SUBSET Streams,
     buf : 0 .. SoftMax, flight : 0 .. SoftMax, window : BOOLEAN,
     write_timer : BOOLEAN, notify : BOOLEAN, idle_timer : BOOLEAN, reading : BOOLEAN,
     graceful_timer : BOOLEAN, cb : {"NULL", "resend_goaway", "close_straggler"},
     initiated : 0 .. MaxInitiates,
     list : {"active", "idle", "shutdown"}, received_any : BOOLEAN, shutdown : BOOLEAN,
     preface : BOOLEAN, phase : {"loop", "parse", "proceed", "emit"},
     fail : SUBSET {"in_flight", "closing", "write_timer", "socket", "idle_timer", "graceful"}]

(* vhttp_http2_accept *)
Init ==
    c = [state |-> OPEN, s |-> [i \in Streams |-> "none"], final |-> {},
         buf |-> 0, flight |-> 0, window |-> TRUE,
         write_timer |-> FALSE, notify |-> FALSE, idle_timer |-> TRUE, reading |-> TRUE,
         graceful_timer |-> FALSE, cb |-> "NULL", initiated |-> 0,
         list |-> "active", received_any |-> FALSE, shutdown |-> FALSE,
         preface |-> FALSE, phase |-> "loop", fail |-> {}]

TypeOK == c \in Conn

In(d, states) == {i \in Streams : d.s[i] \in states}

(* num_streams.pull.open; .blocked_by_server, which a stream is from the     *)
(* first DATA of its request on; streams_to_proceed                          *)
Open(d) == In(d, StreamStates \ {"none", "ended"})
Blocked(d) == In(d, {"partial", "wait", "informed", "body"})
ToProceed(d) == In(d, {"flushed", "ended"})
Active(d) == In(d, {"active"})

Check(d, cond, label) == IF cond THEN d ELSE [d EXCEPT !.fail = @ \cup {label}]

Capped(n) == IF n < SoftMax THEN n ELSE SoftMax

(* vhttp_socket_is_writing *)
IsWriting(d) == d.flight # 0 \/ d.notify

bytes_in_buf(d) == d.buf + d.flight

(* Encoding one frame *)
Encode(d) == [d EXCEPT !.buf = Capped(@ + 1)]

-----------------------------------------------------------------------------
(* Writing, and the timeouts *)

request_gathered_write(d) ==
    [Check(d, d.state < IS_CLOSING, "closing")
        EXCEPT !.write_timer = @ \/ ~IsWriting(d)]

(* vhttp_http2_conn_request_write *)
request_write(d) ==
    IF d.state = IS_CLOSING THEN d
    ELSE request_gathered_write([d EXCEPT !.reading = @ /\ bytes_in_buf(d) < SoftMax])

(* The answers of vhttp_http2_conn_get_buffer_window to: is it positive? An  *)
(* empty buffer always has room for a frame, otherwise it depends on the     *)
(* capacity of the buffer and on the congestion window.                      *)
BufferWindow(d) == {d.window} \cup IF d.buf = 0 THEN {} ELSE {FALSE}

resume_send(d, room) == IF room THEN request_gathered_write(d) ELSE d

(* without TLS early data, during which the timeout is always set *)
update_idle_timeout(d) ==
    IF d.flight # 0 THEN Check(d, d.idle_timer, "idle_timer")
    ELSE [d EXCEPT !.idle_timer = Blocked(d) = {}]

enqueue_goaway(d) ==
    IF d.state < IS_CLOSING THEN [request_write(Encode(d)) EXCEPT !.state = HALF_CLOSED] ELSE d

close_connection_now(d) ==
    [Check(d, ~d.write_timer, "write_timer")
        EXCEPT !.state = FREED, !.s = [i \in Streams |-> "none"], !.final = {},
               !.buf = 0, !.flight = 0, !.write_timer = FALSE, !.notify = FALSE,
               !.idle_timer = FALSE, !.graceful_timer = FALSE, !.reading = FALSE,
               !.phase = "loop"]

(* Mutation: the write that is scheduled and not yet started is not waited for. *)
close_connection_hasty(d) ==
    IF d.flight # 0 THEN [d EXCEPT !.state = IS_CLOSING] ELSE close_connection_now(d)

close_connection(d) ==
    IF d.flight # 0 \/ d.write_timer THEN [d EXCEPT !.state = IS_CLOSING]
    ELSE close_connection_now(d)

-----------------------------------------------------------------------------
(* Streams *)

(* the end of vhttp_http2_stream_set_state *)
TouchList(d) ==
    IF d.graceful_timer THEN d
    ELSE [d EXCEPT !.list = IF d.received_any /\ Open(d) = {} THEN "idle" ELSE "active"]

SetStream(d, i, new) == TouchList([d EXCEPT !.s[i] = new])

(* vhttp_http2_stream_close, while the connection is not closing *)
stream_close(d, i) ==
    LET e == [d EXCEPT !.s[i] = "none", !.final = @ \ {i}]
    IN update_idle_timeout(IF d.s[i] = "ended" THEN e ELSE TouchList(e))

stream_reset(d, i) ==
    CASE d.s[i] \in {"none", "ended"} -> d
      [] d.s[i] = "flushed" -> SetStream([d EXCEPT !.final = @ \ {i}], i, "ended")
      [] OTHER -> stream_close(d, i)

-----------------------------------------------------------------------------
(* do_emit_writereq *)

do_emit_writereq(d) == [Check(d, d.flight = 0, "in_flight") EXCEPT !.phase = "emit"]

(* emit_writereq_of_openref for a stream the scheduler has chosen: it may    *)
(* have lost its window to SETTINGS, or it is written to and more is left    *)
(* (active), its window is used up (stalled), nothing is left (flushed), or  *)
(* it was the last of it or an error (ended).                                *)
EmitStream(i) ==
    /\ c.phase = "emit" /\ c.state < IS_CLOSING /\ c.s[i] = "active"
    /\ TRUE \in BufferWindow(c)
    /\ \/ c' = [c EXCEPT !.s[i] = "stalled"]
       \/ \E used \in BOOLEAN :
             LET d == [Encode(c) EXCEPT !.window = ~used]
             IN \/ c' \in {d, [d EXCEPT !.s[i] = "stalled"]}
                \/ i \notin c.final /\ c' = [d EXCEPT !.s[i] = "flushed"]
                \/ c' = SetStream([d EXCEPT !.final = @ \ {i}], i, "ended")

(* vhttp_socket_write of the whole buffer *)
WriteBuffer(d) ==
    IF d.buf = 0 THEN d
    ELSE [Check(d, ~IsWriting(d), "socket")
            EXCEPT !.flight = d.buf, !.buf = 0, !.idle_timer = TRUE]

CloseIfNecessary(d) ==
    IF d.state = IS_CLOSING \/ (d.state = HALF_CLOSED /\ Open(d) = {})
    THEN close_connection(d) ELSE d

(* the rest of do_emit_writereq, when no stream is active or the buffer      *)
(* window is used up                                                         *)
EmitRest ==
    /\ c.phase = "emit"
    /\ c.state < IS_CLOSING => Active(c) = {} \/ FALSE \in BufferWindow(c)
    /\ c' = CloseIfNecessary(WriteBuffer([c EXCEPT !.phase = "loop"]))

-----------------------------------------------------------------------------
(* Callbacks of the socket *)

(* on_read without an error, up to parse_input *)
OnRead ==
    /\ c.phase = "loop" /\ c.reading
    /\ c' = [c EXCEPT !.phase = "parse"]

OnReadError ==
    /\ c.phase = "loop" /\ c.reading
    /\ c' = close_connection([c EXCEPT !.reading = FALSE])

(* the rest of on_read, when parse_input has returned 0 *)
OnReadRest ==
    /\ c.phase = "parse"
    /\ LET d == update_idle_timeout([c EXCEPT !.phase = "loop"])
       IN c' = IF d.write_timer THEN do_emit_writereq([d EXCEPT !.write_timer = FALSE]) ELSE d

OnNotifyWrite ==
    /\ c.phase = "loop" /\ c.notify
    /\ LET d == [c EXCEPT !.notify = FALSE]
       IN \/ c' = close_connection_now(d)
          \/ c' = do_emit_writereq(d)

(* on_write_complete with an error, and up to the proceed callbacks *)
OnWriteError ==
    /\ c.phase = "loop" /\ c.flight # 0
    /\ c' = close_connection_now(c)

OnWriteComplete ==
    /\ c.phase = "loop" /\ c.flight # 0
    /\ c' = [c EXCEPT !.flight = 0, !.phase = "proceed"]

(* vhttp_http2_stream_proceed of a stream on streams_to_proceed; the read    *)
(* side of an ended one is done as well                                      *)
Proceed(i) ==
    /\ c.phase = "proceed" /\ c.state < IS_CLOSING /\ i \in ToProceed(c)
    /\ c' = IF c.s[i] = "ended" THEN stream_close(c, i) ELSE [c EXCEPT !.s[i] = "body"]

(* Mutation: the streams that only wait for the scheduler are forgotten. *)
NotifyBuffered(d) == IF d.buf = 0 THEN d ELSE [d EXCEPT !.notify = TRUE]

(* vhttp_socket_notify_write, if there is something to write *)
NotifyWrite(d) ==
    IF d.buf = 0 /\ Active(d) = {} THEN d
    ELSE [Check(d, ~IsWriting(d), "socket") EXCEPT !.notify = TRUE]

ResumeReading(d) ==
    IF d.state < IS_CLOSING /\ bytes_in_buf(d) < SoftMax THEN [d EXCEPT !.reading = TRUE] ELSE d

(* the rest of on_write_complete *)
OnWriteCompleteRest ==
    /\ c.phase = "proceed"
    /\ c.state < IS_CLOSING => ToProceed(c) = {}
    /\ LET d == [update_idle_timeout(c) EXCEPT !.write_timer = FALSE, !.phase = "loop"]
           e == ResumeReading(d)
       IN c' = IF e.state = OPEN THEN NotifyWrite(e) ELSE do_emit_writereq(e)

-----------------------------------------------------------------------------
(* Frames, in parse_input *)

Parsing == c.phase = "parse" /\ c.state < IS_CLOSING

(* expect_preface *)
Preface ==
    /\ Parsing /\ ~c.preface
    /\ c' = [request_write(Encode(c)) EXCEPT !.preface = TRUE]

(* handle_headers_frame of a new stream, with END_STREAM or without; a       *)
(* request that comes after GOAWAY is disregarded once it is complete        *)
Headers(i) ==
    /\ Parsing /\ c.preface /\ c.s[i] = "none"
    /\ LET d == SetStream([c EXCEPT !.received_any = TRUE], i, "recv")
       IN \/ /\ c.state = OPEN
             /\ c' \in {d, update_idle_timeout(SetStream(d, i, "wait"))}
          \/ /\ c.state = HALF_CLOSED
             /\ c' \in {[d EXCEPT !.s[i] = "late"], stream_reset(d, i)}

(* handle_data_frame with a part of the body, after which a WINDOW_UPDATE    *)
(* may be due; a request that is disregarded is reset                        *)
BodyChunk(i) ==
    /\ Parsing /\ c.s[i] \in {"recv", "late", "partial"}
    /\ \E d \in {c, request_write(Encode(c))} :
          c' = IF c.s[i] = "late" THEN stream_reset(d, i) ELSE [d EXCEPT !.s[i] = "partial"]

(* the end of the body: execute_or_enqueue_request *)
EndOfBody(i) ==
    /\ Parsing /\ c.s[i] \in {"recv", "partial"}
    /\ c' = update_idle_timeout(SetStream(c, i, "wait"))

(* a frame that is answered: PING *)
Answered ==
    /\ Parsing /\ c.preface
    /\ c' = request_write(Encode(c))

(* handle_settings_frame, with a larger initial window *)
Settings ==
    /\ Parsing /\ c.preface
    /\ LET d == [request_write(Encode(c)) EXCEPT
                    !.s = [i \in Streams |-> IF @[i] = "stalled" THEN "active" ELSE @[i]]]
       IN \E room \in BufferWindow(d) : c' = resume_send(d, room)

(* handle_window_update_frame of the connection *)
WindowUpdate ==
    /\ Parsing /\ c.preface
    /\ LET d == [c EXCEPT !.window = TRUE]
       IN \E room \in BufferWindow(d) : c' = resume_send(d, room)

(* ... and of a stream *)
StreamWindowUpdate(i) ==
    /\ Parsing /\ c.s[i] = "stalled"
    /\ \E room \in BufferWindow(c) : c' = resume_send([c EXCEPT !.s[i] = "active"], room)

(* handle_rst_stream_frame; of a stream opened after GOAWAY it is an error *)
RstStream(i) ==
    /\ Parsing /\ c.s[i] \notin {"none", "late"}
    /\ c' = stream_reset(c, i)

(* stream_send_error and the reset that goes with it *)
StreamError(i) ==
    /\ Parsing /\ c.s[i] # "none"
    /\ c' = stream_reset(request_write(Encode(c)), i)

(* An error of the connection ends parse_input. If it has not been freed the *)
(* rest of on_read follows.                                                  *)
ConnectionError ==
    /\ Parsing
    /\ \/ ~c.preface /\ c' = close_connection(c)
       \/ c.preface /\ c' = close_connection(enqueue_goaway(c))

-----------------------------------------------------------------------------
(* Handlers: finalostream_send. They call from the loop, and back from parse *)
(* and proceed.                                                              *)

Calling == c.phase # "emit"

(* vhttp_http2_conn_register_for_proceed_callback with something to send *)
SendData(d, i, final, window) ==
    LET e == [request_write(d) EXCEPT !.s[i] = IF window THEN "active" ELSE "stalled",
                                      !.final = IF final THEN @ \cup {i} ELSE @]
    IN IF final THEN TouchList(e) ELSE e

(* send_headers, with all of the response, the beginning of it, or nothing *)
SendHeaders(i) ==
    /\ Calling /\ c.s[i] \in {"wait", "informed"}
    /\ LET d == TouchList(request_write(Encode(c)))
       IN \/ c' = request_write(SetStream(d, i, "ended"))
          \/ c' = request_write([d EXCEPT !.s[i] = "flushed"])
          \/ \E final, window \in BOOLEAN : c' = SendData(d, i, final, window)

(* More of the body, or its end; a handler that sends nothing and goes on is  *)
(* left out.                                                                 *)
SendBody(i) ==
    /\ Calling /\ c.s[i] = "body"
    /\ \E final, window \in BOOLEAN : c' = SendData(c, i, final, window)

(* finalostream_send_informational *)
SendInformational(i) ==
    /\ Calling /\ c.s[i] = "wait"
    /\ c' = [request_write(Encode(c)) EXCEPT !.s[i] = "informed"]

-----------------------------------------------------------------------------
(* Timers *)

(* emit_writereq *)
EmitWritereq ==
    /\ c.phase = "loop" /\ c.write_timer
    /\ c' = do_emit_writereq([c EXCEPT !.write_timer = FALSE])

OnIdleTimeout ==
    /\ c.phase = "loop" /\ c.idle_timer
    /\ LET d == [c EXCEPT !.idle_timer = FALSE]
       IN c' = IF c.flight # 0 THEN close_connection_now(d)
               ELSE close_connection(enqueue_goaway(d))

(* initiate_graceful_shutdown *)
initiate_graceful_shutdown(d) ==
    LET e == [Check(d, d.cb = "NULL", "graceful")
                EXCEPT !.list = "shutdown", !.cb = "resend_goaway", !.initiated = @ + 1]
        f == IF d.state < HALF_CLOSED THEN request_write(Encode(e)) ELSE e
    IN [f EXCEPT !.graceful_timer = TRUE]

(* vhttp_context_request_shutdown, when the main loop has ended; connections *)
(* on the shutdown list are skipped                                          *)
RequestShutdown ==
    /\ c.phase = "loop" /\ c.state # FREED /\ ~c.shutdown
    /\ c.list # "shutdown" /\ c.initiated < MaxInitiates
    /\ c' = [initiate_graceful_shutdown(c) EXCEPT !.shutdown = TRUE]

(* vhttp_context_close_idle_connections, when a connection is accepted *)
CloseIdleConnection ==
    /\ c.phase = "loop" /\ c.state # FREED /\ ~c.shutdown
    /\ c.list = "idle" /\ c.initiated < MaxInitiates
    /\ c' = initiate_graceful_shutdown(c)

ResendGoaway ==
    /\ c.phase = "loop" /\ c.graceful_timer /\ c.cb = "resend_goaway"
    /\ LET d == [c EXCEPT !.graceful_timer = FALSE]
       IN \/ c.state >= HALF_CLOSED /\ c' = d
          \/ /\ c.state < HALF_CLOSED
             /\ \E timeout \in GracefulTimeouts :
                   c' = IF timeout
                        THEN [enqueue_goaway(d) EXCEPT !.cb = "close_straggler",
                                                       !.graceful_timer = TRUE]
                        ELSE enqueue_goaway(d)

(* Mutation: a connection with a write in flight is spared. *)
CloseStragglerLenient ==
    /\ c.phase = "loop" /\ c.graceful_timer /\ c.cb = "close_straggler"
    /\ LET d == [c EXCEPT !.graceful_timer = FALSE]
       IN c' = IF c.flight # 0 THEN d ELSE close_connection(d)

CloseStraggler ==
    /\ c.phase = "loop" /\ c.graceful_timer /\ c.cb = "close_straggler"
    /\ c' = close_connection([c EXCEPT !.graceful_timer = FALSE])

Next ==
    \/ OnRead \/ OnReadError \/ OnReadRest
    \/ OnNotifyWrite \/ OnWriteError \/ OnWriteComplete \/ OnWriteCompleteRest \/ EmitRest
    \/ Preface \/ Answered \/ Settings \/ WindowUpdate \/ ConnectionError
    \/ EmitWritereq \/ OnIdleTimeout
    \/ RequestShutdown \/ CloseIdleConnection \/ ResendGoaway \/ CloseStraggler
    \/ \E i \in Streams :
          \/ EmitStream(i) \/ Proceed(i) \/ Headers(i) \/ BodyChunk(i) \/ EndOfBody(i)
          \/ StreamWindowUpdate(i) \/ RstStream(i) \/ StreamError(i)
          \/ SendHeaders(i) \/ SendBody(i) \/ SendInformational(i)

(* Functions that were called return, and each turn of the event loop runs  *)
(* the timers that are due between the callbacks of the sockets. The write  *)
(* timeout is set again by each write, but a connection that is closing has *)
(* only what is buffered left to write; the idle timeout is put off by each *)
(* read, so that nothing is assumed of it. Nothing is assumed of the        *)
(* client, of the socket or of the handlers.                                *)
Spec ==
    /\ Init /\ [][Next]_c
    /\ WF_c(OnReadRest \/ OnWriteCompleteRest \/ \E i \in Streams : Proceed(i) \/ EmitStream(i))
    /\ WF_c(EmitRest) /\ WF_c(EmitWritereq)
    /\ SF_c(c.state = IS_CLOSING /\ c.flight # 0 /\ OnIdleTimeout)
    /\ SF_c(ResendGoaway \/ CloseStraggler)

-----------------------------------------------------------------------------
(* Properties *)

(* No assertion of the functions modelled fails: one write at a time, no     *)
(* write requested on a connection that is closing, no timer left when the   *)
(* connection is freed (connection.c:145, 116, 375, 457, 1479, 1566).        *)
AssertionsHold == c.fail = {}

(* Between callbacks, whatever has to be written has somebody to write it: a *)
(* write in flight, a timer, or a notification. So have the streams that     *)
(* wait for a write to complete and the reading that has been stopped; and a *)
(* connection that is closing waits for a write (connection.c:435).          *)
OutputScheduled ==
    c.phase = "loop" =>
        /\ c.state < IS_CLOSING
              /\ (c.buf # 0 \/ ToProceed(c) # {} \/ ~c.reading \/ (Active(c) # {} /\ c.window))
              => IsWriting(c) \/ c.write_timer
        /\ c.state = IS_CLOSING => c.flight # 0 \/ c.write_timer

(* A write is subject to the write timeout, and a connection to the idle     *)
(* timeout while it has no requests but those that have sent their headers   *)
(* and nothing more (connection.c:141-162, 1576). A client that falls silent *)
(* within a body has no timeout: its stream counts as blocked by the server  *)
(* from the first DATA on (544), and then line 156 sets none.                *)
IdleTimeoutOn ==
    c.phase = "loop" /\ c.state < IS_CLOSING
        /\ (c.flight # 0 \/ In(c, StreamStates \ {"none", "recv", "late"}) = {})
        => c.idle_timer

(* Nothing that was begun is forgotten: output, stopped reading and deferred *)
(* closing have somebody who continues them, and a write or a connection     *)
(* without a request in progress has its timeout.                            *)
OutputInv == TypeOK /\ OutputScheduled /\ IdleTimeoutOn

(* A connection that is closing is freed, whatever the client does: by       *)
(* on_write_complete or by the write timeout (connection.c:435). So is one   *)
(* that is shut down gracefully, however long its requests take, unless no   *)
(* http2.graceful_shutdown_timeout is set and it waits for them after the    *)
(* second GOAWAY (connection.c:75-126).                                      *)
ClosingEnds ==
    c.state = IS_CLOSING \/ c.cb # "NULL"
        ~> c.state = FREED \/ (c.state = HALF_CLOSED /\ c.cb = "resend_goaway")
=============================================================================
