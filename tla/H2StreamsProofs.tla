--------------------------- MODULE H2StreamsProofs ---------------------------
(***************************************************************************)
(* Proofs about the streams of an HTTP/2 connection, for every number of   *)
(* streams, all limits and every scenario of clients and handlers.         *)
(*                                                                         *)
(* The inductive invariant says of each stream, by itself, which states of *)
(* its fields go together and on which list it then is (Good and its       *)
(* parts), that the counters are exact, that no assertion failed, and that *)
(* somebody serves what is pending (Served).  As connections are values,   *)
(* each function of the code is a lemma about a connection d and the one   *)
(* it returns: Step says that stream i has become q on a list and all else *)
(* stayed, Lands that a function ends well: stream i is Good, and then     *)
(* pending requests were run, or nothing was taken from those who wait.    *)
(* The loops over a list are proved by taking the first entry at which the *)
(* claim would fail.  A step of the specification is then one use of       *)
(* Lands, and the properties follow from the parts of Good.                *)
(***************************************************************************)
EXTENDS H2Streams, Counting

USE DEF ABSENT, IDLE, RECV_HEADERS, RECV_BODY, REQ_PENDING, SEND_HEADERS, SEND_BODY,
        SEND_BODY_IS_FINAL, END_STREAM, NONE, BEFORE_FIRST_FRAME, OPEN, CLOSE_QUEUED,
        CLOSE_DELIVERED, CONN_OPEN, HALF_CLOSED, IS_CLOSING, FREED

(* An assertion that holds changes nothing. *)
LEMMA CheckTrue ==
  ASSUME NEW d, NEW cond, NEW label, cond
  PROVE  Check(d, cond, label) = d
BY Zenon DEF Check

(* What most functions leave alone. *)
Rest(d, e) ==
    /\ e.features = d.features /\ e.state = d.state /\ e.max_open = d.max_open
    /\ e.continuation = d.continuation /\ e.early_data = d.early_data /\ e.delay = d.delay

SameLists(d, e) == e.pending = d.pending /\ e.to_proceed = d.to_proceed /\ e.early = d.early

(* What a stream adds to each of the counters *)
InIdle(q) == Ind(q.st = IDLE)
InOpen(q) == Ind(q.st \in RECV_HEADERS .. SEND_BODY_IS_FINAL)
InHalfClosed(q) == Ind(q.st \in SEND_HEADERS .. SEND_BODY_IS_FINAL)
InSendBody(q) == Ind(q.st \in SEND_BODY .. SEND_BODY_IS_FINAL)
InBlocked(q) == Ind(q.blocked)
InStreaming(q) == Ind(q.streamed /\ q.body < CLOSE_DELIVERED)
InTunnel(q) == Ind(q.tunnel /\ q.streamed /\ q.body < CLOSE_DELIVERED)

LEMMA InTypes ==
  ASSUME NEW q
  PROVE  /\ InIdle(q) \in 0 .. 1 /\ InOpen(q) \in 0 .. 1 /\ InHalfClosed(q) \in 0 .. 1
         /\ InSendBody(q) \in 0 .. 1 /\ InBlocked(q) \in 0 .. 1 /\ InStreaming(q) \in 0 .. 1
         /\ InTunnel(q) \in 0 .. 1
BY DEF InIdle, InOpen, InHalfClosed, InSendBody, InBlocked, InStreaming, InTunnel, Ind

(* The counters follow what happens to one stream, from r to q. *)
Counted(d, e, r, q) ==
    /\ e.priority_open = d.priority_open + InIdle(q) - InIdle(r)
    /\ e.open = d.open + InOpen(q) - InOpen(r)
    /\ e.half_closed = d.half_closed + InHalfClosed(q) - InHalfClosed(r)
    /\ e.send_body = d.send_body + InSendBody(q) - InSendBody(r)
    /\ e.blocked = d.blocked + InBlocked(q) - InBlocked(r)
    /\ e.streaming = d.streaming + InStreaming(q) - InStreaming(r)
    /\ e.tunnel = d.tunnel + InTunnel(q) - InTunnel(r)

LEMMA CountedAgain ==
  ASSUME NEW d \in Conn, NEW e \in Conn, NEW f, NEW p, NEW q, NEW r, Counted(d, e, p, q), Counted(e, f, q, r)
  PROVE  Counted(d, f, p, r)
<1> DEFINE T(x) == /\ InIdle(x) \in Int /\ InOpen(x) \in Int /\ InHalfClosed(x) \in Int
                   /\ InSendBody(x) \in Int /\ InBlocked(x) \in Int /\ InStreaming(x) \in Int
                   /\ InTunnel(x) \in Int
<1>1. T(p) /\ T(q) /\ T(r)
    BY InTypes
<1>2. /\ d.priority_open \in Int /\ d.open \in Int /\ d.half_closed \in Int /\ d.send_body \in Int
      /\ d.blocked \in Int /\ d.streaming \in Int /\ d.tunnel \in Int
    BY DEF Conn
<1> QED BY <1>1, <1>2 DEF Counted

(* Stream i of d has become q in e; the other streams have stayed. *)
Moved(d, e, i, q) ==
    /\ e \in Conn /\ Rest(d, e) /\ q \in Stream /\ Counted(d, e, d.s[i], q)
    /\ e.s = [d.s EXCEPT ![i] = q]

(* Nothing but the stream and the budget changes. *)
Only(d, e, i, q) == Moved(d, e, i, q) /\ SameLists(d, e) /\ e.fail = d.fail

(* Two changes of a stream are one. *)
LEMMA OnlyAgain ==
  ASSUME NEW d \in Conn, NEW e, NEW f, NEW i \in Ids, NEW q, NEW r, Only(d, e, i, q), Only(e, f, i, r)
  PROVE  Only(d, f, i, r)
<1>1. e.s[i] = q
    BY DEF Only, Moved, Conn
<1>2. f.s = [d.s EXCEPT ![i] = r]
    BY DEF Only, Moved, Conn
<1>3. Counted(d, e, d.s[i], q) /\ Counted(e, f, q, r) /\ e \in Conn
    BY <1>1 DEF Only, Moved
<1>4. Counted(d, f, d.s[i], r)
    BY <1>3, CountedAgain
<1> QED BY <1>2, <1>4 DEF Only, Moved, Rest, SameLists

(* What Only says of the stream. *)
LEMMA OnlyAt ==
  ASSUME NEW d \in Conn, NEW e, NEW i \in Ids, NEW q, Only(d, e, i, q)
  PROVE  e \in Conn /\ e.s[i] = q /\ q \in Stream /\ e.state = d.state
BY DEF Only, Moved, Conn, Rest

(* Nothing changes. *)
LEMMA OnlySame ==
  ASSUME NEW d \in Conn, NEW i \in Ids
  PROVE  d.s[i] \in Stream /\ Only(d, d, i, d.s[i])
<1>1. d.s[i] \in Stream /\ d.s = [d.s EXCEPT ![i] = d.s[i]]
    BY DEF Conn
<1>2. Counted(d, d, d.s[i], d.s[i])
  <2>1. /\ d.priority_open \in Int /\ d.open \in Int /\ d.half_closed \in Int /\ d.send_body \in Int
        /\ d.blocked \in Int /\ d.streaming \in Int /\ d.tunnel \in Int
      BY DEF Conn
  <2> QED BY <2>1, InTypes DEF Counted
<1> QED BY <1>1, <1>2 DEF Only, Moved, Rest, SameLists

(* A change that no counter looks at. *)
LEMMA PutOnly ==
  ASSUME NEW d \in Conn, NEW i \in Ids, NEW q \in Stream,
         q.st = d.s[i].st, q.blocked = d.s[i].blocked, q.streamed = d.s[i].streamed,
         q.body = d.s[i].body, q.tunnel = d.s[i].tunnel
  PROVE  Only(d, [d EXCEPT !.s[i] = q], i, q)
<1> DEFINE e == [d EXCEPT !.s[i] = q]
<1>1. [d.s EXCEPT ![i] = q] \in [Ids -> Stream]
    BY DEF Conn
<1>2. e \in Conn /\ Rest(d, e) /\ SameLists(d, e) /\ e.fail = d.fail /\ e.s = [d.s EXCEPT ![i] = q]
    BY <1>1 DEF Conn, Rest, SameLists
<1>3. Counted(d, e, d.s[i], q)
    BY DEF Conn, Counted, InIdle, InOpen, InHalfClosed, InSendBody, InBlocked, InStreaming, InTunnel, Ind
<1> QED BY <1>2, <1>3 DEF Only, Moved

(* vhttp_http2_stream_set_blocked_by_server *)
LEMMA BlockedFacts ==
  ASSUME NEW d \in Conn, NEW i \in Ids, NEW on \in BOOLEAN, d.s[i].blocked # on
  PROVE  Only(d, set_blocked_by_server(d, i, on), i, [d.s[i] EXCEPT !.blocked = on])
<1> DEFINE e == set_blocked_by_server(d, i, on)
           q == [d.s[i] EXCEPT !.blocked = on]
           n == IF on THEN d.blocked + 1 ELSE d.blocked - 1
<1>0. d.s[i] \in Stream /\ n \in Int
    BY DEF Conn
<1>1. e = [d EXCEPT !.s[i].blocked = on, !.blocked = n]
    BY CheckTrue DEF set_blocked_by_server
<1>2. q \in Stream /\ q.st = d.s[i].st /\ q.streamed = d.s[i].streamed /\ q.body = d.s[i].body
      /\ q.tunnel = d.s[i].tunnel /\ q.blocked = on
    BY <1>0 DEF Stream
<1>3. [d.s EXCEPT ![i] = q] \in [Ids -> Stream]
    BY <1>2 DEF Conn
<1>4. e.s = [d.s EXCEPT ![i] = q]
    BY <1>1 DEF Conn
<1>5. e \in Conn /\ Rest(d, e) /\ SameLists(d, e) /\ e.fail = d.fail
    BY <1>0, <1>1, <1>2, <1>3 DEF Conn, Rest, SameLists
<1>6. /\ e.priority_open = d.priority_open /\ e.open = d.open /\ e.half_closed = d.half_closed
      /\ e.send_body = d.send_body /\ e.streaming = d.streaming /\ e.tunnel = d.tunnel
      /\ e.blocked = n
    BY <1>1 DEF Conn
<1>7. Counted(d, e, d.s[i], q)
  <2> HIDE DEF e, q
  <2>1. d.s[i].blocked \in BOOLEAN
      BY <1>0 DEF Stream
  <2>2. /\ d.priority_open \in Int /\ d.open \in Int /\ d.half_closed \in Int /\ d.send_body \in Int
        /\ d.blocked \in Int /\ d.streaming \in Int /\ d.tunnel \in Int
      BY DEF Conn
  <2>3. /\ InIdle(q) = InIdle(d.s[i]) /\ InOpen(q) = InOpen(d.s[i]) /\ InHalfClosed(q) = InHalfClosed(d.s[i])
        /\ InSendBody(q) = InSendBody(d.s[i]) /\ InStreaming(q) = InStreaming(d.s[i])
        /\ InTunnel(q) = InTunnel(d.s[i])
      BY <1>2 DEF InIdle, InOpen, InHalfClosed, InSendBody, InStreaming, InTunnel
  <2>4. n = d.blocked + InBlocked(q) - InBlocked(d.s[i])
      BY <1>2, <2>1, <2>2 DEF InBlocked, Ind
  <2> HIDE DEF n
  <2> QED BY <1>6, <2>2, <2>3, <2>4, InTypes DEF Counted
<1> QED BY <1>2, <1>4, <1>5, <1>7 DEF Only, Moved

LEMMA BlockFacts ==
  ASSUME NEW d \in Conn, NEW i \in Ids
  PROVE  Only(d, Block(d, i), i, [d.s[i] EXCEPT !.blocked = TRUE])
<1>1. d.s[i] \in Stream
    BY DEF Conn
<1>2. CASE d.s[i].blocked
  <2>1. d.s[i] = [d.s[i] EXCEPT !.blocked = TRUE]
      BY <1>1, <1>2 DEF Stream
  <2> QED BY <1>2, <2>1, OnlySame DEF Block
<1>3. CASE ~d.s[i].blocked
  <2>1. d.s[i].blocked # TRUE
      BY <1>1, <1>3 DEF Stream
  <2> QED BY <1>3, <2>1, BlockedFacts DEF Block
<1> QED BY <1>2, <1>3

LEMMA UnblockFacts ==
  ASSUME NEW d \in Conn, NEW i \in Ids
  PROVE  Only(d, Unblock(d, i), i, [d.s[i] EXCEPT !.blocked = FALSE])
<1>1. d.s[i] \in Stream
    BY DEF Conn
<1>2. CASE ~d.s[i].blocked
  <2>1. d.s[i] = [d.s[i] EXCEPT !.blocked = FALSE]
      BY <1>1, <1>2 DEF Stream
  <2> QED BY <1>2, <2>1, OnlySame DEF Unblock
<1>3. CASE d.s[i].blocked
  <2>1. d.s[i].blocked # FALSE
      BY <1>1, <1>3 DEF Stream
  <2> QED BY <1>3, <2>1, BlockedFacts DEF Unblock
<1> QED BY <1>2, <1>3

(* vhttp_http2_stream_set_state to END_STREAM *)
LEMMA EndFacts ==
  ASSUME NEW d \in Conn, NEW i \in Ids, d.s[i].st \in IDLE .. SEND_BODY_IS_FINAL
  PROVE  Only(d, EndStream(d, i), i, [d.s[i] EXCEPT !.st = END_STREAM, !.blocked = FALSE])
<1> DEFINE st == d.s[i].st
           q == [d.s[i] EXCEPT !.st = END_STREAM]
           h == IF st \in SEND_HEADERS .. SEND_BODY_IS_FINAL THEN d.half_closed - 1 ELSE d.half_closed
           b == IF st \in SEND_BODY .. SEND_BODY_IS_FINAL THEN d.send_body - 1 ELSE d.send_body
           o == IF st # IDLE THEN d.open - 1 ELSE d.open
           p == IF st = IDLE THEN d.priority_open - 1 ELSE d.priority_open
           e == [d EXCEPT !.s[i].st = END_STREAM,
                          !.half_closed = h, !.send_body = b, !.open = o, !.priority_open = p]
<1>0. d.s[i] \in Stream /\ h \in Int /\ b \in Int /\ o \in Int /\ p \in Int
    BY DEF Conn
<1>1. EndStream(d, i) = Unblock(e, i)
  <2>1. st # END_STREAM
      OBVIOUS
  <2>2. EndStream(d, i) = Check(Unblock(e, i), st # END_STREAM, "ended twice")
      BY Zenon DEF EndStream
  <2> HIDE DEF e
  <2> QED BY <2>1, <2>2, CheckTrue
<1>2. q \in Stream /\ q.st = END_STREAM /\ q.streamed = d.s[i].streamed /\ q.body = d.s[i].body
      /\ q.tunnel = d.s[i].tunnel /\ q.blocked = d.s[i].blocked
    BY <1>0 DEF Stream
<1> HIDE DEF h, b, o, p
<1>3. [d.s EXCEPT ![i] = q] \in [Ids -> Stream]
    BY <1>2 DEF Conn
<1>4. e.s = [d.s EXCEPT ![i] = q]
    BY DEF Conn
<1>5. e \in Conn /\ Rest(d, e) /\ SameLists(d, e) /\ e.fail = d.fail
    BY <1>0, <1>3 DEF Conn, Rest, SameLists
<1>6. /\ e.priority_open = p /\ e.open = o /\ e.half_closed = h
      /\ e.send_body = b /\ e.streaming = d.streaming /\ e.tunnel = d.tunnel
      /\ e.blocked = d.blocked
    BY DEF Conn
<1>7. Counted(d, e, d.s[i], q)
  <2> HIDE DEF e, q
  <2>1. /\ d.priority_open \in Int /\ d.open \in Int /\ d.half_closed \in Int /\ d.send_body \in Int
        /\ d.blocked \in Int /\ d.streaming \in Int /\ d.tunnel \in Int
      BY DEF Conn
  <2> QED BY <1>2, <1>6, <2>1 DEF Counted, st, h, b, o, p, InIdle, InOpen, InHalfClosed, InSendBody, InBlocked, InStreaming, InTunnel, Ind
<1>8. Only(d, e, i, q)
    BY <1>2, <1>4, <1>5, <1>7 DEF Only, Moved
<1> HIDE DEF e, q
<1>9. e \in Conn /\ e.s[i] = q
    BY <1>8, OnlyAt
<1>10. Only(e, EndStream(d, i), i, [q EXCEPT !.blocked = FALSE])
    BY <1>1, <1>9, UnblockFacts
<1>11. [q EXCEPT !.blocked = FALSE] = [d.s[i] EXCEPT !.st = END_STREAM, !.blocked = FALSE]
    BY <1>0 DEF q, Stream
<1> QED BY <1>8, <1>10, <1>11, OnlyAgain

(* The state that a stream has before it gets state new *)
Follows(st, new) ==
    IF new = REQ_PENDING THEN st \in RECV_HEADERS .. REQ_PENDING ELSE st = new - 1

(* vhttp_http2_stream_set_state to another state *)
LEMMA StateFacts ==
  ASSUME NEW d \in Conn, NEW i \in Ids, NEW new \in RECV_HEADERS .. SEND_BODY_IS_FINAL,
         Follows(d.s[i].st, new)
  PROVE  Only(d, set_state(d, i, new), i, [d.s[i] EXCEPT !.st = new])
<1> DEFINE q == [d.s[i] EXCEPT !.st = new]
           h == IF new = SEND_HEADERS THEN d.half_closed + 1 ELSE d.half_closed
           b == IF new = SEND_BODY THEN d.send_body + 1 ELSE d.send_body
           o == IF new = RECV_HEADERS THEN d.open + 1 ELSE d.open
           p == IF new = RECV_HEADERS THEN d.priority_open - 1 ELSE d.priority_open
           e == [d EXCEPT !.s[i].st = new,
                          !.priority_open = p, !.open = o, !.half_closed = h, !.send_body = b]
<1>0. d.s[i] \in Stream /\ h \in Int /\ b \in Int /\ o \in Int /\ p \in Int
    BY DEF Conn
<1>1. set_state(d, i, new) = e
  <2>1. new \in {RECV_BODY, REQ_PENDING} \/ d.s[i].st = new - 1
      BY DEF Follows
  <2>2. set_state(d, i, new) = Check(e, new \in {RECV_BODY, REQ_PENDING} \/ d.s[i].st = new - 1, "stream state")
      BY Zenon DEF set_state
  <2> HIDE DEF e
  <2> QED BY <2>1, <2>2, CheckTrue
<1>2. q \in Stream /\ q.st = new /\ q.streamed = d.s[i].streamed /\ q.body = d.s[i].body
      /\ q.tunnel = d.s[i].tunnel /\ q.blocked = d.s[i].blocked
    BY <1>0 DEF Stream
<1> HIDE DEF h, b, o, p
<1>3. [d.s EXCEPT ![i] = q] \in [Ids -> Stream]
    BY <1>2 DEF Conn
<1>4. e.s = [d.s EXCEPT ![i] = q]
    BY DEF Conn
<1>5. e \in Conn /\ Rest(d, e) /\ SameLists(d, e) /\ e.fail = d.fail
    BY <1>0, <1>3 DEF Conn, Rest, SameLists
<1>6. /\ e.priority_open = p /\ e.open = o /\ e.half_closed = h
      /\ e.send_body = b /\ e.streaming = d.streaming /\ e.tunnel = d.tunnel
      /\ e.blocked = d.blocked
    BY DEF Conn
<1>7. Counted(d, e, d.s[i], q)
  <2> HIDE DEF e, q
  <2>1. /\ d.priority_open \in Int /\ d.open \in Int /\ d.half_closed \in Int /\ d.send_body \in Int
        /\ d.blocked \in Int /\ d.streaming \in Int /\ d.tunnel \in Int
      BY DEF Conn
  <2> QED BY <1>2, <1>6, <2>1 DEF Counted, Follows, h, b, o, p, InIdle, InOpen, InHalfClosed, InSendBody, InBlocked, InStreaming, InTunnel, Ind
<1>8. Only(d, e, i, q)
    BY <1>2, <1>4, <1>5, <1>7 DEF Only, Moved
<1> QED BY <1>1, <1>8

(* set_req_body_state *)
LEMMA BodyFacts ==
  ASSUME NEW d \in Conn, NEW i \in Ids, NEW new \in BEFORE_FIRST_FRAME .. CLOSE_DELIVERED,
         d.s[i].body < new, new = CLOSE_DELIVERED => ~d.s[i].proceed
  PROVE  Only(d, set_req_body_state(d, i, new), i, [d.s[i] EXCEPT !.body = new])
<1> DEFINE q == [d.s[i] EXCEPT !.body = new]
           Ends == new = CLOSE_DELIVERED /\ d.s[i].streamed
           m == IF Ends THEN d.streaming - 1 ELSE d.streaming
           t == IF Ends /\ d.s[i].tunnel THEN d.tunnel - 1 ELSE d.tunnel
           e == [d EXCEPT !.s[i].body = new, !.streaming = m, !.tunnel = t]
<1>0. d.s[i] \in Stream /\ m \in Int /\ t \in Int /\ d.s[i].body \in 0 .. 4
    BY DEF Conn, Stream
<1>1. set_req_body_state(d, i, new) = e
  <2>1. d.s[i].body < new /\ ~(new = CLOSE_DELIVERED /\ d.s[i].proceed)
      OBVIOUS
  <2>2. set_req_body_state(d, i, new)
          = Check(e, d.s[i].body < new /\ ~(new = CLOSE_DELIVERED /\ d.s[i].proceed), "req_body.state")
      BY Zenon DEF set_req_body_state
  <2> HIDE DEF e
  <2> QED BY <2>1, <2>2, CheckTrue
<1>2. q \in Stream /\ q.st = d.s[i].st /\ q.streamed = d.s[i].streamed /\ q.body = new
      /\ q.tunnel = d.s[i].tunnel /\ q.blocked = d.s[i].blocked
    BY <1>0 DEF Stream
<1> HIDE DEF m, t
<1>3. [d.s EXCEPT ![i] = q] \in [Ids -> Stream]
    BY <1>2 DEF Conn
<1>4. e.s = [d.s EXCEPT ![i] = q]
    BY DEF Conn
<1>5. e \in Conn /\ Rest(d, e) /\ SameLists(d, e) /\ e.fail = d.fail
    BY <1>0, <1>3 DEF Conn, Rest, SameLists
<1>6. /\ e.priority_open = d.priority_open /\ e.open = d.open /\ e.half_closed = d.half_closed
      /\ e.send_body = d.send_body /\ e.streaming = m /\ e.tunnel = t
      /\ e.blocked = d.blocked
    BY DEF Conn
<1>7. Counted(d, e, d.s[i], q)
  <2> HIDE DEF e, q
  <2>1. /\ d.priority_open \in Int /\ d.open \in Int /\ d.half_closed \in Int /\ d.send_body \in Int
        /\ d.blocked \in Int /\ d.streaming \in Int /\ d.tunnel \in Int
      BY DEF Conn
  <2> QED BY <1>0, <1>2, <1>6, <2>1 DEF Counted, m, t, InIdle, InOpen, InHalfClosed, InSendBody, InBlocked, InStreaming, InTunnel, Ind
<1>8. Only(d, e, i, q)
    BY <1>2, <1>4, <1>5, <1>7 DEF Only, Moved
<1> QED BY <1>1, <1>8

(* process_request of a request that is streamed *)
LEMMA StreamedFacts ==
  ASSUME NEW d \in Conn, NEW i \in Ids, d.s[i].proceed, ~d.s[i].called, ~d.s[i].streamed,
         d.s[i].body \in {OPEN, CLOSE_QUEUED}
  PROVE  Only(d, process_request(d, i), i,
              [d.s[i] EXCEPT !.streamed = TRUE, !.called = TRUE, !.turn = TRUE])
<1> DEFINE q == [d.s[i] EXCEPT !.streamed = TRUE]
           m == d.streaming + 1
           t == IF d.s[i].tunnel THEN d.tunnel + 1 ELSE d.tunnel
           e == [d EXCEPT !.s[i].streamed = TRUE, !.streaming = m, !.tunnel = t]
           f == [e EXCEPT !.s[i] = [@ EXCEPT !.called = TRUE, !.turn = TRUE]]
           r == [q EXCEPT !.called = TRUE, !.turn = TRUE]
           sd == Check(e, d.s[i].body \notin {NONE, CLOSE_DELIVERED}, "streaming state")
<1>0. d.s[i] \in Stream /\ m \in Int /\ t \in Int /\ d.s[i].streamed = FALSE
    BY DEF Conn, Stream
<1>1. process_request(d, i) = f
  <2>1. sd = e
    <3>1. d.s[i].body \notin {NONE, CLOSE_DELIVERED}
        OBVIOUS
    <3> HIDE DEF e
    <3> QED BY <3>1, CheckTrue
  <2>2. process_request(d, i) = Check([sd EXCEPT !.s[i] = [@ EXCEPT !.called = TRUE, !.turn = TRUE]], ~d.s[i].called, "process_called")
      BY Zenon DEF process_request
  <2> HIDE DEF sd, e
  <2>3. process_request(d, i) = Check(f, ~d.s[i].called, "process_called")
      BY <2>1, <2>2, Zenon
  <2> HIDE DEF f
  <2> QED BY <2>3, CheckTrue
<1>2. q \in Stream /\ q.st = d.s[i].st /\ q.streamed = TRUE /\ q.body = d.s[i].body
      /\ q.tunnel = d.s[i].tunnel /\ q.blocked = d.s[i].blocked
    BY <1>0 DEF Stream
<1> HIDE DEF m, t
<1>3. [d.s EXCEPT ![i] = q] \in [Ids -> Stream]
    BY <1>2 DEF Conn
<1>4. e.s = [d.s EXCEPT ![i] = q]
    BY DEF Conn
<1>5. e \in Conn /\ Rest(d, e) /\ SameLists(d, e) /\ e.fail = d.fail
    BY <1>0, <1>3 DEF Conn, Rest, SameLists
<1>6. /\ e.priority_open = d.priority_open /\ e.open = d.open /\ e.half_closed = d.half_closed
      /\ e.send_body = d.send_body /\ e.streaming = m /\ e.tunnel = t
      /\ e.blocked = d.blocked
    BY DEF Conn
<1>7. Counted(d, e, d.s[i], q)
  <2> HIDE DEF e, q
  <2>1. /\ d.priority_open \in Int /\ d.open \in Int /\ d.half_closed \in Int /\ d.send_body \in Int
        /\ d.blocked \in Int /\ d.streaming \in Int /\ d.tunnel \in Int
      BY DEF Conn
  <2> QED BY <1>0, <1>2, <1>6, <2>1 DEF Counted, m, t, InIdle, InOpen, InHalfClosed, InSendBody, InBlocked, InStreaming, InTunnel, Ind
<1>8. Only(d, e, i, q)
    BY <1>2, <1>4, <1>5, <1>7 DEF Only, Moved
<1> HIDE DEF e, q
<1>9. e \in Conn /\ e.s[i] = q
    BY <1>8, OnlyAt
<1>10. r \in Stream /\ r.st = q.st /\ r.blocked = q.blocked /\ r.streamed = q.streamed
       /\ r.body = q.body /\ r.tunnel = q.tunnel
    BY <1>2 DEF Stream
<1>11. f = [e EXCEPT !.s[i] = r]
    BY <1>9
<1> HIDE DEF f, q
<1>12. Only(e, f, i, r)
    BY <1>9, <1>10, <1>11, PutOnly
<1>13. r = [d.s[i] EXCEPT !.streamed = TRUE, !.called = TRUE, !.turn = TRUE]
    BY <1>0 DEF q, Stream
<1> QED BY <1>1, <1>8, <1>12, <1>13, OnlyAgain

(* process_request of a request that was received in full *)
LEMMA WholeFacts ==
  ASSUME NEW d \in Conn, NEW i \in Ids, ~d.s[i].proceed, ~d.s[i].called, d.s[i].st = REQ_PENDING
  PROVE  Only(d, process_request(d, i), i,
              [d.s[i] EXCEPT !.st = SEND_HEADERS, !.called = TRUE, !.turn = TRUE])
<1> DEFINE e == set_state(d, i, REQ_PENDING)
           f == set_state(e, i, SEND_HEADERS)
           g == [f EXCEPT !.s[i] = [@ EXCEPT !.called = TRUE, !.turn = TRUE]]
           p == [d.s[i] EXCEPT !.st = REQ_PENDING]
           q == [p EXCEPT !.st = SEND_HEADERS]
           r == [q EXCEPT !.called = TRUE, !.turn = TRUE]
<1>0. d.s[i] \in Stream
    BY DEF Conn
<1>1. Only(d, e, i, p)
  <2>1. Follows(d.s[i].st, REQ_PENDING) /\ REQ_PENDING \in RECV_HEADERS .. SEND_BODY_IS_FINAL
      BY DEF Follows
  <2> QED BY <2>1, StateFacts
<1>2. e \in Conn /\ e.s[i] = p /\ p.st = REQ_PENDING
    BY <1>0, <1>1, OnlyAt DEF Stream
<1> HIDE DEF e, p
<1>3. Only(e, f, i, q)
  <2>1. Follows(e.s[i].st, SEND_HEADERS) /\ SEND_HEADERS \in RECV_HEADERS .. SEND_BODY_IS_FINAL
      BY <1>2 DEF Follows
  <2> QED BY <1>2, <2>1, StateFacts
<1>4. f \in Conn /\ f.s[i] = q /\ q \in Stream
    BY <1>2, <1>3, OnlyAt
<1>5. process_request(d, i) = g
  <2>1. d.s[i].st < SEND_HEADERS
      OBVIOUS
  <2>2. process_request(d, i) = Check(g, ~d.s[i].called, "process_called")
      BY <2>1, Zenon DEF process_request, e
  <2> HIDE DEF g
  <2> QED BY <2>2, CheckTrue
<1> HIDE DEF f, q
<1>6. r \in Stream /\ r.st = q.st /\ r.blocked = q.blocked /\ r.streamed = q.streamed
       /\ r.body = q.body /\ r.tunnel = q.tunnel
    BY <1>4 DEF Stream
<1>7. g = [f EXCEPT !.s[i] = r]
    BY <1>4
<1> HIDE DEF g
<1>8. Only(f, g, i, r)
    BY <1>4, <1>6, <1>7, PutOnly
<1>9. r = [d.s[i] EXCEPT !.st = SEND_HEADERS, !.called = TRUE, !.turn = TRUE]
    BY <1>0 DEF q, p, Stream
<1>10. Only(d, f, i, q)
    BY <1>1, <1>3, OnlyAgain
<1> QED BY <1>5, <1>8, <1>9, <1>10, OnlyAgain

(* vhttp_http2_stream_open *)
LEMMA OpenFacts ==
  ASSUME NEW d \in Conn, NEW i \in Ids, NEW window \in BOOLEAN,
         d.s[i].st = ABSENT, ~d.s[i].blocked, ~d.s[i].streamed
  PROVE  Only(d, vhttp_http2_stream_open(d, i, window), i, [NoStream EXCEPT !.st = IDLE, !.window = window])
<1> DEFINE q == [NoStream EXCEPT !.st = IDLE, !.window = window]
           p == d.priority_open + 1
           e == [d EXCEPT !.s[i] = q, !.priority_open = p]
<1>0. d.s[i] \in Stream /\ p \in Int
    BY DEF Conn
<1>1. vhttp_http2_stream_open(d, i, window) = e
    BY DEF vhttp_http2_stream_open
<1>2. q \in Stream /\ q.st = IDLE /\ q.streamed = FALSE /\ q.blocked = FALSE
  <2>1. NoStream \in Stream /\ NoStream.streamed = FALSE /\ NoStream.blocked = FALSE
      BY DEF Stream, NoStream
  <2> DEFINE x == [NoStream EXCEPT !.st = IDLE]
  <2>2. x \in Stream /\ x.st = IDLE /\ x.streamed = FALSE /\ x.blocked = FALSE
      BY <2>1 DEF Stream
  <2> HIDE DEF x
  <2>3. LET y == [x EXCEPT !.window = window]
        IN  y \in Stream /\ y.st = x.st /\ y.streamed = x.streamed /\ y.blocked = x.blocked
      BY <2>2 DEF Stream
  <2> QED BY <2>2, <2>3 DEF x
<1> HIDE DEF p, q
<1>3. [d.s EXCEPT ![i] = q] \in [Ids -> Stream]
    BY <1>2 DEF Conn
<1>4. e.s = [d.s EXCEPT ![i] = q]
    BY DEF Conn
<1>5. e \in Conn /\ Rest(d, e) /\ SameLists(d, e) /\ e.fail = d.fail
    BY <1>0, <1>3 DEF Conn, Rest, SameLists
<1>6. /\ e.priority_open = p /\ e.open = d.open /\ e.half_closed = d.half_closed
      /\ e.send_body = d.send_body /\ e.streaming = d.streaming /\ e.tunnel = d.tunnel
      /\ e.blocked = d.blocked
    BY DEF Conn
<1>7. Counted(d, e, d.s[i], q)
  <2> HIDE DEF e
  <2>1. /\ d.priority_open \in Int /\ d.open \in Int /\ d.half_closed \in Int /\ d.send_body \in Int
        /\ d.blocked \in Int /\ d.streaming \in Int /\ d.tunnel \in Int
      BY DEF Conn
  <2> QED BY <1>0, <1>2, <1>6, <2>1 DEF Counted, p, InIdle, InOpen, InHalfClosed, InSendBody, InBlocked, InStreaming, InTunnel, Ind
<1> QED BY <1>1, <1>2, <1>4, <1>5, <1>7 DEF Only, Moved, q

(* The list that a stream is on *)
Places == {"none", "pending", "to_proceed", "early"}

Place(d, i, place) ==
    /\ i \in Elements(d.pending) <=> place = "pending"
    /\ i \in Elements(d.to_proceed) <=> place = "to_proceed"
    /\ i \in Elements(d.early) <=> place = "early"

ListsOK(d) == Distinct(d.pending) /\ Distinct(d.to_proceed) /\ Distinct(d.early)

SameOthers(d, e, i) ==
    \A j \in Ids \ {i} :
        /\ j \in Elements(e.pending) <=> j \in Elements(d.pending)
        /\ j \in Elements(e.to_proceed) <=> j \in Elements(d.to_proceed)
        /\ j \in Elements(e.early) <=> j \in Elements(d.early)

(* Stream i of d has become q in e, where it is on the list place. *)
Step(d, e, i, q, place) ==
    /\ Moved(d, e, i, q) /\ e.fail = d.fail
    /\ ListsOK(e) /\ Place(e, i, place) /\ SameOthers(d, e, i)

LEMMA OnlyStep ==
  ASSUME NEW d \in Conn, NEW e, NEW i \in Ids, NEW q, NEW place, ListsOK(d), Place(d, i, place), Only(d, e, i, q)
  PROVE  Step(d, e, i, q, place)
BY DEF Only, Step, SameLists, ListsOK, Place, SameOthers

LEMMA StepAt ==
  ASSUME NEW d \in Conn, NEW e, NEW i \in Ids, NEW q, NEW place, Step(d, e, i, q, place)
  PROVE  /\ e \in Conn /\ e.s[i] = q /\ q \in Stream /\ ListsOK(e) /\ Place(e, i, place)
         /\ e.state = d.state /\ e.features = d.features /\ e.max_open = d.max_open
         /\ e.delay = d.delay /\ e.early_data = d.early_data /\ e.fail = d.fail
BY DEF Step, Moved, Conn, Rest

LEMMA StepAgain ==
  ASSUME NEW d \in Conn, NEW e, NEW f, NEW i \in Ids, NEW q, NEW r, NEW place, NEW place2,
         Step(d, e, i, q, place), Step(e, f, i, r, place2)
  PROVE  Step(d, f, i, r, place2)
<1>1. e.s[i] = q /\ e \in Conn
    BY StepAt
<1>2. f.s = [d.s EXCEPT ![i] = r]
    BY DEF Step, Moved, Conn
<1>3. Counted(d, e, d.s[i], q) /\ Counted(e, f, q, r)
    BY <1>1 DEF Step, Moved
<1>4. Counted(d, f, d.s[i], r)
    BY <1>1, <1>3, CountedAgain
<1>5. SameOthers(d, f, i)
    BY DEF Step, SameOthers
<1>6. Rest(d, f) /\ f \in Conn /\ r \in Stream /\ f.fail = d.fail /\ ListsOK(f) /\ Place(f, i, place2)
    BY DEF Step, Moved, Rest
<1> QED BY <1>2, <1>4, <1>5, <1>6 DEF Step, Moved

(* Most of what happens to a stream leaves the lists alone. *)
LEMMA StepOnly ==
  ASSUME NEW d \in Conn, NEW e, NEW f, NEW i \in Ids, NEW q, NEW r, NEW place,
         Step(d, e, i, q, place), Only(e, f, i, r)
  PROVE  Step(d, f, i, r, place)
BY StepAt, OnlyStep, StepAgain

(* A stream, and the lists of the connection, replaced at once. *)
LEMMA ListStep ==
  ASSUME NEW d \in Conn, NEW i \in Ids, NEW place, NEW e, NEW pending \in Seq(Ids), NEW to_proceed \in Seq(Ids),
         NEW early \in Seq(Ids),
         e = [d EXCEPT !.pending = pending, !.to_proceed = to_proceed, !.early = early],
         ListsOK(e), Place(e, i, place), SameOthers(d, e, i)
  PROVE  Step(d, e, i, d.s[i], place)
<1>1. e \in Conn /\ Rest(d, e) /\ e.fail = d.fail /\ e.s = d.s
    BY DEF Conn, Rest
<1>2. /\ e.priority_open = d.priority_open /\ e.open = d.open /\ e.half_closed = d.half_closed
      /\ e.send_body = d.send_body /\ e.streaming = d.streaming /\ e.tunnel = d.tunnel
      /\ e.blocked = d.blocked
    BY DEF Conn
<1>3. d.s[i] \in Stream /\ Counted(d, d, d.s[i], d.s[i]) /\ d.s = [d.s EXCEPT ![i] = d.s[i]]
    BY OnlySame DEF Only, Moved
<1>4. Counted(d, e, d.s[i], d.s[i])
    BY <1>2, <1>3 DEF Counted
<1> QED BY <1>1, <1>3, <1>4 DEF Step, Moved

LEMMA UnlinkFacts ==
  ASSUME NEW d \in Conn, NEW i \in Ids, ListsOK(d)
  PROVE  Step(d, Unlink(d, i), i, d.s[i], "none")
<1> DEFINE p == Without(d.pending, {i})
           t == Without(d.to_proceed, {i})
           y == Without(d.early, {i})
           e == [d EXCEPT !.pending = p, !.to_proceed = t, !.early = y]
<1>1. d.pending \in Seq(Ids) /\ d.to_proceed \in Seq(Ids) /\ d.early \in Seq(Ids)
    BY DEF Conn
<1>2. p \in Seq(Ids) /\ Distinct(p) /\ Elements(p) = Elements(d.pending) \ {i}
    BY <1>1, WithoutFacts DEF ListsOK
<1>3. t \in Seq(Ids) /\ Distinct(t) /\ Elements(t) = Elements(d.to_proceed) \ {i}
    BY <1>1, WithoutFacts DEF ListsOK
<1>4. y \in Seq(Ids) /\ Distinct(y) /\ Elements(y) = Elements(d.early) \ {i}
    BY <1>1, WithoutFacts DEF ListsOK
<1>5. Unlink(d, i) = e
    BY DEF Unlink
<1> HIDE DEF p, t, y
<1>6. e.pending = p /\ e.to_proceed = t /\ e.early = y
    BY DEF Conn
<1> HIDE DEF e
<1>7. ListsOK(e) /\ Place(e, i, "none") /\ SameOthers(d, e, i)
    BY <1>2, <1>3, <1>4, <1>6 DEF ListsOK, Place, SameOthers
<1> QED BY <1>2, <1>3, <1>4, <1>5, <1>7, ListStep DEF e

LEMMA NotLinked ==
  ASSUME NEW d, NEW i, NEW place \in Places, Place(d, i, place)
  PROVE  Linked(d, i) <=> place # "none"
BY DEF Linked, Place, Places

(* The three ways to be linked *)
ToPending(d, i) == [d EXCEPT !.pending = Append(@, i)]
ToProceed(d, i) == [d EXCEPT !.to_proceed = Append(@, i)]
ToEarly(d, i) == [d EXCEPT !.early = Append(@, i)]

LEMMA AppendStep ==
  ASSUME NEW d \in Conn, NEW i \in Ids, ListsOK(d), Place(d, i, "none")
  PROVE  /\ Step(d, ToPending(d, i), i, d.s[i], "pending")
         /\ Step(d, ToProceed(d, i), i, d.s[i], "to_proceed")
         /\ Step(d, ToEarly(d, i), i, d.s[i], "early")
<1>1. d.pending \in Seq(Ids) /\ d.to_proceed \in Seq(Ids) /\ d.early \in Seq(Ids)
    BY DEF Conn
<1>2. i \notin Elements(d.pending) /\ i \notin Elements(d.to_proceed) /\ i \notin Elements(d.early)
    BY DEF Place
<1>3. Step(d, ToPending(d, i), i, d.s[i], "pending")
  <2> DEFINE p == Append(d.pending, i)
             e == [d EXCEPT !.pending = p, !.to_proceed = d.to_proceed, !.early = d.early]
  <2>1. p \in Seq(Ids) /\ Distinct(p) /\ Elements(p) = Elements(d.pending) \cup {i}
      BY <1>1, <1>2, AppendFacts DEF ListsOK
  <2> HIDE DEF p
  <2>2. ToPending(d, i) = e
      BY DEF ToPending, Conn, p
  <2>3. e.pending = p /\ e.to_proceed = d.to_proceed /\ e.early = d.early
      BY DEF Conn
  <2> HIDE DEF e
  <2>4. ListsOK(e) /\ Place(e, i, "pending") /\ SameOthers(d, e, i)
      BY <1>2, <2>1, <2>3 DEF ListsOK, Place, SameOthers
  <2> QED BY <1>1, <2>1, <2>2, <2>4, ListStep DEF e
<1>4. Step(d, ToProceed(d, i), i, d.s[i], "to_proceed")
  <2> DEFINE p == Append(d.to_proceed, i)
             e == [d EXCEPT !.pending = d.pending, !.to_proceed = p, !.early = d.early]
  <2>1. p \in Seq(Ids) /\ Distinct(p) /\ Elements(p) = Elements(d.to_proceed) \cup {i}
      BY <1>1, <1>2, AppendFacts DEF ListsOK
  <2> HIDE DEF p
  <2>2. ToProceed(d, i) = e
      BY DEF ToProceed, Conn, p
  <2>3. e.pending = d.pending /\ e.to_proceed = p /\ e.early = d.early
      BY DEF Conn
  <2> HIDE DEF e
  <2>4. ListsOK(e) /\ Place(e, i, "to_proceed") /\ SameOthers(d, e, i)
      BY <1>2, <2>1, <2>3 DEF ListsOK, Place, SameOthers
  <2> QED BY <1>1, <2>1, <2>2, <2>4, ListStep DEF e
<1>5. Step(d, ToEarly(d, i), i, d.s[i], "early")
  <2> DEFINE p == Append(d.early, i)
             e == [d EXCEPT !.pending = d.pending, !.to_proceed = d.to_proceed, !.early = p]
  <2>1. p \in Seq(Ids) /\ Distinct(p) /\ Elements(p) = Elements(d.early) \cup {i}
      BY <1>1, <1>2, AppendFacts DEF ListsOK
  <2> HIDE DEF p
  <2>2. ToEarly(d, i) = e
      BY DEF ToEarly, Conn, p
  <2>3. e.pending = d.pending /\ e.to_proceed = d.to_proceed /\ e.early = p
      BY DEF Conn
  <2> HIDE DEF e
  <2>4. ListsOK(e) /\ Place(e, i, "early") /\ SameOthers(d, e, i)
      BY <1>2, <2>1, <2>3 DEF ListsOK, Place, SameOthers
  <2> QED BY <1>1, <2>1, <2>2, <2>4, ListStep DEF e
<1> QED BY <1>3, <1>4, <1>5

LEMMA InsertFacts ==
  ASSUME NEW d \in Conn, NEW i \in Ids, ListsOK(d), Place(d, i, "none")
  PROVE  /\ InsertToProceed(d, i) = ToProceed(d, i)
         /\ Step(d, InsertToProceed(d, i), i, d.s[i], "to_proceed")
<1>1. ~Linked(d, i)
    BY NotLinked DEF Places
<1>2. InsertToProceed(d, i) = Check(ToProceed(d, i), ~Linked(d, i), "linked twice")
    BY DEF InsertToProceed, ToProceed
<1>3. InsertToProceed(d, i) = ToProceed(d, i)
    BY <1>1, <1>2, CheckTrue, Zenon
<1> QED BY <1>3, AppendStep

(* vhttp_http2_stream_close of a stream q on the list place: what its         *)
(* assertions ask for, and that a body that was streamed has a state.        *)
Closable(q, place) ==
    /\ q.st # ABSENT
    /\ q.st \in {IDLE, RECV_HEADERS} => place = "none"
    /\ q.st = REQ_PENDING => place # "none"
    /\ q.streamed => q.body # NONE

LEMMA StopFacts ==
  ASSUME NEW d \in Conn, NEW i \in Ids, d.s[i].streamed => d.s[i].body # NONE
  PROVE  \E q : /\ Only(d, StopStream(d, i), i, q)
                /\ q.st = d.s[i].st /\ ~q.blocked /\ ~(q.streamed /\ q.body < CLOSE_DELIVERED)
                /\ q.reset_by_peer = d.s[i].reset_by_peer
<1> DEFINE p == [d.s[i] EXCEPT !.active = FALSE, !.proceed = FALSE]
           e == [d EXCEPT !.s[i] = p]
           Open == d.s[i].body \in BEFORE_FIRST_FRAME .. CLOSE_QUEUED
           f == IF Open THEN set_req_body_state(e, i, CLOSE_DELIVERED) ELSE e
           r == IF Open THEN [p EXCEPT !.body = CLOSE_DELIVERED] ELSE p
           q == [r EXCEPT !.blocked = FALSE]
<1>0. d.s[i] \in Stream
    BY DEF Conn
<1>1. p \in Stream /\ p.st = d.s[i].st /\ p.blocked = d.s[i].blocked /\ p.streamed = d.s[i].streamed
      /\ p.body = d.s[i].body /\ p.tunnel = d.s[i].tunnel /\ p.proceed = FALSE
      /\ p.reset_by_peer = d.s[i].reset_by_peer
    BY <1>0 DEF Stream
<1> HIDE DEF p
<1>2. Only(d, e, i, p)
    BY <1>1, PutOnly
<1>3. StopStream(d, i) = Unblock(f, i)
    BY Zenon DEF StopStream, p
<1> HIDE DEF e
<1>4. e \in Conn /\ e.s[i] = p
    BY <1>2, OnlyAt
<1>5. Only(e, f, i, r)
  <2>1. CASE Open
    <3>1. e.s[i].body < CLOSE_DELIVERED /\ ~e.s[i].proceed /\ CLOSE_DELIVERED \in BEFORE_FIRST_FRAME .. CLOSE_DELIVERED
        BY <1>1, <1>4, <2>1
    <3>2. Only(e, set_req_body_state(e, i, CLOSE_DELIVERED), i, [p EXCEPT !.body = CLOSE_DELIVERED])
        BY <1>4, <3>1, BodyFacts
    <3> QED BY <2>1, <3>2
  <2>2. CASE ~Open
      BY <1>4, <2>2, OnlySame
  <2> QED BY <2>1, <2>2
<1>6. r \in Stream /\ r.st = p.st /\ r.streamed = p.streamed /\ r.reset_by_peer = p.reset_by_peer
      /\ ~(r.streamed /\ r.body < CLOSE_DELIVERED)
  <2>1. CASE Open
    <3>1. r = [p EXCEPT !.body = CLOSE_DELIVERED]
        BY <2>1
    <3> QED BY <1>1, <3>1 DEF Stream
  <2>2. CASE ~Open
    <3>1. r = p
        BY <2>2
    <3> QED BY <1>0, <1>1, <2>2, <3>1 DEF Stream
  <2> QED BY <2>1, <2>2
<1> HIDE DEF r, f
<1>7. f \in Conn /\ f.s[i] = r
    BY <1>4, <1>5, OnlyAt
<1>8. Only(f, StopStream(d, i), i, q)
    BY <1>3, <1>7, UnblockFacts
<1>9. q.st = r.st /\ ~q.blocked /\ q.streamed = r.streamed /\ q.body = r.body /\ q.reset_by_peer = r.reset_by_peer
    BY <1>6 DEF Stream
<1>10. Only(d, f, i, r)
    BY <1>2, <1>5, OnlyAgain
<1>11. Only(d, StopStream(d, i), i, q)
    BY <1>8, <1>10, OnlyAgain
<1> HIDE DEF q
<1> QED BY <1>1, <1>6, <1>9, <1>11

(* The stream of which nothing is counted any more is freed. *)
LEMMA FreeFacts ==
  ASSUME NEW d \in Conn, NEW i \in Ids, NEW budget \in 0 .. MaxConcurrent, ListsOK(d),
         d.s[i].st = END_STREAM, ~d.s[i].blocked, ~(d.s[i].streamed /\ d.s[i].body < CLOSE_DELIVERED)
  PROVE  Step(d, [Unlink(d, i) EXCEPT !.s[i] = NoStream, !.budget = budget], i, NoStream, "none")
<1> DEFINE e == Unlink(d, i)
           f == [e EXCEPT !.s[i] = NoStream, !.budget = budget]
<1>1. Step(d, e, i, d.s[i], "none")
    BY UnlinkFacts
<1> HIDE DEF e
<1>2. e \in Conn /\ e.s[i] = d.s[i] /\ ListsOK(e) /\ Place(e, i, "none")
    BY <1>1, StepAt
<1>3. NoStream \in Stream /\ NoStream.st = ABSENT /\ NoStream.blocked = FALSE /\ NoStream.streamed = FALSE
    BY DEF NoStream, Stream
<1>4. [e.s EXCEPT ![i] = NoStream] \in [Ids -> Stream]
    BY <1>2, <1>3 DEF Conn
<1>5. f \in Conn /\ Rest(e, f) /\ SameLists(e, f) /\ f.fail = e.fail /\ f.s = [e.s EXCEPT ![i] = NoStream]
    BY <1>2, <1>4 DEF Conn, Rest, SameLists
<1>6. /\ f.priority_open = e.priority_open /\ f.open = e.open /\ f.half_closed = e.half_closed
      /\ f.send_body = e.send_body /\ f.streaming = e.streaming /\ f.tunnel = e.tunnel
      /\ f.blocked = e.blocked
    BY <1>2 DEF Conn
<1>7. Counted(e, f, e.s[i], NoStream)
  <2> HIDE DEF f
  <2>1. /\ e.priority_open \in Int /\ e.open \in Int /\ e.half_closed \in Int /\ e.send_body \in Int
        /\ e.blocked \in Int /\ e.streaming \in Int /\ e.tunnel \in Int
      BY <1>2 DEF Conn
  <2> QED BY <1>2, <1>3, <1>6, <2>1 DEF Counted, InIdle, InOpen, InHalfClosed, InSendBody, InBlocked, InStreaming, InTunnel, Ind
<1>8. Only(e, f, i, NoStream)
    BY <1>3, <1>5, <1>7 DEF Only, Moved
<1> HIDE DEF f
<1>9. Step(d, f, i, NoStream, "none")
    BY <1>1, <1>8, StepOnly
<1> QED BY <1>9 DEF f, e

LEMMA CloseFacts ==
  ASSUME NEW d \in Conn, NEW i \in Ids, NEW place \in Places, ListsOK(d), Place(d, i, place),
         Closable(d.s[i], place)
  PROVE  \E l : Step(d, l, i, NoStream, "none") /\ stream_close(d, i) = RunUnlessClosing(l)
<1> DEFINE e == StopStream(d, i)
           l == Unregister(e, i)
           f == IF e.s[i].st # END_STREAM THEN EndStream(e, i) ELSE e
           Ok == CASE e.s[i].st \in {IDLE, RECV_HEADERS} -> ~Linked(e, i)
                   [] e.s[i].st = REQ_PENDING -> Linked(e, i)
                   [] OTHER -> TRUE
           g == [Unlink(f, i) EXCEPT !.s[i] = NoStream, !.budget = Budget(e, i)]
<1>1. stream_close(d, i) = RunUnlessClosing(l)
    BY DEF stream_close
<1>2. PICK q : /\ Only(d, e, i, q)
               /\ q.st = d.s[i].st /\ ~q.blocked /\ ~(q.streamed /\ q.body < CLOSE_DELIVERED)
               /\ q.reset_by_peer = d.s[i].reset_by_peer
    BY StopFacts DEF Closable
<1>3. l = Check(g, Ok, "linked")
    BY Zenon DEF Unregister
<1> HIDE DEF e
<1>4. e \in Conn /\ e.s[i] = q /\ q \in Stream
    BY <1>2, OnlyAt
<1>5. Step(d, e, i, q, place)
    BY <1>2, OnlyStep
<1>6. ListsOK(e) /\ Place(e, i, place)
    BY <1>5, StepAt
<1>7. Ok
  <2>1. Linked(e, i) <=> place # "none"
      BY <1>6, NotLinked
  <2> QED BY <1>2, <1>4, <2>1 DEF Closable
<1>8. l = g
  <2> HIDE DEF g, Ok
  <2> QED BY <1>3, <1>7, CheckTrue
<1>9. Budget(e, i) \in 0 .. MaxConcurrent
  <2>1. e.budget \in 0 .. MaxConcurrent /\ MaxConcurrent \in Nat \ {0}
      BY <1>4, H2StreamsAssumption DEF Conn
  <2> QED BY <2>1 DEF Budget
<1>10. \E r : /\ Only(e, f, i, r) /\ r.st = END_STREAM /\ ~r.blocked
              /\ ~(r.streamed /\ r.body < CLOSE_DELIVERED)
  <2>1. CASE q.st = END_STREAM
    <3>1. f = e
        BY <1>4, <2>1
    <3>2. Only(e, e, i, q)
        BY <1>4, OnlySame
    <3> QED BY <1>2, <2>1, <3>1, <3>2
  <2>2. CASE q.st # END_STREAM
    <3> DEFINE r == [q EXCEPT !.st = END_STREAM, !.blocked = FALSE]
    <3>1. f = EndStream(e, i)
        BY <1>4, <2>2
    <3>2. e.s[i].st \in IDLE .. SEND_BODY_IS_FINAL
        BY <1>2, <1>4, <2>2 DEF Closable, Stream
    <3>3. Only(e, f, i, r)
        BY <1>4, <3>1, <3>2, EndFacts
    <3>4. r.st = END_STREAM /\ ~r.blocked /\ r.streamed = q.streamed /\ r.body = q.body
        BY <1>4 DEF Stream
    <3> HIDE DEF r
    <3> QED BY <1>2, <3>3, <3>4
  <2> QED BY <2>1, <2>2
<1>11. PICK r : /\ Only(e, f, i, r) /\ r.st = END_STREAM /\ ~r.blocked
                /\ ~(r.streamed /\ r.body < CLOSE_DELIVERED)
    BY <1>10
<1> HIDE DEF f
<1>12. Step(d, f, i, r, place)
    BY <1>5, <1>11, StepOnly
<1>13. f \in Conn /\ f.s[i] = r /\ ListsOK(f)
    BY <1>12, StepAt
<1>14. Step(f, g, i, NoStream, "none")
    BY <1>9, <1>11, <1>13, FreeFacts
<1>15. Step(d, g, i, NoStream, "none")
    BY <1>12, <1>14, StepAgain
<1> QED BY <1>1, <1>8, <1>15

(* vhttp_http2_stream_reset of a stream that has been given to a handler and  *)
(* that a list refers to                                                      *)
Ended(q) ==
    [q EXCEPT !.st = END_STREAM, !.blocked = IF q.st = END_STREAM THEN q.blocked ELSE FALSE, !.data = FALSE]

LEMMA EndedFields ==
  ASSUME NEW q \in Stream
  PROVE  LET r == Ended(q) IN
         /\ r.st = END_STREAM /\ r.data = FALSE /\ r.blocked = IF q.st = END_STREAM THEN q.blocked ELSE FALSE
         /\ r.body = q.body /\ r.proceed = q.proceed /\ r.streamed = q.streamed /\ r.tunnel = q.tunnel
         /\ r.write = q.write /\ r.entity = q.entity /\ r.more = q.more /\ r.busy = q.busy
         /\ r.called = q.called /\ r.turn = q.turn /\ r.active = q.active /\ r.window = q.window
         /\ r.done = q.done /\ r.reset_by_peer = q.reset_by_peer
BY DEF Ended, Stream

LEMMA ResetFacts ==
  ASSUME NEW d \in Conn, NEW i \in Ids, NEW place \in Places, ListsOK(d), Place(d, i, place),
         Closable(d.s[i], place)
  PROVE  /\ d.s[i].st <= REQ_PENDING \/ place = "none" =>
               \E l : Step(d, l, i, NoStream, "none") /\ stream_reset(d, i) = RunUnlessClosing(l)
         /\ d.s[i].st > REQ_PENDING /\ place # "none" =>
               Step(d, stream_reset(d, i), i, Ended(d.s[i]), place)
<1> DEFINE q == d.s[i]
           e == IF q.st = END_STREAM THEN d ELSE EndStream(d, i)
           p == IF q.st = END_STREAM THEN q ELSE [q EXCEPT !.st = END_STREAM, !.blocked = FALSE]
           f == [e EXCEPT !.s[i].data = FALSE]
           r == [p EXCEPT !.data = FALSE]
<1>1. q \in Stream /\ q.st \in IDLE .. END_STREAM
    BY DEF Conn, Stream, Closable
<1>2. CASE q.st <= REQ_PENDING
  <2>1. stream_reset(d, i) = stream_close(d, i)
      BY <1>2 DEF stream_reset
  <2> QED BY <1>1, <1>2, <2>1, CloseFacts
<1>3. CASE q.st > REQ_PENDING
  <2>1. stream_reset(d, i) = IF Linked(f, i) THEN f ELSE stream_close(f, i)
    <3>1. ~(d.s[i].st <= REQ_PENDING)
        BY <1>1, <1>3
    <3> QED BY <3>1, Zenon DEF stream_reset
  <2>2. Only(d, e, i, p) /\ p.st = END_STREAM /\ p.streamed = q.streamed /\ p.body = q.body
        /\ p.blocked = (IF q.st = END_STREAM THEN q.blocked ELSE FALSE)
    <3>1. CASE q.st = END_STREAM
        BY <3>1, OnlySame
    <3>2. CASE q.st # END_STREAM
      <4>1. d.s[i].st \in IDLE .. SEND_BODY_IS_FINAL
          BY <1>1, <3>2
      <4>2. Only(d, e, i, p)
          BY <3>2, <4>1, EndFacts
      <4>3. p = [q EXCEPT !.st = END_STREAM, !.blocked = FALSE]
          BY <3>2
      <4> QED BY <1>1, <3>2, <4>2, <4>3 DEF Stream
    <3> QED BY <3>1, <3>2
  <2>3. Ended(q) = r
    <3>1. CASE q.st = END_STREAM
        BY <1>1, <3>1 DEF Stream, Ended
    <3>2. CASE q.st # END_STREAM
        BY <1>1, <3>2 DEF Stream, Ended
    <3> QED BY <3>1, <3>2
  <2> HIDE DEF e, p
  <2>4. e \in Conn /\ e.s[i] = p /\ p \in Stream
      BY <2>2, OnlyAt
  <2>5. r \in Stream /\ r.st = p.st /\ r.blocked = p.blocked /\ r.streamed = p.streamed /\ r.body = p.body
        /\ r.tunnel = p.tunnel
      BY <2>4 DEF Stream
  <2>6. f = [e EXCEPT !.s[i] = r]
      BY <2>4
  <2> HIDE DEF r, f
  <2>7. Only(e, f, i, r)
      BY <2>4, <2>5, <2>6, PutOnly
  <2>8. Only(d, f, i, r)
      BY <2>2, <2>7, OnlyAgain
  <2>9. Step(d, f, i, r, place)
      BY <2>8, OnlyStep
  <2>10. f \in Conn /\ f.s[i] = r /\ ListsOK(f) /\ Place(f, i, place)
      BY <2>9, StepAt
  <2>11. CASE place # "none"
    <3>1. Linked(f, i)
        BY <2>10, <2>11, NotLinked
    <3> QED BY <1>1, <1>3, <2>1, <2>3, <2>9, <2>11, <3>1
  <2>12. CASE place = "none"
    <3>1. ~Linked(f, i)
        BY <2>10, <2>12, NotLinked
    <3>2. Closable(f.s[i], place)
        BY <2>2, <2>5, <2>10 DEF Closable
    <3>3. PICK l : Step(f, l, i, NoStream, "none") /\ stream_close(f, i) = RunUnlessClosing(l)
        BY <2>10, <3>2, CloseFacts
    <3>4. Step(d, l, i, NoStream, "none")
        BY <2>9, <3>3, StepAgain
    <3> QED BY <1>1, <1>3, <2>1, <2>12, <3>1, <3>3, <3>4
  <2> QED BY <2>11, <2>12
<1> QED BY <1>1, <1>2, <1>3

-----------------------------------------------------------------------------
(* The invariant of a stream r = d.s[i] on the list place. *)

(* A stream whose header block is not complete has nothing but its window. *)
FreshOK(r, place) ==
    r.st < RECV_BODY =>
        /\ r.body = NONE /\ r.write = "none" /\ r.entity = "null"
        /\ ~r.proceed /\ ~r.streamed /\ ~r.tunnel /\ ~r.more /\ ~r.busy /\ ~r.called
        /\ ~r.turn /\ ~r.active /\ ~r.data /\ ~r.done /\ ~r.blocked
        /\ place = "none"

(* The request body, and whether it is streamed to the handler. *)
BodyOK(d, r, place) ==
    /\ r.st = RECV_BODY =>
          \/ r.body \in {BEFORE_FIRST_FRAME, OPEN}
          \/ r.body = CLOSE_DELIVERED /\ r.streamed /\ d.state >= IS_CLOSING
    /\ r.st > RECV_BODY => r.body # BEFORE_FIRST_FRAME
    /\ r.st = REQ_PENDING => r.body \in {NONE, CLOSE_DELIVERED}
    /\ r.st = SEND_HEADERS => r.body # OPEN
    /\ r.proceed => r.body \in {OPEN, CLOSE_QUEUED}
    /\ r.body = CLOSE_QUEUED \/ (r.body = OPEN /\ r.st # RECV_BODY) => r.proceed /\ r.streamed
    /\ r.streamed => r.called /\ r.body \in OPEN .. CLOSE_DELIVERED
    /\ r.streamed /\ r.body # CLOSE_DELIVERED => r.proceed
    /\ r.st = RECV_BODY /\ r.called => r.streamed
    /\ r.proceed /\ ~r.called => place = "pending"

(* The queue of requests: what waits there has not been run. *)
QueueOK(r, place) ==
    /\ place = "pending" <=> \/ r.st = REQ_PENDING
                             \/ r.st = RECV_BODY /\ r.proceed /\ ~r.called
    /\ r.called => r.st # REQ_PENDING
    /\ r.st \in {SEND_HEADERS, SEND_BODY} => r.called

(* Whose turn it is to send: that of the handler, of the scheduler, or of a   *)
(* write that is to be completed.                                             *)
SendOK(d, r, place) ==
    /\ r.turn => r.called /\ ~r.done /\ ~r.data /\ r.st \notin {REQ_PENDING, SEND_BODY_IS_FINAL}
    /\ r.turn /\ r.st # END_STREAM => place = "none"
    /\ r.done => r.st \in {SEND_BODY_IS_FINAL, END_STREAM}
    /\ r.st = SEND_BODY_IS_FINAL => r.done
    /\ r.data => r.st \in {SEND_BODY, SEND_BODY_IS_FINAL}
    /\ r.data \/ r.st = SEND_BODY_IS_FINAL => place = "none"
    /\ r.active => r.data \/ r.st = SEND_BODY_IS_FINAL
    /\ r.window /\ (r.data \/ r.st = SEND_BODY_IS_FINAL) => r.active
    /\ place = "to_proceed" => r.st \in {SEND_BODY, END_STREAM}
    /\ place = "early" => /\ r.st \in {RECV_BODY, SEND_HEADERS, END_STREAM}
                          /\ r.called /\ ~r.done /\ ~r.turn /\ "tooearly" \in d.features

(* What of the body is with the handler (entity), and what is still to be     *)
(* written to it (more).                                                      *)
WriteOK(d, r) ==
    /\ r.write # "none" => r.streamed
    /\ r.write = "none" => ~r.more /\ ~r.busy
    /\ r.write = "open" => r.proceed /\ (r.busy <=> r.entity # "null") /\ (r.more => r.busy)
    /\ r.write = "dead" => ~r.busy
    /\ r.body = CLOSE_QUEUED => r.entity # "null" /\ r.write # "none"
    /\ r.body = CLOSE_QUEUED /\ r.entity = "empty" => "early_end" \in d.features
    /\ r.body = OPEN /\ r.entity = "null" => r.write # "none"
    /\ r.body = OPEN /\ r.entity = "empty" => r.tunnel
    /\ r.tunnel => r.streamed

(* Requests that were received count as blocked by the server. *)
BlockedOK(d, r, place) ==
    /\ "tooearly" \notin d.features /\ d.state < IS_CLOSING
    /\ r.turn \/ place = "pending"
    /\ r.st # END_STREAM /\ r.body \in {NONE, CLOSE_QUEUED, CLOSE_DELIVERED}
    => r.blocked

(* What is left of a stream that has ended is known to somebody. *)
EndOK(d, r, place) ==
    d.features \cap {"unaccepted", "refused", "tooearly"} = {} /\ d.state < IS_CLOSING =>
       /\ r.st >= SEND_BODY /\ r.proceed => r.write = "open"
       /\ r.write = "dead" => r.body = CLOSE_DELIVERED
       /\ r.st = END_STREAM /\ place = "none" => r.proceed

RunOK(d, i, r, place) == r.called \/ place = "pending" => i <= d.max_open \/ r.tunnel

Good(d, i, r, place) ==
    /\ FreshOK(r, place) /\ BodyOK(d, r, place) /\ QueueOK(r, place) /\ SendOK(d, r, place) /\ WriteOK(d, r)
    /\ BlockedOK(d, r, place) /\ EndOK(d, r, place) /\ RunOK(d, i, r, place)
    /\ r.st # ABSENT => d.state # FREED

LEMMA NoStreamGood ==
  ASSUME NEW d, NEW i
  PROVE  Good(d, i, NoStream, "none") /\ NoStream \in Stream
<1>1. /\ NoStream.st = ABSENT /\ NoStream.body = NONE /\ NoStream.write = "none" /\ NoStream.entity = "null"
      /\ NoStream.proceed = FALSE /\ NoStream.streamed = FALSE /\ NoStream.tunnel = FALSE /\ NoStream.more = FALSE
      /\ NoStream.busy = FALSE /\ NoStream.called = FALSE /\ NoStream.turn = FALSE /\ NoStream.active = FALSE
      /\ NoStream.data = FALSE /\ NoStream.done = FALSE /\ NoStream.blocked = FALSE
      /\ NoStream \in Stream
    BY DEF NoStream, Stream
<1> QED BY <1>1 DEF Good, FreshOK, BodyOK, QueueOK, SendOK, WriteOK, BlockedOK, EndOK, RunOK

(* The counters are exact. *)
IdleSet(d) == {j \in Ids : d.s[j].st = IDLE}
OpenSet(d) == {j \in Ids : d.s[j].st \in RECV_HEADERS .. SEND_BODY_IS_FINAL}
HalfClosedSet(d) == {j \in Ids : d.s[j].st \in SEND_HEADERS .. SEND_BODY_IS_FINAL}
SendBodySet(d) == {j \in Ids : d.s[j].st \in SEND_BODY .. SEND_BODY_IS_FINAL}
BlockedSet(d) == {j \in Ids : d.s[j].blocked}
StreamingSet(d) == {j \in Ids : d.s[j].streamed /\ d.s[j].body < CLOSE_DELIVERED}
TunnelSet(d) == {j \in Ids : d.s[j].tunnel /\ d.s[j].streamed /\ d.s[j].body < CLOSE_DELIVERED}

Exact(d) ==
    /\ d.priority_open = Cardinality(IdleSet(d)) /\ d.open = Cardinality(OpenSet(d))
    /\ d.half_closed = Cardinality(HalfClosedSet(d)) /\ d.send_body = Cardinality(SendBodySet(d))
    /\ d.blocked = Cardinality(BlockedSet(d)) /\ d.streaming = Cardinality(StreamingSet(d))
    /\ d.tunnel = Cardinality(TunnelSet(d))

LEMMA IdsFinite == IsFiniteSet(Ids) /\ MaxId \in Nat
<1>1. MaxId \in Nat
    BY H2StreamsAssumption
<1> QED BY <1>1, FS_Interval DEF Ids

LEMMA ExactStep ==
  ASSUME NEW d \in Conn, NEW e, NEW i \in Ids, NEW q, NEW place, Step(d, e, i, q, place), Exact(d)
  PROVE  Exact(e)
<1>1. e.s[i] = q
    BY StepAt
<1>2. \A j \in Ids \ {i} : e.s[j] = d.s[j]
    BY DEF Step, Moved, Conn
<1>3. Counted(d, e, d.s[i], q)
    BY DEF Step, Moved
<1>4. e.priority_open = Cardinality(IdleSet(e))
  <2>1. /\ IdleSet(d) \in SUBSET Ids /\ IdleSet(e) \in SUBSET Ids
        /\ \A j \in Ids \ {i} : j \in IdleSet(d) <=> j \in IdleSet(e)
      BY <1>2 DEF IdleSet
  <2>2. Cardinality(IdleSet(e)) = Cardinality(IdleSet(d)) + Ind(i \in IdleSet(e)) - Ind(i \in IdleSet(d))
      BY <2>1, IdsFinite, OneChange
  <2>3. Ind(i \in IdleSet(e)) = InIdle(q) /\ Ind(i \in IdleSet(d)) = InIdle(d.s[i])
      BY <1>1 DEF IdleSet, InIdle, Ind
  <2> QED BY <1>3, <2>2, <2>3 DEF Counted, Exact
<1>5. e.open = Cardinality(OpenSet(e))
  <2>1. /\ OpenSet(d) \in SUBSET Ids /\ OpenSet(e) \in SUBSET Ids
        /\ \A j \in Ids \ {i} : j \in OpenSet(d) <=> j \in OpenSet(e)
      BY <1>2 DEF OpenSet
  <2>2. Cardinality(OpenSet(e)) = Cardinality(OpenSet(d)) + Ind(i \in OpenSet(e)) - Ind(i \in OpenSet(d))
      BY <2>1, IdsFinite, OneChange
  <2>3. Ind(i \in OpenSet(e)) = InOpen(q) /\ Ind(i \in OpenSet(d)) = InOpen(d.s[i])
      BY <1>1 DEF OpenSet, InOpen, Ind
  <2> QED BY <1>3, <2>2, <2>3 DEF Counted, Exact
<1>6. e.half_closed = Cardinality(HalfClosedSet(e))
  <2>1. /\ HalfClosedSet(d) \in SUBSET Ids /\ HalfClosedSet(e) \in SUBSET Ids
        /\ \A j \in Ids \ {i} : j \in HalfClosedSet(d) <=> j \in HalfClosedSet(e)
      BY <1>2 DEF HalfClosedSet
  <2>2. Cardinality(HalfClosedSet(e))
          = Cardinality(HalfClosedSet(d)) + Ind(i \in HalfClosedSet(e)) - Ind(i \in HalfClosedSet(d))
      BY <2>1, IdsFinite, OneChange
  <2>3. Ind(i \in HalfClosedSet(e)) = InHalfClosed(q) /\ Ind(i \in HalfClosedSet(d)) = InHalfClosed(d.s[i])
      BY <1>1 DEF HalfClosedSet, InHalfClosed, Ind
  <2> QED BY <1>3, <2>2, <2>3 DEF Counted, Exact
<1>7. e.send_body = Cardinality(SendBodySet(e))
  <2>1. /\ SendBodySet(d) \in SUBSET Ids /\ SendBodySet(e) \in SUBSET Ids
        /\ \A j \in Ids \ {i} : j \in SendBodySet(d) <=> j \in SendBodySet(e)
      BY <1>2 DEF SendBodySet
  <2>2. Cardinality(SendBodySet(e))
          = Cardinality(SendBodySet(d)) + Ind(i \in SendBodySet(e)) - Ind(i \in SendBodySet(d))
      BY <2>1, IdsFinite, OneChange
  <2>3. Ind(i \in SendBodySet(e)) = InSendBody(q) /\ Ind(i \in SendBodySet(d)) = InSendBody(d.s[i])
      BY <1>1 DEF SendBodySet, InSendBody, Ind
  <2> QED BY <1>3, <2>2, <2>3 DEF Counted, Exact
<1>8. e.blocked = Cardinality(BlockedSet(e))
  <2>1. /\ BlockedSet(d) \in SUBSET Ids /\ BlockedSet(e) \in SUBSET Ids
        /\ \A j \in Ids \ {i} : j \in BlockedSet(d) <=> j \in BlockedSet(e)
      BY <1>2 DEF BlockedSet
  <2>2. Cardinality(BlockedSet(e))
          = Cardinality(BlockedSet(d)) + Ind(i \in BlockedSet(e)) - Ind(i \in BlockedSet(d))
      BY <2>1, IdsFinite, OneChange
  <2>3. Ind(i \in BlockedSet(e)) = InBlocked(q) /\ Ind(i \in BlockedSet(d)) = InBlocked(d.s[i])
      BY <1>1 DEF BlockedSet, InBlocked, Ind
  <2> QED BY <1>3, <2>2, <2>3 DEF Counted, Exact
<1>9. e.streaming = Cardinality(StreamingSet(e))
  <2>1. /\ StreamingSet(d) \in SUBSET Ids /\ StreamingSet(e) \in SUBSET Ids
        /\ \A j \in Ids \ {i} : j \in StreamingSet(d) <=> j \in StreamingSet(e)
      BY <1>2 DEF StreamingSet
  <2>2. Cardinality(StreamingSet(e))
          = Cardinality(StreamingSet(d)) + Ind(i \in StreamingSet(e)) - Ind(i \in StreamingSet(d))
      BY <2>1, IdsFinite, OneChange
  <2>3. Ind(i \in StreamingSet(e)) = InStreaming(q) /\ Ind(i \in StreamingSet(d)) = InStreaming(d.s[i])
      BY <1>1 DEF StreamingSet, InStreaming, Ind
  <2> QED BY <1>3, <2>2, <2>3 DEF Counted, Exact
<1>10. e.tunnel = Cardinality(TunnelSet(e))
  <2>1. /\ TunnelSet(d) \in SUBSET Ids /\ TunnelSet(e) \in SUBSET Ids
        /\ \A j \in Ids \ {i} : j \in TunnelSet(d) <=> j \in TunnelSet(e)
      BY <1>2 DEF TunnelSet
  <2>2. Cardinality(TunnelSet(e))
          = Cardinality(TunnelSet(d)) + Ind(i \in TunnelSet(e)) - Ind(i \in TunnelSet(d))
      BY <2>1, IdsFinite, OneChange
  <2>3. Ind(i \in TunnelSet(e)) = InTunnel(q) /\ Ind(i \in TunnelSet(d)) = InTunnel(d.s[i])
      BY <1>1 DEF TunnelSet, InTunnel, Ind
  <2> QED BY <1>3, <2>2, <2>3 DEF Counted, Exact
<1> QED BY <1>4, <1>5, <1>6, <1>7, <1>8, <1>9, <1>10 DEF Exact

(* The invariant of the connection, but for who runs what is pending. *)
StreamsGood(d) == \A j \in Ids : \E place \in Places : Place(d, j, place) /\ Good(d, j, d.s[j], place)

(* What a scenario may make fail *)
Allowed(d) ==
    (IF "stop_sending" \in d.features THEN {"request_freed"} ELSE {})
    \cup (IF "early_end" \in d.features THEN {"written"} ELSE {})
    \cup (IF "late_trailers" \in d.features THEN {"headers twice"} ELSE {})

FailOK(d) == d.fail \subseteq Allowed(d)

ConnInv(d) == d \in Conn /\ ListsOK(d) /\ StreamsGood(d) /\ Exact(d) /\ FailOK(d)

Serves(r) == r.st >= SEND_HEADERS \/ r.streamed

Served(d) ==
    d.state < IS_CLOSING /\ Elements(d.pending) # {} => d.delay \/ \E j \in Ids : Serves(d.s[j])

LEMMA GoodRest ==
  ASSUME NEW d, NEW e, NEW i, NEW r, NEW place, e.features = d.features, e.state = d.state,
         e.max_open = d.max_open
  PROVE  Good(d, i, r, place) <=> Good(e, i, r, place)
BY DEF Good, BodyOK, SendOK, WriteOK, BlockedOK, EndOK, RunOK

(* A step of one stream that leaves it well. *)
LEMMA StepInv ==
  ASSUME NEW d, NEW e, NEW i \in Ids, NEW q, NEW place \in Places, ConnInv(d), Step(d, e, i, q, place),
         Good(d, i, q, place)
  PROVE  ConnInv(e)
<1>0. d \in Conn
    BY DEF ConnInv
<1>1. /\ e \in Conn /\ e.s[i] = q /\ ListsOK(e) /\ Place(e, i, place)
      /\ e.state = d.state /\ e.features = d.features /\ e.max_open = d.max_open /\ e.fail = d.fail
    BY <1>0, StepAt
<1>2. Exact(e)
    BY <1>0, ExactStep DEF ConnInv
<1>3. ASSUME NEW j \in Ids PROVE \E p \in Places : Place(e, j, p) /\ Good(e, j, e.s[j], p)
  <2>1. CASE j = i
    <3>1. Good(e, i, q, place)
        BY <1>1, GoodRest
    <3> QED BY <1>1, <2>1, <3>1
  <2>2. CASE j # i
    <3>1. PICK p \in Places : Place(d, j, p) /\ Good(d, j, d.s[j], p)
        BY DEF ConnInv, StreamsGood
    <3>2. e.s[j] = d.s[j]
        BY <1>0, <2>2 DEF Step, Moved, Conn
    <3>3. Place(e, j, p)
        BY <2>2, <3>1 DEF Step, SameOthers, Place
    <3>4. Good(e, j, e.s[j], p)
        BY <1>1, <3>1, <3>2, GoodRest
    <3> QED BY <3>3, <3>4
  <2> QED BY <2>1, <2>2
<1> QED BY <1>1, <1>2, <1>3 DEF ConnInv, StreamsGood, FailOK, Allowed

LEMMA ElementsIn ==
  ASSUME NEW C, NEW s \in Seq(C)
  PROVE  Elements(s) \subseteq C
BY DEF Elements

(* What a step must not take away from those who wait *)
Keeps(d, i, q, place) ==
    /\ place = "pending" => i \in Elements(d.pending)
    /\ Serves(d.s[i]) => Serves(q)

LEMMA StepServed ==
  ASSUME NEW d \in Conn, NEW e, NEW i \in Ids, NEW q, NEW place, Served(d), Step(d, e, i, q, place),
         Keeps(d, i, q, place)
  PROVE  Served(e)
<1>0. e.delay = d.delay
    BY DEF Step, Moved, Rest
<1>1. e \in Conn /\ e.s[i] = q /\ Place(e, i, place) /\ e.state = d.state
    BY StepAt
<1>2. \A j \in Ids \ {i} : e.s[j] = d.s[j]
    BY DEF Step, Moved, Conn
<1>3. Elements(e.pending) \subseteq Elements(d.pending)
  <2>1. Elements(e.pending) \subseteq Ids
      BY <1>1, ElementsIn DEF Conn
  <2> QED BY <1>1, <2>1 DEF Step, SameOthers, Keeps, Place
<1> QED BY <1>0, <1>1, <1>2, <1>3 DEF Served, Keeps

(* The pass over the list of pending requests is defined by recursion. *)
RunUpTo(d, n, f) ==
    f = [k \in 0 .. n |-> IF k = 0 THEN d ELSE RunIfRoom(f[k - 1], d.pending[k])]

LEMMA RunExists ==
  ASSUME NEW d, NEW N \in Nat
  PROVE  \E f : RunUpTo(d, N, f)
<1> DEFINE Bad == {n \in Nat : ~ \E f : RunUpTo(d, n, f)}
<1>1. SUFFICES ASSUME Bad # {} PROVE FALSE
    OBVIOUS
<1>2. PICK n \in Bad : \A m \in Bad : n <= m
    BY <1>1, LeastNat
<1>3. CASE n = 0
  <2> DEFINE f == [k \in 0 .. 0 |-> d]
  <2>1. f = [k \in 0 .. 0 |-> IF k = 0 THEN d ELSE RunIfRoom(f[k - 1], d.pending[k])]
      OBVIOUS
  <2> HIDE DEF f
  <2>2. RunUpTo(d, 0, f)
      BY <2>1 DEF RunUpTo
  <2> QED BY <1>2, <1>3, <2>2
<1>4. CASE n # 0
  <2>1. n \in Nat /\ n - 1 \in Nat /\ n - 1 \notin Bad
      BY <1>2, <1>4
  <2>2. PICK f : RunUpTo(d, n - 1, f)
      BY <2>1
  <2> DEFINE last == RunIfRoom(f[n - 1], d.pending[n])
             g == [k \in 0 .. n |-> IF k = n THEN last ELSE f[k]]
             Body(k) == IF k = 0 THEN d ELSE RunIfRoom(g[k - 1], d.pending[k])
  <2>3. ASSUME NEW k \in 0 .. n PROVE g[k] = Body(k)
    <3>1. CASE k = n
      <4>1. k # 0 /\ k - 1 = n - 1 /\ k - 1 \in 0 .. n /\ k - 1 # n
          BY <1>4, <2>1, <3>1
      <4>2. g[k - 1] = f[n - 1] /\ g[k] = last
          BY <3>1, <4>1
      <4> HIDE DEF g
      <4> QED BY <3>1, <4>1, <4>2
    <3>2. CASE k # n
      <4>1. k \in 0 .. n - 1 /\ (k # 0 => k - 1 \in 0 .. n /\ k - 1 # n)
          BY <2>1, <3>2
      <4>2. g[k] = f[k] /\ (k # 0 => g[k - 1] = f[k - 1])
          BY <3>2, <4>1
      <4>3. f[k] = IF k = 0 THEN d ELSE RunIfRoom(f[k - 1], d.pending[k])
          BY <2>2, <4>1 DEF RunUpTo
      <4> HIDE DEF g
      <4> QED BY <4>2, <4>3
    <3> QED BY <3>1, <3>2
  <2>4. g = [k \in 0 .. n |-> Body(k)]
    <3>1. g = [k \in 0 .. n |-> g[k]]
        OBVIOUS
    <3> HIDE DEF g, Body
    <3> QED BY <2>3, <3>1
  <2> HIDE DEF g
  <2>5. RunUpTo(d, n, g)
      BY <2>4 DEF RunUpTo
  <2> QED BY <1>2, <2>5
<1> QED BY <1>3, <1>4

LEMMA RunRec ==
  ASSUME NEW d, Len(d.pending) \in Nat
  PROVE  /\ RunEach(d)[0] = d
         /\ \A k \in 1 .. Len(d.pending) : RunEach(d)[k] = RunIfRoom(RunEach(d)[k - 1], d.pending[k])
<1> DEFINE N == Len(d.pending)
<1>1. RunEach(d) = CHOOSE f : RunUpTo(d, N, f)
    BY DEF RunEach, RunUpTo
<1>2. RunUpTo(d, N, RunEach(d))
    BY <1>1, RunExists
<1>3. 0 \in 0 .. N /\ \A k \in 1 .. N : k \in 0 .. N /\ k # 0
    OBVIOUS
<1> QED BY <1>2, <1>3 DEF RunUpTo

(* A pending request is run. *)
LEMMA RunOne ==
  ASSUME NEW d, NEW i \in Elements(d.pending), ConnInv(d)
  PROVE  \E q : /\ Step(d, process_request(Unlink(d, i), i), i, q, "none")
                /\ Good(d, i, q, "none") /\ Serves(q)
<1> DEFINE r == d.s[i]
           e == Unlink(d, i)
           f == process_request(e, i)
<1>0. d \in Conn /\ ListsOK(d)
    BY DEF ConnInv
<1>1. i \in Ids
    BY <1>0, ElementsIn DEF Conn
<1>2. Place(d, i, "pending") /\ Good(d, i, r, "pending")
  <2>1. PICK place \in Places : Place(d, i, place) /\ Good(d, i, r, place)
      BY <1>1 DEF ConnInv, StreamsGood
  <2> QED BY <2>1 DEF Place
<1>3. Step(d, e, i, r, "none")
    BY <1>0, <1>1, UnlinkFacts
<1>4. e \in Conn /\ e.s[i] = r /\ r \in Stream
    BY <1>0, <1>1, <1>3, StepAt
<1> HIDE DEF e
<1>5. CASE r.proceed
  <2> DEFINE q == [r EXCEPT !.streamed = TRUE, !.called = TRUE, !.turn = TRUE]
  <2>1. ~r.called /\ ~r.streamed /\ r.body \in {OPEN, CLOSE_QUEUED}
      BY <1>2, <1>5 DEF Good, BodyOK, QueueOK
  <2>2. Only(e, f, i, q)
      BY <1>1, <1>4, <1>5, <2>1, StreamedFacts
  <2>3. Step(d, f, i, q, "none")
      BY <1>0, <1>1, <1>3, <2>2, StepOnly
  <2>4. /\ q.streamed = TRUE /\ q.called = TRUE /\ q.turn = TRUE
        /\ q.st = r.st /\ q.body = r.body /\ q.proceed = r.proceed /\ q.tunnel = r.tunnel
        /\ q.write = r.write /\ q.entity = r.entity /\ q.more = r.more /\ q.busy = r.busy
        /\ q.active = r.active /\ q.data = r.data /\ q.window = r.window
        /\ q.done = r.done /\ q.blocked = r.blocked
      BY <1>4 DEF Stream
  <2>5. r.st \in 0 .. 8 /\ r.body \in 0 .. 4
      BY <1>4 DEF Stream
  <2> HIDE DEF q
  <2>6. Good(d, i, q, "none") /\ Serves(q)
      BY <1>2, <1>5, <2>1, <2>4, <2>5
      DEF Good, FreshOK, BodyOK, QueueOK, SendOK, WriteOK, BlockedOK, EndOK, RunOK, Serves
  <2> QED BY <2>3, <2>6 DEF e
<1>6. CASE ~r.proceed
  <2> DEFINE q == [r EXCEPT !.st = SEND_HEADERS, !.called = TRUE, !.turn = TRUE]
  <2>1. ~r.called /\ r.st = REQ_PENDING
      BY <1>2, <1>6 DEF Good, BodyOK, QueueOK
  <2>2. Only(e, f, i, q)
      BY <1>1, <1>4, <1>6, <2>1, WholeFacts
  <2>3. Step(d, f, i, q, "none")
      BY <1>0, <1>1, <1>3, <2>2, StepOnly
  <2>4. /\ q.st = SEND_HEADERS /\ q.called = TRUE /\ q.turn = TRUE
        /\ q.streamed = r.streamed /\ q.body = r.body /\ q.proceed = r.proceed /\ q.tunnel = r.tunnel
        /\ q.write = r.write /\ q.entity = r.entity /\ q.more = r.more /\ q.busy = r.busy
        /\ q.active = r.active /\ q.data = r.data /\ q.window = r.window
        /\ q.done = r.done /\ q.blocked = r.blocked
      BY <1>4 DEF Stream
  <2>5. r.st \in 0 .. 8 /\ r.body \in 0 .. 4
      BY <1>4 DEF Stream
  <2> HIDE DEF q
  <2>6. Good(d, i, q, "none") /\ Serves(q)
      BY <1>2, <1>6, <2>1, <2>4, <2>5
      DEF Good, FreshOK, BodyOK, QueueOK, SendOK, WriteOK, BlockedOK, EndOK, RunOK, Serves
  <2> QED BY <2>3, <2>6 DEF e
<1> QED BY <1>5, <1>6

(* What run_pending_requests leaves alone *)
Ran(d, e) ==
    /\ ConnInv(e) /\ Rest(d, e) /\ e.fail = d.fail
    /\ \A j \in Ids \ Elements(d.pending) : e.s[j] = d.s[j]
    /\ \A j \in Ids : /\ j \in Elements(e.to_proceed) <=> j \in Elements(d.to_proceed)
                      /\ j \in Elements(e.early) <=> j \in Elements(d.early)
                      /\ j \in Elements(e.pending) => j \in Elements(d.pending)

(* A request is passed over only if others are served. *)
LEMMA NoRoom ==
  ASSUME NEW d, NEW i \in Ids, ConnInv(d), ~MayRun(d, i)
  PROVE  \E j \in Ids : Serves(d.s[j])
<1>0. /\ Cardinality(TunnelSet(d)) \in Nat /\ Cardinality(StreamingSet(d)) \in Nat
      /\ Cardinality(HalfClosedSet(d)) \in Nat
      /\ (StreamingSet(d) = {} => Cardinality(StreamingSet(d)) = 0)
      /\ (HalfClosedSet(d) = {} => Cardinality(HalfClosedSet(d)) = 0)
  <2>1. IsFiniteSet(TunnelSet(d)) /\ IsFiniteSet(StreamingSet(d)) /\ IsFiniteSet(HalfClosedSet(d))
      BY IdsFinite, FS_Subset DEF TunnelSet, StreamingSet, HalfClosedSet
  <2> QED BY <2>1, FS_CardinalityType, FS_EmptySet
<1>1. MaxConcurrent \in Nat \ {0} /\ MaxStreaming \in Nat \ {0}
    BY H2StreamsAssumption
<1>2. StreamingSet(d) # {} \/ HalfClosedSet(d) # {}
  <2> HIDE DEF TunnelSet, StreamingSet, HalfClosedSet
  <2> QED BY <1>0, <1>1 DEF ConnInv, Exact, MayRun, can_run_requests
<1> QED BY <1>2 DEF StreamingSet, HalfClosedSet, Serves

LEMMA RunPending ==
  ASSUME NEW d, ConnInv(d)
  PROVE  Ran(d, run_pending_requests(d)) /\ Served(run_pending_requests(d))
<1> DEFINE N == Len(d.pending)
           e(n) == RunEach(d)[n]
           List(n) == d.pending[n]
           R(n) == /\ Ran(d, e(n))
                   /\ \A m \in 1 .. N : n < m => List(m) \in Elements(e(n).pending)
                   /\ \A m \in 1 .. N : m <= n /\ List(m) \in Elements(e(n).pending) =>
                         \E j \in Ids : Serves(e(n).s[j])
           Bad == {n \in Nat : n <= N /\ ~R(n)}
<1>0. d \in Conn /\ d.pending \in Seq(Ids) /\ N \in Nat /\ DOMAIN d.pending = 1 .. N /\ Distinct(d.pending)
    BY DEF ConnInv, ListsOK, Conn
<1>1. /\ e(0) = d
      /\ \A n \in 1 .. N : e(n) = RunIfRoom(e(n - 1), List(n))
    BY <1>0, RunRec
<1>2. \A m \in 1 .. N : List(m) \in Ids /\ List(m) \in Elements(d.pending)
    BY <1>0 DEF Elements
<1>3. Ran(d, d)
    BY DEF Ran, Rest
<1> HIDE DEF e, List, N
<1>4. R(0)
    BY <1>0, <1>1, <1>2, <1>3
<1>5. ASSUME NEW n \in 1 .. N, R(n - 1) PROVE R(n)
  <2> DEFINE i == List(n)
             p == e(n - 1)
  <2>1. n - 1 \in Nat /\ n - 1 < n /\ i \in Ids /\ i \in Elements(p.pending)
      BY <1>0, <1>2, <1>5
  <2>2. e(n) = RunIfRoom(p, i)
      BY <1>1
  <2>3. Ran(d, p) /\ ConnInv(p) /\ p \in Conn
      BY <1>5 DEF Ran, ConnInv
  <2>4. CASE ~MayRun(p, i)
    <3>1. e(n) = p
        BY <2>2, <2>4 DEF RunIfRoom
    <3>2. \E j \in Ids : Serves(p.s[j])
        BY <2>1, <2>3, <2>4, NoRoom
    <3>3. \A m \in 1 .. N : n < m => n - 1 < m
        BY <1>0
    <3> QED BY <1>5, <3>1, <3>2, <3>3
  <2>5. CASE MayRun(p, i)
    <3> DEFINE g == process_request(Unlink(p, i), i)
    <3>1. e(n) = g
        BY <2>2, <2>5 DEF RunIfRoom
    <3>2. PICK q : Step(p, g, i, q, "none") /\ Good(p, i, q, "none") /\ Serves(q)
        BY <2>1, <2>3, RunOne
    <3> HIDE DEF g
    <3>3. ConnInv(g)
        BY <2>1, <2>3, <3>2, StepInv DEF Places
    <3>4. g.s[i] = q /\ Place(g, i, "none")
        BY <2>1, <2>3, <3>2, StepAt
    <3>5. Rest(p, g) /\ g.fail = p.fail /\ SameOthers(p, g, i) /\ \A j \in Ids \ {i} : g.s[j] = p.s[j]
        BY <2>3, <3>2 DEF Step, Moved, Conn
    <3>6. Ran(d, g)
      <4>1. Rest(d, g) /\ g.fail = d.fail
          BY <2>3, <3>5 DEF Ran, Rest
      <4>2. ASSUME NEW j \in Ids \ Elements(d.pending) PROVE g.s[j] = d.s[j]
          BY <1>2, <2>3, <3>5 DEF Ran
      <4>3. ASSUME NEW j \in Ids
            PROVE  /\ j \in Elements(g.to_proceed) <=> j \in Elements(d.to_proceed)
                   /\ j \in Elements(g.early) <=> j \in Elements(d.early)
                   /\ j \in Elements(g.pending) => j \in Elements(d.pending)
        <5>1. CASE j # i
            BY <2>3, <3>5, <5>1 DEF Ran, SameOthers
        <5>2. CASE j = i
          <6>1. PICK place \in Places : Place(p, i, place)
              BY <2>1, <2>3 DEF ConnInv, StreamsGood
          <6> QED BY <1>2, <2>1, <2>3, <3>4, <5>2, <6>1 DEF Ran, Place
        <5> QED BY <5>1, <5>2
      <4> QED BY <3>3, <4>1, <4>2, <4>3 DEF Ran
    <3>7. ASSUME NEW m \in 1 .. N, n < m PROVE List(m) \in Elements(g.pending)
      <4>1. List(m) # i
          BY <1>0, <3>7 DEF Distinct, List
      <4>2. List(m) \in Elements(p.pending)
        <5>1. n - 1 < m
            BY <1>0, <3>7
        <5> QED BY <1>5, <5>1
      <4> QED BY <1>2, <3>5, <4>1, <4>2 DEF SameOthers
    <3> QED BY <2>1, <3>1, <3>2, <3>4, <3>6, <3>7
  <2> QED BY <2>4, <2>5
<1>6. \A n \in 0 .. N : R(n)
  <2> SUFFICES ASSUME Bad # {} PROVE FALSE
      BY <1>0
  <2> HIDE DEF R
  <2>1. PICK n \in Bad : \A m \in Bad : n <= m
      BY LeastNat
  <2>2. n # 0
      BY <1>4, <2>1
  <2>3. n \in 1 .. N /\ n - 1 \in Nat /\ n - 1 \notin Bad
      BY <1>0, <2>1, <2>2
  <2>4. R(n - 1)
      BY <1>0, <2>3
  <2> QED BY <1>5, <2>1, <2>3, <2>4
<1>7. CASE d.delay
  <2>1. run_pending_requests(d) = d
      BY <1>7 DEF run_pending_requests
  <2> QED BY <1>3, <1>7, <2>1 DEF Served
<1>8. CASE ~d.delay
  <2>1. run_pending_requests(d) = e(N)
      BY <1>8 DEF run_pending_requests, e, N
  <2>2. R(N)
      BY <1>0, <1>6
  <2>3. ASSUME Elements(e(N).pending) # {} PROVE \E j \in Ids : Serves(e(N).s[j])
    <3>1. PICK x \in Elements(e(N).pending) : TRUE
        BY <2>3
    <3>2. x \in Ids
        BY <2>2, ElementsIn DEF Ran, ConnInv, Conn
    <3>3. x \in Elements(d.pending)
        BY <2>2, <3>1, <3>2 DEF Ran
    <3>4. PICK m \in 1 .. N : x = List(m)
        BY <1>0, <3>3 DEF Elements, List
    <3>5. m <= N
        BY <1>0
    <3> QED BY <2>2, <3>1, <3>4, <3>5
  <2> QED BY <2>1, <2>2, <2>3 DEF Served
<1> QED BY <1>7, <1>8

-----------------------------------------------------------------------------
(* What a function does to a connection: stream i has become q on some list,  *)
(* well, and then pending requests are run, or those who wait have lost       *)
(* nothing.                                                                   *)
Lands(d, e, i) ==
    \E l, q : \E place \in Places :
        /\ Step(d, l, i, q, place) /\ Good(d, i, q, place)
        /\ (e = l /\ Keeps(d, i, q, place)) \/ e = RunUnlessClosing(l)

(* The other streams, unless they were pending *)
Others(d, e, i) ==
    \A j \in Ids \ {i} :
        /\ j \notin Elements(d.pending) => e.s[j] = d.s[j]
        /\ j \in Elements(e.to_proceed) <=> j \in Elements(d.to_proceed)
        /\ j \in Elements(e.early) <=> j \in Elements(d.early)
        /\ j \in Elements(e.pending) => j \in Elements(d.pending)

LEMMA LandsInv ==
  ASSUME NEW d, NEW e, NEW i \in Ids, ConnInv(d), Served(d), Lands(d, e, i)
  PROVE  ConnInv(e) /\ Served(e) /\ Rest(d, e) /\ e.fail = d.fail /\ Others(d, e, i)
<1>1. PICK l, q : \E place \in Places :
        /\ Step(d, l, i, q, place) /\ Good(d, i, q, place)
        /\ (e = l /\ Keeps(d, i, q, place)) \/ e = RunUnlessClosing(l)
    BY DEF Lands
<1>2. PICK place \in Places :
        /\ Step(d, l, i, q, place) /\ Good(d, i, q, place)
        /\ (e = l /\ Keeps(d, i, q, place)) \/ e = RunUnlessClosing(l)
    BY <1>1
<1>3. d \in Conn
    BY DEF ConnInv
<1>4. ConnInv(l)
    BY <1>2, StepInv
<1>5. Rest(d, l) /\ l.fail = d.fail /\ Others(d, l, i)
    BY <1>2, <1>3 DEF Step, Moved, SameOthers, Others, Conn
<1>6. CASE e = l /\ Keeps(d, i, q, place)
  <2>1. Served(e)
      BY <1>2, <1>3, <1>6, StepServed
  <2> QED BY <1>4, <1>5, <1>6, <2>1
<1>7. CASE e = RunUnlessClosing(l) /\ l.state < IS_CLOSING
  <2>1. e = run_pending_requests(l)
      BY <1>7 DEF RunUnlessClosing
  <2>2. Ran(l, e) /\ Served(e)
      BY <1>4, <2>1, RunPending
  <2>3. Rest(d, e) /\ e.fail = d.fail /\ ConnInv(e)
      BY <1>5, <2>2 DEF Ran, Rest
  <2>4. Others(d, e, i)
      BY <1>5, <2>2, <1>2 DEF Ran, Others, Step, SameOthers
  <2> QED BY <2>2, <2>3, <2>4
<1>8. CASE e = RunUnlessClosing(l) /\ ~(l.state < IS_CLOSING)
  <2>1. e = l
      BY <1>8 DEF RunUnlessClosing
  <2> QED BY <1>4, <1>5, <1>8, <2>1 DEF Served
<1> QED BY <1>2, <1>6, <1>7, <1>8

LEMMA LandsStep ==
  ASSUME NEW d, NEW e, NEW i \in Ids, NEW q, NEW place \in Places, Step(d, e, i, q, place),
         Good(d, i, q, place), Keeps(d, i, q, place)
  PROVE  Lands(d, e, i)
BY DEF Lands

LEMMA LandsRun ==
  ASSUME NEW d \in Conn, NEW e, NEW i \in Ids, NEW q, NEW place \in Places, Step(d, e, i, q, place),
         Good(d, i, q, place), d.state < IS_CLOSING
  PROVE  Lands(d, run_pending_requests(e), i)
<1>1. e.state = d.state
    BY StepAt
<1>2. run_pending_requests(e) = RunUnlessClosing(e)
    BY <1>1 DEF RunUnlessClosing
<1> QED BY <1>2 DEF Lands

LEMMA LandsFreed ==
  ASSUME NEW d, NEW l, NEW i \in Ids, Step(d, l, i, NoStream, "none")
  PROVE  Lands(d, RunUnlessClosing(l), i)
<1>1. Good(d, i, NoStream, "none") /\ "none" \in Places
    BY NoStreamGood DEF Places
<1> QED BY <1>1 DEF Lands

LEMMA LandsClose ==
  ASSUME NEW d \in Conn, NEW e, NEW i \in Ids, NEW q, NEW place \in Places, Step(d, e, i, q, place),
         Closable(q, place)
  PROVE  Lands(d, stream_close(e, i), i)
<1>1. e \in Conn /\ e.s[i] = q /\ ListsOK(e) /\ Place(e, i, place)
    BY StepAt
<1>2. PICK l : Step(e, l, i, NoStream, "none") /\ stream_close(e, i) = RunUnlessClosing(l)
    BY <1>1, CloseFacts
<1>3. Step(d, l, i, NoStream, "none")
    BY <1>2, StepAgain
<1> QED BY <1>2, <1>3, LandsFreed

LEMMA LandsReset ==
  ASSUME NEW d \in Conn, NEW e, NEW i \in Ids, NEW q, NEW place \in Places, Step(d, e, i, q, place),
         Closable(q, place), place = "pending" => i \in Elements(d.pending),
         q.st > REQ_PENDING /\ place # "none" => Good(d, i, Ended(q), place)
  PROVE  Lands(d, stream_reset(e, i), i)
<1>1. e \in Conn /\ e.s[i] = q /\ ListsOK(e) /\ Place(e, i, place) /\ q \in Stream
    BY StepAt
<1>2. CASE q.st <= REQ_PENDING \/ place = "none"
  <2>1. PICK l : Step(e, l, i, NoStream, "none") /\ stream_reset(e, i) = RunUnlessClosing(l)
      BY <1>1, <1>2, ResetFacts
  <2>2. Step(d, l, i, NoStream, "none")
      BY <2>1, StepAgain
  <2> QED BY <2>1, <2>2, LandsFreed
<1>3. CASE q.st > REQ_PENDING /\ place # "none"
  <2>1. Step(e, stream_reset(e, i), i, Ended(q), place)
      BY <1>1, <1>3, ResetFacts
  <2>2. Step(d, stream_reset(e, i), i, Ended(q), place)
      BY <2>1, StepAgain
  <2>3. Keeps(d, i, Ended(q), place)
    <3>1. Ended(q).st = END_STREAM
        BY <1>1, EndedFields
    <3> QED BY <3>1 DEF Keeps, Serves
  <2> QED BY <1>3, <2>2, <2>3, LandsStep
<1>4. q.st \in 0 .. 8
    BY <1>1 DEF Stream
<1> QED BY <1>2, <1>3, <1>4

LEMMA GoodClosable ==
  ASSUME NEW d, NEW i, NEW q \in Stream, NEW place, Good(d, i, q, place), q.st # ABSENT
  PROVE  Closable(q, place)
<1>1. q.st \in 0 .. 8 /\ q.body \in 0 .. 4
    BY DEF Stream
<1> QED BY <1>1 DEF Good, FreshOK, QueueOK, BodyOK, Closable

LEMMA GoodEnded ==
  ASSUME NEW d, NEW i, NEW q \in Stream, NEW place \in Places, Good(d, i, q, place), q.st > REQ_PENDING,
         place # "none"
  PROVE  Good(d, i, Ended(q), place)
<1> DEFINE r == Ended(q)
<1>1. /\ r.st = END_STREAM /\ r.data = FALSE
      /\ r.body = q.body /\ r.proceed = q.proceed /\ r.streamed = q.streamed /\ r.tunnel = q.tunnel
      /\ r.write = q.write /\ r.entity = q.entity /\ r.more = q.more /\ r.busy = q.busy
      /\ r.called = q.called /\ r.turn = q.turn /\ r.active = q.active /\ r.window = q.window
      /\ r.done = q.done
    BY EndedFields
<1>2. q.st \in 0 .. 8 /\ q.body \in 0 .. 4
    BY DEF Stream
<1> HIDE DEF r
<1> QED BY <1>1, <1>2 DEF Good, FreshOK, BodyOK, QueueOK, SendOK, WriteOK, BlockedOK, EndOK, RunOK, Places, r

(* A stream that is well can be reset. *)
LEMMA LandsResetGood ==
  ASSUME NEW d \in Conn, NEW e, NEW i \in Ids, NEW q, NEW place \in Places, Step(d, e, i, q, place),
         Good(d, i, q, place), q.st # ABSENT, place = "pending" => i \in Elements(d.pending)
  PROVE  Lands(d, stream_reset(e, i), i)
<1>1. q \in Stream
    BY StepAt
<1>2. Closable(q, place)
    BY <1>1, GoodClosable
<1>3. q.st > REQ_PENDING /\ place # "none" => Good(d, i, Ended(q), place)
    BY <1>1, GoodEnded
<1> QED BY <1>2, <1>3, LandsReset

-----------------------------------------------------------------------------
(* Sending a response *)

LEMMA StartHeadersFacts ==
  ASSUME NEW d \in Conn, NEW i \in Ids, d.s[i].st \in RECV_BODY .. SEND_HEADERS
  PROVE  Only(d, StartHeaders(d, i), i, [d.s[i] EXCEPT !.st = SEND_HEADERS])
<1> DEFINE r == d.s[i]
           e == set_state(d, i, REQ_PENDING)
           p == [r EXCEPT !.st = REQ_PENDING]
<1>0. r \in Stream /\ REQ_PENDING \in RECV_HEADERS .. SEND_BODY_IS_FINAL
      /\ SEND_HEADERS \in RECV_HEADERS .. SEND_BODY_IS_FINAL
    BY DEF Conn
<1>1. CASE r.st = RECV_BODY
  <2>1. StartHeaders(d, i) = set_state(e, i, SEND_HEADERS)
      BY <1>1 DEF StartHeaders
  <2>2. Follows(r.st, REQ_PENDING) /\ Follows(p.st, SEND_HEADERS)
    <3>1. p.st = REQ_PENDING
        BY <1>0 DEF Stream
    <3> QED BY <1>1, <3>1 DEF Follows
  <2>3. Only(d, e, i, p)
      BY <1>0, <2>2, StateFacts
  <2> HIDE DEF e, p
  <2>4. e \in Conn /\ e.s[i] = p
      BY <2>3, OnlyAt
  <2>5. Only(e, set_state(e, i, SEND_HEADERS), i, [p EXCEPT !.st = SEND_HEADERS])
      BY <1>0, <2>2, <2>4, StateFacts
  <2>6. [p EXCEPT !.st = SEND_HEADERS] = [r EXCEPT !.st = SEND_HEADERS]
      BY <1>0 DEF p, Stream
  <2> QED BY <2>1, <2>3, <2>5, <2>6, OnlyAgain
<1>2. CASE r.st = REQ_PENDING
  <2>1. StartHeaders(d, i) = set_state(d, i, SEND_HEADERS)
      BY <1>2 DEF StartHeaders
  <2>2. Follows(r.st, SEND_HEADERS)
      BY <1>2 DEF Follows
  <2> QED BY <1>0, <2>1, <2>2, StateFacts
<1>3. CASE r.st = SEND_HEADERS
  <2>1. StartHeaders(d, i) = d
      BY <1>3 DEF StartHeaders
  <2>2. [r EXCEPT !.st = SEND_HEADERS] = r
      BY <1>0, <1>3 DEF Stream
  <2> QED BY <2>1, <2>2, OnlySame
<1> QED BY <1>1, <1>2, <1>3

LEMMA StartBodyFacts ==
  ASSUME NEW d \in Conn, NEW i \in Ids, d.s[i].st \in RECV_BODY .. SEND_BODY
  PROVE  Only(d, StartBody(d, i), i, [d.s[i] EXCEPT !.st = SEND_BODY])
<1> DEFINE r == d.s[i]
           e == StartHeaders(d, i)
           p == [r EXCEPT !.st = SEND_HEADERS]
<1>0. r \in Stream /\ SEND_BODY \in RECV_HEADERS .. SEND_BODY_IS_FINAL
    BY DEF Conn
<1>1. CASE r.st = SEND_BODY
  <2>1. StartBody(d, i) = d
      BY <1>1 DEF StartBody
  <2>2. [r EXCEPT !.st = SEND_BODY] = r
      BY <1>0, <1>1 DEF Stream
  <2> QED BY <2>1, <2>2, OnlySame
<1>2. CASE r.st # SEND_BODY
  <2>1. StartBody(d, i) = set_state(e, i, SEND_BODY)
      BY <1>2 DEF StartBody
  <2>2. r.st \in RECV_BODY .. SEND_HEADERS
      BY <1>2
  <2>3. Only(d, e, i, p)
      BY <2>2, StartHeadersFacts
  <2>4. Follows(p.st, SEND_BODY)
    <3>1. p.st = SEND_HEADERS
        BY <1>0 DEF Stream
    <3> QED BY <3>1 DEF Follows
  <2> HIDE DEF e, p
  <2>5. e \in Conn /\ e.s[i] = p
      BY <2>3, OnlyAt
  <2>6. Only(e, set_state(e, i, SEND_BODY), i, [p EXCEPT !.st = SEND_BODY])
      BY <1>0, <2>4, <2>5, StateFacts
  <2>7. [p EXCEPT !.st = SEND_BODY] = [r EXCEPT !.st = SEND_BODY]
      BY <1>0 DEF p, Stream
  <2> QED BY <2>1, <2>3, <2>6, <2>7, OnlyAgain
<1> QED BY <1>1, <1>2

(* Sending does not touch the request. *)
SameRequest(r, q) ==
    /\ q.body = r.body /\ q.proceed = r.proceed /\ q.streamed = r.streamed /\ q.tunnel = r.tunnel
    /\ q.write = r.write /\ q.entity = r.entity /\ q.more = r.more /\ q.busy = r.busy
    /\ q.called = r.called /\ q.window = r.window

LEMMA AnsweredFacts ==
  ASSUME NEW d \in Conn, NEW i \in Ids, NEW answer, ~d.s[i].done, ~d.s[i].data
  PROVE  \E q : /\ Only(d, Answered(d, i, answer), i, q) /\ SameRequest(d.s[i], q)
                /\ q.st = d.s[i].st /\ q.turn = FALSE /\ q.active = d.s[i].active /\ q.data = FALSE
                /\ (q.done <=> answer \notin {"progress", "too_early"}) /\ q.blocked = FALSE
<1> DEFINE r == d.s[i]
           e == Unblock(d, i)
           p == [r EXCEPT !.blocked = FALSE]
           dn == answer \notin {"progress", "too_early"}
           q == [p EXCEPT !.turn = FALSE, !.done = dn]
           f == [e EXCEPT !.s[i] = q]
<1>0. r \in Stream
    BY DEF Conn
<1>1. Check(d, ~d.s[i].done /\ ~d.s[i].data, "send") = d
    BY CheckTrue
<1>2. Only(d, e, i, p)
    BY UnblockFacts
<1>3. /\ SameRequest(r, p) /\ p.st = r.st /\ p.turn = r.turn /\ p.active = r.active /\ p.data = FALSE
      /\ p.done = FALSE /\ p.blocked = FALSE
    BY <1>0 DEF Stream, SameRequest
<1>4. e \in Conn /\ e.s[i] = p /\ p \in Stream
    BY <1>2, OnlyAt
<1>5. Answered(d, i, answer) = f
  <2>1. Answered(d, i, answer) = [e EXCEPT !.s[i] = [@ EXCEPT !.turn = FALSE, !.done = dn]]
      BY <1>1, Zenon DEF Answered
  <2> HIDE DEF e, p, dn
  <2> QED BY <1>4, <2>1
<1> HIDE DEF e, p
<1>6. dn \in BOOLEAN /\ dn = (answer \notin {"progress", "too_early"})
    BY <1>3
<1> HIDE DEF dn
<1>7. /\ SameRequest(p, q) /\ q.st = p.st /\ q.turn = FALSE /\ q.active = p.active /\ q.data = p.data
      /\ q.done = dn /\ q.blocked = p.blocked
    BY <1>4 DEF Stream, SameRequest
<1>8. q \in Stream
  <2>1. dn \in BOOLEAN
      BY <1>6
  <2> QED BY <1>4, <2>1 DEF Stream
<1> HIDE DEF q
<1>9. Only(e, f, i, q)
    BY <1>4, <1>7, <1>8, PutOnly DEF SameRequest
<1>10. Only(d, f, i, q)
    BY <1>2, <1>9, OnlyAgain
<1>11. SameRequest(r, q)
    BY <1>3, <1>7 DEF SameRequest
<1> QED BY <1>3, <1>5, <1>6, <1>7, <1>10, <1>11

(* request_write_and_close *)
LEMMA WriteCloseFacts ==
  ASSUME NEW d \in Conn, NEW i \in Ids, ListsOK(d), Place(d, i, "none"), d.s[i].st \in IDLE .. SEND_BODY_IS_FINAL
  PROVE  \E q : /\ Step(d, request_write_and_close(d, i), i, q, "to_proceed") /\ SameRequest(d.s[i], q)
                /\ q.st = END_STREAM /\ q.turn = d.s[i].turn /\ q.active = FALSE /\ q.data = d.s[i].data
                /\ q.done = d.s[i].done /\ q.blocked = FALSE
<1> DEFINE r == d.s[i]
           e == EndStream(d, i)
           p == [r EXCEPT !.st = END_STREAM, !.blocked = FALSE]
           q == [p EXCEPT !.active = FALSE]
           f == [e EXCEPT !.s[i] = q]
           g == [e EXCEPT !.s[i].active = FALSE]
<1>0. r \in Stream
    BY DEF Conn
<1>1. Only(d, e, i, p)
    BY EndFacts
<1>2. /\ SameRequest(r, p) /\ p.st = END_STREAM /\ p.turn = r.turn /\ p.data = r.data
      /\ p.done = r.done /\ p.blocked = FALSE
    BY <1>0 DEF Stream, SameRequest
<1>3. request_write_and_close(d, i) = IF Linked(g, i) THEN g ELSE InsertToProceed(g, i)
    BY Zenon DEF request_write_and_close
<1> HIDE DEF e, p
<1>4. e \in Conn /\ e.s[i] = p /\ p \in Stream
    BY <1>1, OnlyAt
<1>5. g = f
    BY <1>4
<1>6. /\ SameRequest(p, q) /\ q.st = p.st /\ q.turn = p.turn /\ q.data = p.data
      /\ q.done = p.done /\ q.blocked = p.blocked /\ q.active = FALSE /\ q \in Stream
    BY <1>4 DEF Stream, SameRequest
<1> HIDE DEF q, g
<1>7. Only(e, f, i, q)
    BY <1>4, <1>6, PutOnly DEF SameRequest
<1> HIDE DEF f
<1>8. Only(d, f, i, q)
    BY <1>1, <1>7, OnlyAgain
<1>9. Step(d, f, i, q, "none")
    BY <1>8, OnlyStep
<1>10. f \in Conn /\ f.s[i] = q /\ ListsOK(f) /\ Place(f, i, "none")
    BY <1>9, StepAt
<1>11. ~Linked(f, i)
    BY <1>10, NotLinked DEF Places
<1>12. request_write_and_close(d, i) = InsertToProceed(f, i)
    BY <1>3, <1>5, <1>11
<1>13. Step(f, InsertToProceed(f, i), i, q, "to_proceed")
    BY <1>10, InsertFacts
<1>14. Step(d, InsertToProceed(f, i), i, q, "to_proceed")
    BY <1>9, <1>13, StepAgain
<1>15. SameRequest(r, q)
    BY <1>2, <1>6 DEF SameRequest
<1> QED BY <1>2, <1>6, <1>12, <1>14, <1>15

LEMMA ActivateFacts ==
  ASSUME NEW d \in Conn, NEW i \in Ids, ListsOK(d), Place(d, i, "none")
  PROVE  Step(d, Activate(d, i), i, [d.s[i] EXCEPT !.active = TRUE], "none")
<1> DEFINE r == d.s[i]
           q == [r EXCEPT !.active = TRUE]
           e == [d EXCEPT !.s[i].active = TRUE]
<1>0. r \in Stream
    BY DEF Conn
<1>1. ~Linked(d, i)
    BY NotLinked DEF Places
<1>2. Activate(d, i) = e
  <2>1. Activate(d, i) = Check(e, ~Linked(d, i), "active and linked")
      BY Zenon DEF Activate
  <2> HIDE DEF e
  <2> QED BY <1>1, <2>1, CheckTrue, Zenon
<1>3. e = [d EXCEPT !.s[i] = q]
    OBVIOUS
<1>4. q \in Stream /\ q.st = r.st /\ q.blocked = r.blocked /\ q.streamed = r.streamed
      /\ q.body = r.body /\ q.tunnel = r.tunnel
    BY <1>0 DEF Stream
<1> HIDE DEF q, e
<1>5. Only(d, e, i, q)
    BY <1>3, <1>4, PutOnly
<1>6. Step(d, e, i, q, "none")
    BY <1>5, OnlyStep
<1> QED BY <1>2, <1>6 DEF q

(* register_for_proceed_callback *)
LEMMA RegisterFacts ==
  ASSUME NEW d \in Conn, NEW i \in Ids, ListsOK(d), Place(d, i, "none")
  PROVE  \E q : \E place \in Places :
            /\ Step(d, register_for_proceed_callback(d, i), i, q, place) /\ SameRequest(d.s[i], q)
            /\ q.st = d.s[i].st /\ q.turn = d.s[i].turn /\ q.data = d.s[i].data
            /\ q.done = d.s[i].done /\ q.blocked = d.s[i].blocked
            /\ IF d.s[i].data \/ d.s[i].st >= SEND_BODY_IS_FINAL
               THEN place = "none" /\ (q.active <=> d.s[i].active \/ d.s[i].window)
               ELSE place = "to_proceed" /\ q.active = d.s[i].active
<1> DEFINE r == d.s[i]
           e == register_for_proceed_callback(d, i)
<1>0. r \in Stream /\ SameRequest(r, r) /\ Only(d, d, i, r)
    BY OnlySame DEF Conn, SameRequest
<1>1. CASE (r.data \/ r.st >= SEND_BODY_IS_FINAL) /\ r.window
  <2> DEFINE q == [r EXCEPT !.active = TRUE]
  <2>1. e = Activate(d, i)
      BY <1>1 DEF register_for_proceed_callback
  <2>2. Step(d, e, i, q, "none")
      BY <2>1, ActivateFacts
  <2>3. /\ SameRequest(r, q) /\ q.st = r.st /\ q.turn = r.turn /\ q.data = r.data
        /\ q.done = r.done /\ q.blocked = r.blocked /\ q.active = TRUE
      BY <1>0 DEF Stream, SameRequest
  <2> HIDE DEF q, e
  <2> QED BY <1>1, <2>2, <2>3 DEF Places, e
<1>2. CASE (r.data \/ r.st >= SEND_BODY_IS_FINAL) /\ ~r.window
  <2>1. e = d
      BY <1>2 DEF register_for_proceed_callback
  <2>2. Step(d, e, i, r, "none")
      BY <1>0, <2>1, OnlyStep
  <2> HIDE DEF e
  <2> QED BY <1>0, <1>2, <2>2 DEF Places, e
<1>3. CASE ~(r.data \/ r.st >= SEND_BODY_IS_FINAL)
  <2>1. e = InsertToProceed(d, i)
      BY <1>3 DEF register_for_proceed_callback
  <2>2. Step(d, e, i, r, "to_proceed")
      BY <2>1, InsertFacts
  <2> HIDE DEF e
  <2> QED BY <1>0, <1>3, <2>2 DEF Places, e
<1> QED BY <1>1, <1>2, <1>3

(* The response goes on; bufs are left to be sent. *)
LEMMA SendBodyFacts ==
  ASSUME NEW d \in Conn, NEW i \in Ids, ListsOK(d), Place(d, i, "none"), NEW answer, NEW bufs \in BOOLEAN,
         d.s[i].st \in RECV_BODY .. SEND_BODY
  PROVE  \E q : \E place \in Places :
            /\ Step(d, SendBody(d, i, answer, bufs), i, q, place) /\ SameRequest(d.s[i], q)
            /\ q.st = (IF answer = "progress" THEN SEND_BODY ELSE SEND_BODY_IS_FINAL)
            /\ q.turn = d.s[i].turn /\ q.data = bufs
            /\ q.done = d.s[i].done /\ q.blocked = d.s[i].blocked
            /\ IF bufs \/ answer # "progress"
               THEN place = "none" /\ (q.active <=> d.s[i].active \/ d.s[i].window)
               ELSE place = "to_proceed" /\ q.active = d.s[i].active
<1> DEFINE r == d.s[i]
           e == StartBody(d, i)
           p == [r EXCEPT !.st = SEND_BODY]
           f == IF answer = "progress" THEN e ELSE set_state(e, i, SEND_BODY_IS_FINAL)
           m == IF answer = "progress" THEN p ELSE [p EXCEPT !.st = SEND_BODY_IS_FINAL]
           g == [f EXCEPT !.s[i].data = bufs]
           t == [m EXCEPT !.data = bufs]
<1>0. r \in Stream
    BY DEF Conn
<1>1. Only(d, e, i, p)
    BY StartBodyFacts
<1>2. /\ SameRequest(r, p) /\ p.st = SEND_BODY /\ p.turn = r.turn /\ p.active = r.active
      /\ p.done = r.done /\ p.blocked = r.blocked
    BY <1>0 DEF Stream, SameRequest
<1>3. SendBody(d, i, answer, bufs) = register_for_proceed_callback(g, i)
    BY Zenon DEF SendBody
<1> HIDE DEF e, p
<1>4. e \in Conn /\ e.s[i] = p /\ p \in Stream
    BY <1>1, OnlyAt
<1>5. /\ Only(e, f, i, m) /\ SameRequest(p, m) /\ m.turn = p.turn /\ m.active = p.active
      /\ m.done = p.done /\ m.blocked = p.blocked
      /\ m.st = (IF answer = "progress" THEN SEND_BODY ELSE SEND_BODY_IS_FINAL)
  <2>1. CASE answer = "progress"
    <3>1. f = e /\ m = p
        BY <2>1
    <3>2. Only(e, e, i, p)
        BY <1>4, OnlySame
    <3> QED BY <1>2, <2>1, <3>1, <3>2 DEF SameRequest
  <2>2. CASE answer # "progress"
    <3>1. f = set_state(e, i, SEND_BODY_IS_FINAL) /\ m = [p EXCEPT !.st = SEND_BODY_IS_FINAL]
        BY <2>2
    <3>2. Follows(e.s[i].st, SEND_BODY_IS_FINAL) /\ SEND_BODY_IS_FINAL \in RECV_HEADERS .. SEND_BODY_IS_FINAL
        BY <1>2, <1>4 DEF Follows
    <3>3. Only(e, f, i, m)
      <4> HIDE DEF f, m
      <4>1. Only(e, set_state(e, i, SEND_BODY_IS_FINAL), i, [e.s[i] EXCEPT !.st = SEND_BODY_IS_FINAL])
          BY <1>4, <3>2, StateFacts
      <4> QED BY <1>4, <3>1, <4>1
    <3>4. /\ SameRequest(p, m) /\ m.turn = p.turn /\ m.active = p.active
          /\ m.done = p.done /\ m.blocked = p.blocked /\ m.st = SEND_BODY_IS_FINAL
        BY <1>4, <3>1 DEF Stream, SameRequest
    <3> QED BY <2>2, <3>3, <3>4
  <2> QED BY <2>1, <2>2
<1> HIDE DEF f, m
<1>6. f \in Conn /\ f.s[i] = m /\ m \in Stream
    BY <1>4, <1>5, OnlyAt
<1>7. g = [f EXCEPT !.s[i] = t]
    BY <1>6
<1>8. /\ SameRequest(m, t) /\ t.st = m.st /\ t.turn = m.turn /\ t.data = bufs /\ t.active = m.active
      /\ t.done = m.done /\ t.blocked = m.blocked /\ t \in Stream
    BY <1>6 DEF Stream, SameRequest
<1> HIDE DEF t, g
<1>9. Only(f, g, i, t)
    BY <1>6, <1>7, <1>8, PutOnly DEF SameRequest
<1>10. Only(d, f, i, m)
    BY <1>1, <1>5, OnlyAgain
<1>11. Only(d, g, i, t)
    BY <1>9, <1>10, OnlyAgain
<1>12. Step(d, g, i, t, "none")
    BY <1>11, OnlyStep
<1>13. g \in Conn /\ g.s[i] = t /\ ListsOK(g) /\ Place(g, i, "none")
    BY <1>12, StepAt
<1>14. PICK q : \E place \in Places :
            /\ Step(g, register_for_proceed_callback(g, i), i, q, place) /\ SameRequest(t, q)
            /\ q.st = t.st /\ q.turn = t.turn /\ q.data = t.data
            /\ q.done = t.done /\ q.blocked = t.blocked
            /\ IF t.data \/ t.st >= SEND_BODY_IS_FINAL
               THEN place = "none" /\ (q.active <=> t.active \/ t.window)
               ELSE place = "to_proceed" /\ q.active = t.active
    BY <1>13, RegisterFacts
<1>15. PICK place \in Places :
            /\ Step(g, register_for_proceed_callback(g, i), i, q, place) /\ SameRequest(t, q)
            /\ q.st = t.st /\ q.turn = t.turn /\ q.data = t.data
            /\ q.done = t.done /\ q.blocked = t.blocked
            /\ IF t.data \/ t.st >= SEND_BODY_IS_FINAL
               THEN place = "none" /\ (q.active <=> t.active \/ t.window)
               ELSE place = "to_proceed" /\ q.active = t.active
    BY <1>14
<1>16. Step(d, SendBody(d, i, answer, bufs), i, q, place)
    BY <1>3, <1>12, <1>15, StepAgain
<1>17. SameRequest(r, q) /\ t.window = r.window /\ t.active = r.active
    BY <1>2, <1>5, <1>8, <1>15 DEF SameRequest
<1>18. /\ q.st = (IF answer = "progress" THEN SEND_BODY ELSE SEND_BODY_IS_FINAL)
       /\ q.turn = r.turn /\ q.data = bufs
       /\ q.done = r.done /\ q.blocked = r.blocked
    BY <1>2, <1>5, <1>8, <1>15
<1>19. IF bufs \/ answer # "progress"
       THEN place = "none" /\ (q.active <=> r.active \/ r.window)
       ELSE place = "to_proceed" /\ q.active = r.active
  <2>1. (t.data \/ t.st >= SEND_BODY_IS_FINAL) <=> (bufs \/ answer # "progress")
      BY <1>5, <1>8
  <2> QED BY <1>15, <1>17, <2>1
<1> QED BY <1>16, <1>17, <1>18, <1>19

(* finalostream_send: stream r on the list place becomes q on the list place2. *)
Sent(early_data, r, place, answer, bufs, q, place2) ==
    /\ SameRequest(r, q) /\ q.blocked = FALSE /\ (q.done <=> answer \notin {"progress", "too_early"})
    /\ \/ /\ answer = "too_early" /\ q.st = r.st /\ q.active = r.active /\ q.data = FALSE
          /\ q.turn = ~early_data /\ place2 = (IF early_data THEN "early" ELSE "none")
       \/ /\ answer # "too_early" /\ r.st = END_STREAM
          /\ q.st = END_STREAM /\ q.turn = FALSE /\ q.active = r.active /\ q.data = FALSE
          /\ place2 = place
       \/ /\ r.st \in RECV_BODY .. SEND_HEADERS /\ (answer = "refused" \/ (answer = "final" /\ bufs = FALSE))
          /\ q.st = END_STREAM /\ q.turn = FALSE /\ q.active = FALSE /\ q.data = FALSE
          /\ place2 = "to_proceed"
       \/ /\ r.st \in RECV_BODY .. SEND_BODY /\ answer \in {"progress", "final", "error"}
          /\ q.st = (IF answer = "progress" THEN SEND_BODY ELSE SEND_BODY_IS_FINAL)
          /\ q.turn = FALSE /\ q.data = bufs
          /\ IF bufs \/ answer # "progress"
             THEN place2 = "none" /\ (q.active <=> r.active \/ r.window)
             ELSE place2 = "to_proceed" /\ q.active = r.active

LEMMA SendFacts ==
  ASSUME NEW d \in Conn, NEW i \in Ids, NEW place \in Places, ListsOK(d), Place(d, i, place),
         NEW answer \in {"progress", "final", "error", "refused", "too_early"}, NEW bufs \in BOOLEAN,
         ~d.s[i].done, ~d.s[i].data, d.s[i].st \in RECV_BODY .. SEND_BODY \/ d.s[i].st = END_STREAM,
         d.s[i].st # END_STREAM => place = "none",
         answer \in {"too_early", "refused"} => d.s[i].st \in RECV_BODY .. SEND_HEADERS
  PROVE  \E q : \E place2 \in Places :
            /\ Step(d, finalostream_send(d, i, answer, bufs), i, q, place2)
            /\ Sent(d.early_data, d.s[i], place, answer, bufs, q, place2)
<1> DEFINE r == d.s[i]
           e == Answered(d, i, answer)
           out == finalostream_send(d, i, answer, bufs)
           dn == answer \notin {"progress", "too_early"}
<1>0. r \in Stream /\ "none" \in Places /\ "early" \in Places /\ "to_proceed" \in Places
    BY DEF Conn, Places
<1>a. /\ r.st \in 0 .. 8 /\ (r.st = 3 \/ r.st = 4 \/ r.st = 5 \/ r.st = 6 \/ r.st = 8)
      /\ (r.st # END_STREAM => place = "none")
    BY <1>0 DEF Stream
<1>b. answer = "too_early" \/ answer = "refused" => r.st <= SEND_HEADERS
    OBVIOUS
<1>1. PICK p : /\ Only(d, e, i, p) /\ SameRequest(r, p)
               /\ p.st = r.st /\ p.turn = FALSE /\ p.active = r.active /\ p.data = FALSE
               /\ (p.done <=> dn) /\ p.blocked = FALSE
  <2> HIDE DEF e, r, dn
  <2> QED BY AnsweredFacts DEF e, r, dn
<1>2. Step(d, e, i, p, place) /\ e.early_data = d.early_data
    BY <1>1, OnlyStep DEF Only, Moved, Rest
<1>3. e \in Conn /\ e.s[i] = p /\ ListsOK(e) /\ Place(e, i, place) /\ p \in Stream
  <2> HIDE DEF e, r, dn
  <2> QED BY <1>2, StepAt
<1>4. CASE answer = "too_early"
  <2>1. out = register_for_replay(Check(e, r.st <= SEND_HEADERS, "425"), i)
      BY <1>4 DEF finalostream_send
  <2> HIDE DEF e
  <2>2. out = register_for_replay(e, i) /\ place = "none"
    <3>1. r.st <= SEND_HEADERS /\ place = "none"
        BY <1>4
    <3> QED BY <2>1, <3>1, CheckTrue
  <2>3. CASE d.early_data
    <3>1. out = ToEarly(e, i)
      <4>1. ~Linked(e, i)
          BY <1>0, <1>3, <2>2, NotLinked
      <4> QED BY <1>2, <2>2, <2>3, <4>1 DEF register_for_replay, Check, ToEarly
    <3>2. Step(e, ToEarly(e, i), i, p, "early")
        BY <1>3, <2>2, AppendStep
    <3>3. Step(d, out, i, p, "early")
        BY <1>2, <3>1, <3>2, StepAgain
    <3>4. Sent(d.early_data, r, place, answer, bufs, p, "early")
        BY <1>1, <1>4, <2>3 DEF Sent
    <3> HIDE DEF out
    <3> QED BY <1>0, <3>3, <3>4 DEF out
  <2>4. CASE ~d.early_data
    <3> DEFINE q == [p EXCEPT !.turn = TRUE]
    <3>1. out = [e EXCEPT !.s[i] = q]
        BY <1>2, <1>3, <2>2, <2>4 DEF register_for_replay
    <3>2. /\ q \in Stream /\ SameRequest(p, q) /\ q.st = p.st /\ q.active = p.active /\ q.data = p.data
          /\ q.done = p.done /\ q.blocked = p.blocked /\ q.turn = TRUE
        BY <1>3 DEF Stream, SameRequest
    <3> HIDE DEF q, out
    <3>3. Only(e, out, i, q)
        BY <1>3, <3>1, <3>2, PutOnly DEF SameRequest
    <3>4. Step(d, out, i, q, "none")
        BY <1>2, <2>2, <3>3, StepOnly
    <3>5. SameRequest(r, q)
        BY <1>1, <3>2 DEF SameRequest
    <3>6. Sent(d.early_data, r, place, answer, bufs, q, "none")
      <4>1. q.turn = ~d.early_data
          BY <2>4, <3>2
      <4> QED BY <1>1, <1>4, <2>4, <3>2, <3>5, <4>1 DEF Sent
    <3> QED BY <1>0, <3>4, <3>6 DEF out
  <2> QED BY <2>3, <2>4
<1>5. CASE answer # "too_early" /\ r.st = END_STREAM
  <2>1. out = e
      BY <1>5 DEF finalostream_send
  <2> HIDE DEF e, out
  <2>2. Sent(d.early_data, r, place, answer, bufs, p, place)
      BY <1>1, <1>5 DEF Sent
  <2> QED BY <1>2, <2>1, <2>2 DEF out
<1>6. CASE r.st \in RECV_BODY .. SEND_HEADERS /\ answer = "refused"
  <2> DEFINE f == StartHeaders(e, i)
             m == [p EXCEPT !.st = SEND_HEADERS]
  <2>1. out = request_write_and_close(f, i) /\ place = "none"
    <3>1. place = "none"
        BY <1>6
    <3>2. out = request_write_and_close(f, i)
      <4>1. /\ answer # "too_early" /\ r.st # END_STREAM
            /\ r.st # SEND_BODY
            /\ answer # "final" /\ answer \notin {"progress", "error"}
          BY <1>6
      <4> QED BY <1>6, <4>1, Zenon DEF finalostream_send
    <3> QED BY <3>1, <3>2
  <2> HIDE DEF e
  <2>2. Only(e, f, i, m)
      BY <1>1, <1>3, <1>6, StartHeadersFacts
  <2>3. /\ SameRequest(p, m) /\ m.st = SEND_HEADERS /\ m.turn = p.turn /\ m.data = p.data
        /\ m.done = p.done
      BY <1>3 DEF Stream, SameRequest
  <2> HIDE DEF f, m, out
  <2>4. Step(d, f, i, m, "none")
      BY <1>2, <2>1, <2>2, StepOnly
  <2>5. f \in Conn /\ f.s[i] = m /\ ListsOK(f) /\ Place(f, i, "none") /\ f.s[i].st \in IDLE .. SEND_BODY_IS_FINAL
    <3>1. f \in Conn /\ f.s[i] = m /\ ListsOK(f) /\ Place(f, i, "none")
        BY <2>4, StepAt
    <3> QED BY <2>3, <3>1
  <2>6. PICK q : /\ Step(f, request_write_and_close(f, i), i, q, "to_proceed") /\ SameRequest(m, q)
                 /\ q.st = END_STREAM /\ q.turn = m.turn /\ q.active = FALSE /\ q.data = m.data
                 /\ q.done = m.done /\ q.blocked = FALSE
      BY <2>5, WriteCloseFacts
  <2>7. Step(d, out, i, q, "to_proceed")
      BY <2>1, <2>4, <2>6, StepAgain
  <2>8. SameRequest(r, q)
      BY <1>1, <2>3, <2>6 DEF SameRequest
  <2>9. Sent(d.early_data, r, place, answer, bufs, q, "to_proceed")
    <3>1. (q.done <=> dn) /\ q.data = FALSE /\ q.turn = FALSE
        BY <1>1, <2>3, <2>6
    <3> QED BY <1>6, <2>6, <2>8, <3>1 DEF Sent
  <2> QED BY <1>0, <2>7, <2>9 DEF out
<1>7. CASE r.st \in RECV_BODY .. SEND_HEADERS /\ answer = "final" /\ bufs = FALSE
  <2> DEFINE f == StartBody(e, i)
             m == [p EXCEPT !.st = SEND_BODY]
  <2>1. out = request_write_and_close(f, i) /\ place = "none"
    <3>1. place = "none"
        BY <1>7
    <3>2. out = request_write_and_close(f, i)
      <4>1. /\ answer # "too_early" /\ r.st # END_STREAM
            /\ r.st # SEND_BODY
            /\ answer # "refused" /\ answer \notin {"progress", "error"}
            /\ ~bufs
          BY <1>7
      <4> QED BY <1>7, <4>1, Zenon DEF finalostream_send
    <3> QED BY <3>1, <3>2
  <2> HIDE DEF e
  <2>2. Only(e, f, i, m)
      BY <1>1, <1>3, <1>7, StartBodyFacts
  <2>3. /\ SameRequest(p, m) /\ m.st = SEND_BODY /\ m.turn = p.turn /\ m.data = p.data
        /\ m.done = p.done
      BY <1>3 DEF Stream, SameRequest
  <2> HIDE DEF f, m, out
  <2>4. Step(d, f, i, m, "none")
      BY <1>2, <2>1, <2>2, StepOnly
  <2>5. f \in Conn /\ f.s[i] = m /\ ListsOK(f) /\ Place(f, i, "none") /\ f.s[i].st \in IDLE .. SEND_BODY_IS_FINAL
    <3>1. f \in Conn /\ f.s[i] = m /\ ListsOK(f) /\ Place(f, i, "none")
        BY <2>4, StepAt
    <3> QED BY <2>3, <3>1
  <2>6. PICK q : /\ Step(f, request_write_and_close(f, i), i, q, "to_proceed") /\ SameRequest(m, q)
                 /\ q.st = END_STREAM /\ q.turn = m.turn /\ q.active = FALSE /\ q.data = m.data
                 /\ q.done = m.done /\ q.blocked = FALSE
      BY <2>5, WriteCloseFacts
  <2>7. Step(d, out, i, q, "to_proceed")
      BY <2>1, <2>4, <2>6, StepAgain
  <2>8. SameRequest(r, q)
      BY <1>1, <2>3, <2>6 DEF SameRequest
  <2>9. Sent(d.early_data, r, place, answer, bufs, q, "to_proceed")
    <3>1. (q.done <=> dn) /\ q.data = FALSE /\ q.turn = FALSE
        BY <1>1, <2>3, <2>6
    <3> QED BY <1>7, <2>6, <2>8, <3>1 DEF Sent
  <2> QED BY <1>0, <2>7, <2>9 DEF out
<1>8. CASE /\ r.st \in RECV_BODY .. SEND_BODY /\ answer \in {"progress", "final", "error"}
           /\ ~(r.st \in RECV_BODY .. SEND_HEADERS /\ answer = "final" /\ bufs = FALSE)
  <2>1. out = SendBody(e, i, answer, bufs) /\ place = "none"
    <3>1. place = "none"
        BY <1>8
    <3>2. out = SendBody(e, i, answer, bufs)
      <4>1. /\ answer # "too_early" /\ r.st # END_STREAM
            /\ answer # "refused"
            /\ ~(r.st \in RECV_BODY .. SEND_HEADERS /\ answer = "final" /\ ~bufs)
            /\ \/ r.st \in RECV_BODY .. SEND_HEADERS /\ answer \in {"progress", "error"}
               \/ r.st \in RECV_BODY .. SEND_HEADERS /\ answer = "final" /\ bufs
               \/ r.st = SEND_BODY /\ answer \in {"progress", "final", "error"}
          BY <1>8
      <4> QED BY <1>8, <4>1, Zenon DEF finalostream_send
    <3> QED BY <3>1, <3>2
  <2> HIDE DEF e, out
  <2>2. PICK q : \E place2 \in Places :
            /\ Step(e, SendBody(e, i, answer, bufs), i, q, place2) /\ SameRequest(p, q)
            /\ q.st = (IF answer = "progress" THEN SEND_BODY ELSE SEND_BODY_IS_FINAL)
            /\ q.turn = p.turn /\ q.data = bufs
            /\ q.done = p.done /\ q.blocked = p.blocked
            /\ IF bufs \/ answer # "progress"
               THEN place2 = "none" /\ (q.active <=> p.active \/ p.window)
               ELSE place2 = "to_proceed" /\ q.active = p.active
    <3>1. e.s[i].st \in RECV_BODY .. SEND_BODY
        BY <1>1, <1>3, <1>8
    <3>2. Place(e, i, "none")
        BY <1>3, <2>1
    <3> QED BY <1>3, <3>1, <3>2, SendBodyFacts
  <2>3. PICK place2 \in Places :
            /\ Step(e, SendBody(e, i, answer, bufs), i, q, place2) /\ SameRequest(p, q)
            /\ q.st = (IF answer = "progress" THEN SEND_BODY ELSE SEND_BODY_IS_FINAL)
            /\ q.turn = p.turn /\ q.data = bufs
            /\ q.done = p.done /\ q.blocked = p.blocked
            /\ IF bufs \/ answer # "progress"
               THEN place2 = "none" /\ (q.active <=> p.active \/ p.window)
               ELSE place2 = "to_proceed" /\ q.active = p.active
      BY <2>2
  <2>4. Step(d, out, i, q, place2)
      BY <1>2, <2>1, <2>3, StepAgain
  <2>5. SameRequest(r, q) /\ p.window = r.window
      BY <1>1, <2>3 DEF SameRequest
  <2>6. Sent(d.early_data, r, place, answer, bufs, q, place2)
    <3>1. (q.done <=> dn) /\ q.blocked = FALSE /\ q.turn = FALSE
        BY <1>1, <2>3
    <3>2. IF bufs \/ answer # "progress"
          THEN place2 = "none" /\ (q.active <=> r.active \/ r.window)
          ELSE place2 = "to_proceed" /\ q.active = r.active
        BY <1>1, <2>3, <2>5
    <3> QED BY <1>8, <2>3, <2>5, <3>1, <3>2 DEF Sent
  <2> QED BY <2>4, <2>6 DEF out
<1> QED BY <1>4, <1>5, <1>6, <1>7, <1>8

(* All of Good but what is left of a stream that has ended *)
Well(d, i, r, place) ==
    /\ FreshOK(r, place) /\ BodyOK(d, r, place) /\ QueueOK(r, place) /\ SendOK(d, r, place) /\ WriteOK(d, r)
    /\ BlockedOK(d, r, place) /\ RunOK(d, i, r, place)
    /\ r.st # ABSENT => d.state # FREED

LEMMA GoodWell ==
  ASSUME NEW d, NEW i, NEW r, NEW place
  PROVE  Good(d, i, r, place) <=> Well(d, i, r, place) /\ EndOK(d, r, place)
BY DEF Good, Well

(* A stream whose handler may send has come this far. *)
LEMMA TurnFacts ==
  ASSUME NEW d, NEW i, NEW r \in Stream, NEW place, Well(d, i, r, place), r.turn
  PROVE  /\ r.st \in RECV_BODY .. SEND_BODY \/ r.st = END_STREAM
         /\ r.st # REQ_PENDING /\ r.called /\ ~r.done /\ ~r.data
         /\ r.st # END_STREAM => place = "none"
         /\ d.state # FREED
<1>1. r.st \in 0 .. 8
    BY DEF Stream
<1> QED BY <1>1 DEF Well, FreshOK, SendOK

LEMMA SentWell ==
  ASSUME NEW d, NEW i, NEW r \in Stream, NEW place \in Places, NEW q, NEW place2 \in Places,
         NEW answer \in {"progress", "final", "error", "refused", "too_early"}, NEW bufs \in BOOLEAN,
         Well(d, i, r, place), r.turn, Sent(d.early_data, r, place, answer, bufs, q, place2),
         answer = "too_early" => "tooearly" \in d.features /\ r.st <= SEND_HEADERS
  PROVE  Well(d, i, q, place2)
<1>1. r.st \in 0 .. 8 /\ r.body \in 0 .. 4
    BY DEF Stream
<1>2. /\ r.st \in RECV_BODY .. SEND_BODY \/ r.st = END_STREAM
      /\ r.st # REQ_PENDING /\ r.called /\ ~r.done /\ ~r.data
      /\ r.st # END_STREAM => place = "none"
    BY TurnFacts
<1>4. FreshOK(q, place2) /\ BodyOK(d, q, place2) /\ QueueOK(q, place2)
    BY <1>1, <1>2 DEF Well, FreshOK, BodyOK, QueueOK, SendOK, Sent, SameRequest
<1>5. SendOK(d, q, place2)
  <2>1. q.called = r.called /\ q.window = r.window /\ ~r.active /\ place # "early"
      BY <1>2 DEF Well, SendOK, Sent, SameRequest
  <2>2. CASE answer = "too_early"
    <3>1. /\ q.st = r.st /\ q.active = r.active /\ q.data = FALSE /\ ~q.done
          /\ (q.turn <=> ~d.early_data) /\ place2 = (IF d.early_data THEN "early" ELSE "none")
        BY <1>2, <2>2 DEF Sent
    <3>2. q.st = RECV_BODY \/ q.st = SEND_HEADERS
        BY <1>1, <1>2, <2>2, <3>1
    <3> QED BY <1>1, <1>2, <2>1, <2>2, <3>1, <3>2 DEF SendOK
  <2>3. CASE answer # "too_early"
      BY <1>1, <1>2, <2>1, <2>3 DEF Well, SendOK, Sent
  <2> QED BY <2>2, <2>3
<1>6. WriteOK(d, q)
    BY <1>1, <1>2 DEF Well, WriteOK, Sent, SameRequest
<1>7. BlockedOK(d, q, place2) /\ RunOK(d, i, q, place2)
    BY <1>1, <1>2 DEF Well, BlockedOK, RunOK, Sent, SameRequest
<1>8. q.st # ABSENT => d.state # FREED
    BY TurnFacts
<1> QED BY <1>4, <1>5, <1>6, <1>7, <1>8 DEF Well

LEMMA SentEnd ==
  ASSUME NEW d, NEW i, NEW r \in Stream, NEW place \in Places, NEW q, NEW place2 \in Places,
         NEW answer \in {"progress", "final", "error", "refused", "too_early"}, NEW bufs \in BOOLEAN,
         Good(d, i, r, place), r.turn, Sent(d.early_data, r, place, answer, bufs, q, place2),
         answer = "too_early" => "tooearly" \in d.features,
         answer = "refused" => "refused" \in d.features,
         d.features \cap {"unaccepted", "refused", "tooearly"} = {} /\ d.state < IS_CLOSING
             /\ r.proceed /\ r.st < SEND_BODY => r.write = "open"
  PROVE  EndOK(d, q, place2)
<1>1. r.st \in 0 .. 8 /\ r.body \in 0 .. 4
    BY DEF Stream
<1>2. /\ r.st \in RECV_BODY .. SEND_BODY \/ r.st = END_STREAM
      /\ r.st # REQ_PENDING /\ r.called /\ ~r.done /\ ~r.data
      /\ r.st # END_STREAM => place = "none"
    BY TurnFacts, GoodWell
<1> SUFFICES ASSUME d.features \cap {"unaccepted", "refused", "tooearly"} = {}, d.state < IS_CLOSING
             PROVE  /\ q.st >= SEND_BODY /\ q.proceed => q.write = "open"
                    /\ q.write = "dead" => q.body = CLOSE_DELIVERED
                    /\ q.st = END_STREAM /\ place2 = "none" => q.proceed
    BY DEF EndOK
<1>3. /\ "unaccepted" \notin d.features /\ "refused" \notin d.features /\ "tooearly" \notin d.features
    OBVIOUS
<1>4. /\ r.st >= SEND_BODY /\ r.proceed => r.write = "open"
      /\ r.write = "dead" => r.body = CLOSE_DELIVERED
      /\ r.st = END_STREAM /\ place = "none" => r.proceed
    BY DEF Good, EndOK
<1> QED BY <1>1, <1>2, <1>3, <1>4 DEF Sent, SameRequest

(* A handler sends. *)
LEMMA LandsSend ==
  ASSUME NEW d \in Conn, NEW e, NEW i \in Ids, NEW r, NEW place \in Places, Step(d, e, i, r, place),
         Good(d, i, r, place), r.turn, Serves(d.s[i]) => Serves(r),
         NEW answer \in {"progress", "final", "error", "refused", "too_early"}, NEW bufs \in BOOLEAN,
         answer = "too_early" => "tooearly" \in d.features,
         answer = "refused" => "refused" \in d.features,
         answer \in {"too_early", "refused"} => r.st <= SEND_HEADERS,
         d.features \cap {"unaccepted", "refused", "tooearly"} = {} /\ d.state < IS_CLOSING
             /\ r.proceed /\ r.st < SEND_BODY => r.write = "open"
  PROVE  Lands(d, finalostream_send(e, i, answer, bufs), i)
<1> DEFINE out == finalostream_send(e, i, answer, bufs)
<1>1. /\ e \in Conn /\ e.s[i] = r /\ r \in Stream /\ ListsOK(e) /\ Place(e, i, place)
      /\ e.early_data = d.early_data
    BY StepAt
<1>2. Well(d, i, r, place)
    BY GoodWell
<1>3. /\ r.st \in RECV_BODY .. SEND_BODY \/ r.st = END_STREAM
      /\ r.st # REQ_PENDING /\ r.called /\ ~r.done /\ ~r.data
      /\ r.st # END_STREAM => place = "none"
    BY <1>1, <1>2, TurnFacts
<1>4. answer \in {"too_early", "refused"} => r.st \in RECV_BODY .. SEND_HEADERS
    BY <1>3
<1>5. PICK q : \E place2 \in Places : Step(e, out, i, q, place2) /\ Sent(e.early_data, r, place, answer, bufs, q, place2)
    BY <1>1, <1>3, <1>4, SendFacts
<1> HIDE DEF out
<1>6. PICK place2 \in Places : Step(e, out, i, q, place2) /\ Sent(d.early_data, r, place, answer, bufs, q, place2)
    BY <1>1, <1>5
<1>7. Step(d, out, i, q, place2)
    BY <1>6, StepAgain
<1>8. Well(d, i, q, place2) /\ Keeps(d, i, q, place2)
  <2>1. answer = "too_early" => "tooearly" \in d.features /\ r.st <= SEND_HEADERS
      OBVIOUS
  <2>2. Well(d, i, q, place2)
      BY <1>1, <1>2, <1>6, <2>1, SentWell
  <2>3. place2 # "pending"
    <3>1. place = "pending" => r.st = REQ_PENDING \/ ~r.called
        BY <1>2 DEF Well, QueueOK
    <3> QED BY <1>3, <1>6, <3>1 DEF Sent
  <2>4. Serves(r) => Serves(q)
    <3>1. r.st \in 0 .. 8
        BY <1>1 DEF Stream
    <3>2. q.streamed = r.streamed /\ (r.st >= SEND_HEADERS => q.st >= SEND_HEADERS)
        BY <1>3, <1>6, <3>1 DEF Sent, SameRequest
    <3> QED BY <3>2 DEF Serves
  <2> QED BY <2>2, <2>3, <2>4 DEF Keeps
<1>9. EndOK(d, q, place2)
    BY <1>1, <1>6, SentEnd
<1>10. Good(d, i, q, place2)
    BY <1>8, <1>9, GoodWell
<1> QED BY <1>7, <1>8, <1>10, LandsStep DEF out

-----------------------------------------------------------------------------
(* Upstreams that break off *)

LEMMA GoneFacts ==
  ASSUME NEW d \in Conn, NEW i \in Ids
  PROVE  \E q : LET r == d.s[i] IN
            /\ Only(d, Gone(d, i), i, q)
            /\ q.write = (IF r.write = "open" THEN "dead" ELSE r.write) /\ q.busy = FALSE
            /\ q.st = r.st /\ q.body = r.body /\ q.proceed = r.proceed /\ q.streamed = r.streamed
            /\ q.tunnel = r.tunnel /\ q.entity = r.entity /\ q.more = r.more /\ q.called = r.called
            /\ q.turn = r.turn /\ q.active = r.active /\ q.data = r.data /\ q.window = r.window
            /\ q.done = r.done /\ q.blocked = r.blocked
<1> DEFINE r == d.s[i]
           w == IF r.write = "open" THEN "dead" ELSE r.write
           p == [r EXCEPT !.write = w]
           q == [p EXCEPT !.busy = FALSE]
<1>0. r \in Stream
    BY DEF Conn
<1>1. w \in {"none", "open", "dead"}
    BY <1>0 DEF Stream
<1>2. Gone(d, i) = [d EXCEPT !.s[i] = [p EXCEPT !.busy = FALSE]]
  <2>1. Gone(d, i) = [d EXCEPT !.s[i] = [r EXCEPT !.write = w, !.busy = FALSE]]
      BY Zenon DEF Gone
  <2> HIDE DEF w
  <2> QED BY <1>0, <2>1 DEF Stream
<1> HIDE DEF w
<1>3. p \in Stream /\ p.write = w
    BY <1>0, <1>1 DEF Stream
<1>4. /\ p.st = r.st /\ p.body = r.body /\ p.proceed = r.proceed /\ p.streamed = r.streamed
      /\ p.tunnel = r.tunnel /\ p.entity = r.entity /\ p.more = r.more /\ p.called = r.called
      /\ p.turn = r.turn /\ p.active = r.active /\ p.data = r.data /\ p.window = r.window
      /\ p.done = r.done /\ p.blocked = r.blocked
    BY <1>0 DEF Stream
<1> HIDE DEF p
<1>5. q \in Stream /\ q.write = w /\ q.busy = FALSE
    BY <1>3 DEF Stream
<1>6. /\ q.st = p.st /\ q.body = p.body /\ q.proceed = p.proceed /\ q.streamed = p.streamed
      /\ q.tunnel = p.tunnel /\ q.entity = p.entity /\ q.more = p.more /\ q.called = p.called
      /\ q.turn = p.turn /\ q.active = p.active /\ q.data = p.data /\ q.window = p.window
      /\ q.done = p.done /\ q.blocked = p.blocked
    BY <1>3 DEF Stream
<1>7. Gone(d, i) = [d EXCEPT !.s[i] = q]
    BY <1>2
<1> HIDE DEF q
<1>8. Only(d, Gone(d, i), i, q)
    BY <1>4, <1>5, <1>6, <1>7, PutOnly
<1> QED BY <1>4, <1>5, <1>6, <1>8 DEF w

(* What proceed_request does first when there was an error *)
Stopped(d, i) ==
    set_req_body_state(Check([d EXCEPT !.s[i] = [@ EXCEPT !.entity = "null", !.busy = FALSE, !.proceed = FALSE]],
                             d.s[i].streamed, "streamed"), i, CLOSE_DELIVERED)

SameAnswer(r, q) ==
    /\ q.st = r.st /\ q.streamed = r.streamed /\ q.tunnel = r.tunnel /\ q.called = r.called
    /\ q.turn = r.turn /\ q.active = r.active /\ q.data = r.data /\ q.window = r.window
    /\ q.done = r.done

LEMMA StoppedFacts ==
  ASSUME NEW d \in Conn, NEW i \in Ids, d.s[i].streamed, d.s[i].body < CLOSE_DELIVERED
  PROVE  \E q : /\ Only(d, Stopped(d, i), i, q)
                /\ q.body = CLOSE_DELIVERED /\ q.entity = "null" /\ q.busy = FALSE /\ q.proceed = FALSE
                /\ SameAnswer(d.s[i], q) /\ q.write = d.s[i].write /\ q.more = d.s[i].more
                /\ q.blocked = d.s[i].blocked
<1> DEFINE r == d.s[i]
           p == [r EXCEPT !.entity = "null", !.busy = FALSE, !.proceed = FALSE]
           e == [d EXCEPT !.s[i] = p]
           q == [p EXCEPT !.body = CLOSE_DELIVERED]
<1>0. r \in Stream
    BY DEF Conn
<1>1. Stopped(d, i) = set_req_body_state(e, i, CLOSE_DELIVERED)
  <2>1. Stopped(d, i) = set_req_body_state(Check(e, r.streamed, "streamed"), i, CLOSE_DELIVERED)
      BY Zenon DEF Stopped
  <2> HIDE DEF e
  <2> QED BY <2>1, CheckTrue, Zenon
<1>2. /\ p \in Stream /\ p.entity = "null" /\ p.busy = FALSE /\ p.proceed = FALSE /\ p.body = r.body
      /\ SameAnswer(r, p) /\ p.write = r.write /\ p.more = r.more /\ p.blocked = r.blocked
    BY <1>0 DEF Stream, SameAnswer
<1> HIDE DEF p
<1>3. Only(d, e, i, p)
    BY <1>2, PutOnly DEF SameAnswer
<1> HIDE DEF e
<1>4. e \in Conn /\ e.s[i] = p
    BY <1>3, OnlyAt
<1>5. Only(e, set_req_body_state(e, i, CLOSE_DELIVERED), i, q)
  <2>1. p.body < CLOSE_DELIVERED /\ ~p.proceed /\ CLOSE_DELIVERED \in BEFORE_FIRST_FRAME .. CLOSE_DELIVERED
      BY <1>2
  <2> QED BY <1>4, <2>1, BodyFacts
<1>6. /\ q.entity = "null" /\ q.busy = FALSE /\ q.proceed = FALSE /\ q.body = CLOSE_DELIVERED
      /\ SameAnswer(p, q) /\ q.write = p.write /\ q.more = p.more /\ q.blocked = p.blocked
    BY <1>2 DEF Stream, SameAnswer
<1> HIDE DEF q
<1>7. Only(d, Stopped(d, i), i, q)
    BY <1>1, <1>3, <1>5, OnlyAgain
<1>8. SameAnswer(r, q)
    BY <1>2, <1>6 DEF SameAnswer
<1> QED BY <1>2, <1>6, <1>7, <1>8

(* The stream is marked to be closed and linked, so that it is not freed. *)
LEMMA MarkedFacts ==
  ASSUME NEW d \in Conn, NEW i \in Ids, NEW place \in Places, ListsOK(d), Place(d, i, place),
         d.state < IS_CLOSING, NEW g, g = [stream_send_error(d) EXCEPT !.s[i].active = FALSE]
  PROVE  Step(d, IF Linked(g, i) THEN g ELSE InsertToProceed(g, i), i, [d.s[i] EXCEPT !.active = FALSE],
              IF place = "none" THEN "to_proceed" ELSE place)
<1> DEFINE r == d.s[i]
           q == [r EXCEPT !.active = FALSE]
           f == [d EXCEPT !.s[i] = q]
           h == IF Linked(g, i) THEN g ELSE InsertToProceed(g, i)
<1> SUFFICES Step(d, h, i, q, IF place = "none" THEN "to_proceed" ELSE place)
    OBVIOUS
<1>0. r \in Stream
    BY DEF Conn
<1>1. stream_send_error(d) = d
    BY CheckTrue DEF stream_send_error
<1>2. g = f
    BY <1>1
<1>3. q \in Stream /\ q.st = r.st /\ q.blocked = r.blocked /\ q.streamed = r.streamed
      /\ q.body = r.body /\ q.tunnel = r.tunnel
    BY <1>0 DEF Stream
<1> HIDE DEF q
<1>4. Only(d, f, i, q)
    BY <1>3, PutOnly
<1> HIDE DEF f
<1>5. Step(d, f, i, q, place)
    BY <1>4, OnlyStep
<1>6. f \in Conn /\ f.s[i] = q /\ ListsOK(f) /\ Place(f, i, place)
    BY <1>5, StepAt
<1>7. Linked(f, i) <=> place # "none"
    BY <1>6, NotLinked
<1>8. CASE place = "none"
  <2>1. h = InsertToProceed(f, i)
      BY <1>2, <1>7, <1>8
  <2> HIDE DEF h
  <2>2. Step(f, InsertToProceed(f, i), i, q, "to_proceed")
      BY <1>6, <1>8, InsertFacts
  <2>3. Step(d, h, i, q, "to_proceed")
      BY <1>5, <2>1, <2>2, StepAgain
  <2> QED BY <1>8, <2>3
<1>9. CASE place # "none"
  <2>1. h = f
      BY <1>2, <1>7, <1>9
  <2> HIDE DEF h
  <2> QED BY <1>5, <1>9, <2>1
<1> QED BY <1>8, <1>9

(* proceed_request with an error, of a stream that is not freed by it *)
LEMMA ErrorFacts ==
  ASSUME NEW d \in Conn, NEW i \in Ids, NEW place \in Places, ListsOK(d), Place(d, i, place),
         Well(d, i, d.s[i], place), d.s[i].proceed, d.s[i].write = "dead",
         d.s[i].st >= SEND_HEADERS \/ d.state >= IS_CLOSING
  PROVE  \E q : \E place2 \in Places :
            /\ Step(d, ProceedError(d, i), i, q, place2) /\ Good(d, i, q, place2)
            /\ place2 # "pending" /\ (Serves(d.s[i]) => Serves(q)) /\ (q.turn <=> d.s[i].turn) /\ ~q.proceed
<1> DEFINE r == d.s[i]
           f == Stopped(d, i)
           place3 == IF place = "none" THEN "to_proceed" ELSE place
<1>0. r \in Stream /\ r.st \in 0 .. 8 /\ d.state \in 0 .. 3
    BY DEF Conn, Stream
<1>1. r.streamed /\ r.called /\ r.body \in {OPEN, CLOSE_QUEUED} /\ place # "pending" /\ r.st >= RECV_BODY
      /\ r.st # REQ_PENDING
    BY <1>0 DEF Well, FreshOK, BodyOK, QueueOK, WriteOK
<1>2. PICK p : /\ Only(d, f, i, p)
               /\ p.body = CLOSE_DELIVERED /\ p.entity = "null" /\ p.busy = FALSE /\ p.proceed = FALSE
               /\ SameAnswer(r, p) /\ p.write = r.write /\ p.more = r.more /\ p.blocked = r.blocked
  <2>1. r.body < CLOSE_DELIVERED
      BY <1>1
  <2> QED BY <1>1, <2>1, StoppedFacts
<1>3. Step(d, f, i, p, place)
    BY <1>2, OnlyStep
<1>4. /\ f \in Conn /\ f.s[i] = p /\ p \in Stream /\ ListsOK(f) /\ Place(f, i, place)
      /\ f.state = d.state
    BY <1>3, StepAt
<1>5. CASE d.state >= IS_CLOSING
  <2>1. ProceedError(d, i) = f
      BY <1>5 DEF ProceedError, Stopped
  <2> HIDE DEF f
  <2>2. Good(d, i, p, place)
      BY <1>0, <1>1, <1>2, <1>5
      DEF Good, Well, FreshOK, BodyOK, QueueOK, SendOK, WriteOK, BlockedOK, EndOK, RunOK, SameAnswer
  <2>3. (Serves(r) => Serves(p)) /\ (p.turn <=> r.turn) /\ ~p.proceed
      BY <1>2 DEF Serves, SameAnswer
  <2> QED BY <1>1, <1>3, <2>1, <2>2, <2>3
<1>6. CASE d.state < IS_CLOSING
  <2> DEFINE g == [stream_send_error(f) EXCEPT !.s[i].active = FALSE]
             k == IF Linked(g, i) THEN g ELSE InsertToProceed(g, i)
             h == stream_reset(k, i)
             m == [p EXCEPT !.active = FALSE]
             q == Ended(m)
  <2>1. ProceedError(d, i) = Check(h, h.s[i].st # ABSENT, "request_freed")
    <3>1. ~(d.state >= IS_CLOSING)
        BY <1>0, <1>6
    <3> QED BY <3>1, Zenon DEF ProceedError, Stopped
  <2>2. f.state < IS_CLOSING
      BY <1>4, <1>6
  <2> HIDE DEF f
  <2>3. Step(f, k, i, m, place3)
    <3> HIDE DEF g
    <3>1. Step(f, k, i, [f.s[i] EXCEPT !.active = FALSE], place3)
        BY <1>4, <2>2, MarkedFacts DEF g
    <3> QED BY <1>4, <3>1
  <2>4. /\ m.body = CLOSE_DELIVERED /\ m.entity = "null" /\ m.busy = FALSE /\ m.proceed = FALSE
        /\ m.st = p.st /\ m.streamed = p.streamed /\ m.tunnel = p.tunnel /\ m.called = p.called
        /\ m.turn = p.turn /\ m.window = p.window /\ m.done = p.done
        /\ m.write = p.write /\ m.more = p.more /\ m.active = FALSE
      BY <1>2, <1>4 DEF Stream
  <2> HIDE DEF m, g, k
  <2>5. Step(d, k, i, m, place3)
      BY <1>3, <2>3, StepAgain
  <2>6. /\ k \in Conn /\ k.s[i] = m /\ m \in Stream /\ ListsOK(k) /\ Place(k, i, place3)
      BY <2>5, StepAt
  <2>7. m.st \in SEND_HEADERS .. END_STREAM /\ place3 # "none" /\ place3 \in Places
    <3>1. r.st >= SEND_HEADERS
        BY <1>0, <1>6
    <3> QED BY <1>0, <1>2, <2>4, <3>1 DEF SameAnswer, Places
  <2>8. Closable(m, place3)
      BY <2>4, <2>7 DEF Closable
  <2>9. Step(k, h, i, q, place3)
    <3>1. k.s[i].st > REQ_PENDING
        BY <2>6, <2>7
    <3> QED BY <2>6, <2>7, <2>8, <3>1, ResetFacts
  <2>10. Step(d, h, i, q, place3)
      BY <2>5, <2>9, StepAgain
  <2>11. /\ q.st = END_STREAM /\ q.data = FALSE
         /\ q.body = m.body /\ q.proceed = m.proceed /\ q.streamed = m.streamed /\ q.tunnel = m.tunnel
         /\ q.write = m.write /\ q.entity = m.entity /\ q.more = m.more /\ q.busy = m.busy
         /\ q.called = m.called /\ q.turn = m.turn /\ q.active = m.active /\ q.window = m.window
         /\ q.done = m.done
      BY <2>6, EndedFields
  <2> HIDE DEF q, h
  <2>12. ProceedError(d, i) = h
    <3>1. h.s[i] = q
        BY <2>10, StepAt
    <3>2. h.s[i].st # ABSENT
        BY <2>11, <3>1
    <3> QED BY <2>1, <3>2, CheckTrue, Zenon
  <2>13. Good(d, i, q, place3)
    <3>1. /\ q.st = 8 /\ q.body = CLOSE_DELIVERED /\ q.entity = "null" /\ q.busy = FALSE /\ q.proceed = FALSE
          /\ q.data = FALSE /\ q.active = FALSE /\ q.write = "dead"
          /\ q.streamed = r.streamed /\ q.tunnel = r.tunnel /\ q.called = r.called
          /\ q.turn = r.turn /\ q.window = r.window /\ q.done = r.done /\ q.more = r.more
        BY <1>2, <2>4, <2>11 DEF SameAnswer
    <3>2. place3 = "to_proceed" \/ place3 = "early"
        BY <1>1 DEF Places
    <3>3. place3 = "early" => place = "early"
        OBVIOUS
    <3> HIDE DEF place3
    <3> QED BY <1>0, <1>1, <3>1, <3>2, <3>3
        DEF Good, Well, FreshOK, BodyOK, QueueOK, SendOK, WriteOK, BlockedOK, EndOK, RunOK
  <2>14. (Serves(r) => Serves(q)) /\ (q.turn <=> r.turn) /\ ~q.proceed /\ place3 # "pending"
      BY <1>1, <1>2, <2>4, <2>11 DEF Serves, SameAnswer
  <2> QED BY <2>7, <2>10, <2>12, <2>13, <2>14
<1> QED BY <1>0, <1>5, <1>6

(* The same before the response: the stream is closed and the request freed. *)
LEMMA FreedFacts ==
  ASSUME NEW d \in Conn, NEW i \in Ids, NEW place \in Places, ListsOK(d), Place(d, i, place),
         d.s[i].streamed, d.s[i].body < CLOSE_DELIVERED, d.s[i].st = RECV_BODY, d.state < IS_CLOSING
  PROVE  \E l : LET h == RunUnlessClosing(l) IN
            /\ Step(d, l, i, NoStream, "none")
            /\ ProceedError(d, i) = Check(h, h.s[i].st # ABSENT, "request_freed")
<1> DEFINE r == d.s[i]
           f == Stopped(d, i)
           place3 == IF place = "none" THEN "to_proceed" ELSE place
           g == [stream_send_error(f) EXCEPT !.s[i].active = FALSE]
           k == IF Linked(g, i) THEN g ELSE InsertToProceed(g, i)
           h == stream_reset(k, i)
<1>0. r \in Stream /\ place3 \in Places
    BY DEF Conn, Places
<1>1. PICK p : /\ Only(d, f, i, p)
               /\ p.body = CLOSE_DELIVERED /\ p.entity = "null" /\ p.busy = FALSE /\ p.proceed = FALSE
               /\ SameAnswer(r, p) /\ p.write = r.write /\ p.more = r.more /\ p.blocked = r.blocked
    BY StoppedFacts
<1>2. Step(d, f, i, p, place)
    BY <1>1, OnlyStep
<1>3. /\ f \in Conn /\ f.s[i] = p /\ p \in Stream /\ ListsOK(f) /\ Place(f, i, place)
      /\ f.state = d.state
    BY <1>2, StepAt
<1>4. ProceedError(d, i) = Check(h, h.s[i].st # ABSENT, "request_freed")
  <2>1. ~(d.state >= IS_CLOSING)
      BY DEF Conn
  <2> QED BY <2>1, Zenon DEF ProceedError, Stopped
<1> DEFINE m == [p EXCEPT !.active = FALSE]
<1> HIDE DEF f
<1>5. Step(f, k, i, m, place3)
  <2> HIDE DEF g
  <2>1. Step(f, k, i, [f.s[i] EXCEPT !.active = FALSE], place3)
      BY <1>3, MarkedFacts DEF g
  <2> QED BY <1>3, <2>1
<1>6. m.body = CLOSE_DELIVERED /\ m.st = RECV_BODY
    BY <1>1, <1>3 DEF Stream, SameAnswer
<1> HIDE DEF m, g, k
<1>7. Step(d, k, i, m, place3)
    BY <1>2, <1>5, StepAgain
<1>8. k \in Conn /\ k.s[i] = m /\ ListsOK(k) /\ Place(k, i, place3)
    BY <1>7, StepAt
<1>9. Closable(m, place3)
    BY <1>6 DEF Closable
<1>10. PICK l : Step(k, l, i, NoStream, "none") /\ h = RunUnlessClosing(l)
  <2>1. k.s[i].st <= REQ_PENDING
      BY <1>6, <1>8
  <2> QED BY <1>0, <1>8, <1>9, <2>1, ResetFacts
<1> HIDE DEF h
<1>11. Step(d, l, i, NoStream, "none")
    BY <1>7, <1>10, StepAgain
<1> QED BY <1>4, <1>10, <1>11

-----------------------------------------------------------------------------
(* The functions, one by one, land well. *)

LEMMA StreamAt ==
  ASSUME NEW d, NEW i \in Ids, ConnInv(d)
  PROVE  /\ d \in Conn /\ ListsOK(d) /\ d.s[i] \in Stream /\ d.s[i].st \in 0 .. 8 /\ d.s[i].body \in 0 .. 4
         /\ d.state \in 0 .. 3
         /\ \E place \in Places : Place(d, i, place) /\ Good(d, i, d.s[i], place)
<1>1. d \in Conn /\ ListsOK(d)
    BY DEF ConnInv
<1>2. d.s[i] \in Stream /\ d.state \in 0 .. 3
    BY <1>1 DEF Conn
<1>3. d.s[i].st \in 0 .. 8 /\ d.s[i].body \in 0 .. 4
    BY <1>2 DEF Stream
<1> QED BY <1>1, <1>2, <1>3 DEF ConnInv, StreamsGood

(* The handler may send again. *)
LEMMA TurnAgainFacts ==
  ASSUME NEW d \in Conn, NEW i \in Ids
  PROVE  \E q : /\ Only(d, [Block(d, i) EXCEPT !.s[i].turn = TRUE], i, q) /\ SameRequest(d.s[i], q)
                /\ q.st = d.s[i].st /\ q.turn = TRUE /\ q.active = d.s[i].active /\ q.data = d.s[i].data
                /\ q.done = d.s[i].done /\ q.blocked = TRUE
<1> DEFINE r == d.s[i]
           e == Block(d, i)
           p == [r EXCEPT !.blocked = TRUE]
           q == [p EXCEPT !.turn = TRUE]
           f == [e EXCEPT !.s[i].turn = TRUE]
<1>0. r \in Stream
    BY DEF Conn
<1>1. Only(d, e, i, p)
    BY BlockFacts
<1>2. /\ SameRequest(r, p) /\ p.st = r.st /\ p.active = r.active /\ p.data = r.data
      /\ p.done = r.done /\ p.blocked = TRUE
    BY <1>0 DEF Stream, SameRequest
<1> HIDE DEF e, p
<1>3. e \in Conn /\ e.s[i] = p /\ p \in Stream
    BY <1>1, OnlyAt
<1>4. f = [e EXCEPT !.s[i] = q]
    BY <1>3
<1>5. /\ SameRequest(p, q) /\ q.st = p.st /\ q.turn = TRUE /\ q.active = p.active /\ q.data = p.data
      /\ q.done = p.done /\ q.blocked = p.blocked /\ q \in Stream
    BY <1>3 DEF Stream, SameRequest
<1> HIDE DEF q, f
<1>6. Only(e, f, i, q)
    BY <1>3, <1>4, <1>5, PutOnly DEF SameRequest
<1>7. Only(d, f, i, q) /\ SameRequest(r, q)
    BY <1>1, <1>2, <1>5, <1>6, OnlyAgain DEF SameRequest
<1> QED BY <1>2, <1>5, <1>7 DEF f, e

LEMMA LandsProceed ==
  ASSUME NEW d, NEW i \in Ids, ConnInv(d), i \in Elements(d.to_proceed)
  PROVE  Lands(d, ProceedOne(d, i), i)
<1> DEFINE r == d.s[i]
           e == Unlink(d, i)
           out == ProceedOne(d, i)
<1>0. /\ d \in Conn /\ ListsOK(d) /\ r \in Stream /\ r.st \in 0 .. 8 /\ r.body \in 0 .. 4
      /\ d.state \in 0 .. 3
    BY StreamAt
<1>1. Good(d, i, r, "to_proceed")
  <2>1. PICK place \in Places : Place(d, i, place) /\ Good(d, i, r, place)
      BY StreamAt
  <2> QED BY <2>1 DEF Place
<1>2. ~r.data /\ (r.st = SEND_BODY \/ r.st = END_STREAM) /\ "none" \in Places
    BY <1>1 DEF Good, SendOK, Places
<1>3. out = vhttp_http2_stream_proceed(e, i)
    BY <1>2, CheckTrue, Zenon DEF ProceedOne
<1>4. Step(d, e, i, r, "none")
    BY <1>0, UnlinkFacts
<1> HIDE DEF e
<1>5. e \in Conn /\ e.s[i] = r
    BY <1>0, <1>4, StepAt
<1>6. CASE r.st = END_STREAM /\ r.body \in {NONE, CLOSE_DELIVERED}
  <2>1. out = stream_close(e, i)
      BY <1>3, <1>5, <1>6 DEF vhttp_http2_stream_proceed
  <2>2. Closable(r, "none")
      BY <1>1, <1>6 DEF Closable, Good, BodyOK
  <2> HIDE DEF out
  <2> QED BY <1>0, <1>2, <1>4, <2>1, <2>2, LandsClose DEF out
<1>7. CASE r.st = END_STREAM /\ r.body \notin {NONE, CLOSE_DELIVERED}
  <2>1. out = e
      BY <1>3, <1>5, <1>7 DEF vhttp_http2_stream_proceed
  <2>2. Good(d, i, r, "none")
      BY <1>0, <1>1, <1>7
      DEF Good, FreshOK, BodyOK, QueueOK, SendOK, WriteOK, BlockedOK, EndOK, RunOK
  <2>3. Keeps(d, i, r, "none")
      BY DEF Keeps
  <2> HIDE DEF out
  <2> QED BY <1>2, <1>4, <2>1, <2>2, <2>3, LandsStep DEF out
<1>8. CASE r.st = SEND_BODY
  <2>1. out = [Block(e, i) EXCEPT !.s[i].turn = TRUE]
      BY <1>3, <1>5, <1>8 DEF vhttp_http2_stream_proceed
  <2> HIDE DEF out
  <2>2. PICK q : /\ Only(e, out, i, q) /\ SameRequest(r, q)
                 /\ q.st = r.st /\ q.turn = TRUE /\ q.active = r.active /\ q.data = r.data
                 /\ q.done = r.done /\ q.blocked = TRUE
      BY <1>5, <2>1, TurnAgainFacts
  <2>3. Step(d, out, i, q, "none")
      BY <1>0, <1>4, <2>2, StepOnly
  <2>4. Good(d, i, q, "none") /\ Keeps(d, i, q, "none")
      BY <1>0, <1>1, <1>2, <1>8, <2>2
      DEF Good, FreshOK, BodyOK, QueueOK, SendOK, WriteOK, BlockedOK, EndOK, RunOK, SameRequest, Keeps, Serves
  <2> QED BY <1>2, <2>3, <2>4, LandsStep DEF out
<1> QED BY <1>2, <1>6, <1>7, <1>8

LEMMA LandsReplay ==
  ASSUME NEW d, NEW i \in Ids, ConnInv(d), i \in Elements(d.early)
  PROVE  Lands(d, ReplayOne(d, i), i)
<1> DEFINE r == d.s[i]
           e == Unlink(d, i)
           out == ReplayOne(d, i)
<1>0. /\ d \in Conn /\ ListsOK(d) /\ r \in Stream /\ r.st \in 0 .. 8 /\ r.body \in 0 .. 4
      /\ d.state \in 0 .. 3
    BY StreamAt
<1>1. Good(d, i, r, "early")
  <2>1. PICK place \in Places : Place(d, i, place) /\ Good(d, i, r, place)
      BY StreamAt
  <2> QED BY <2>1 DEF Place
<1>2. Step(d, e, i, r, "none") /\ "none" \in Places
    BY <1>0, UnlinkFacts DEF Places
<1>3. out = [Block(e, i) EXCEPT !.s[i].turn = TRUE]
    BY Zenon DEF ReplayOne
<1> HIDE DEF e, out
<1>4. e \in Conn /\ e.s[i] = r
    BY <1>0, <1>2, StepAt
<1>5. PICK q : /\ Only(e, out, i, q) /\ SameRequest(r, q)
               /\ q.st = r.st /\ q.turn = TRUE /\ q.active = r.active /\ q.data = r.data
               /\ q.done = r.done /\ q.blocked = TRUE
    BY <1>3, <1>4, TurnAgainFacts
<1>6. Step(d, out, i, q, "none")
    BY <1>0, <1>2, <1>5, StepOnly
<1>7. Good(d, i, q, "none") /\ Keeps(d, i, q, "none")
  <2>1. /\ r.st \in {RECV_BODY, SEND_HEADERS, END_STREAM} /\ r.called /\ ~r.done /\ "tooearly" \in d.features /\ ~r.data
      BY <1>1 DEF Good, SendOK
  <2>2. d.features \cap {"unaccepted", "refused", "tooearly"} # {}
      BY <2>1
  <2> QED BY <1>0, <1>1, <1>5, <2>1, <2>2
      DEF Good, FreshOK, BodyOK, QueueOK, SendOK, WriteOK, BlockedOK, EndOK, RunOK, SameRequest, Keeps, Serves
<1> QED BY <1>2, <1>6, <1>7, LandsStep DEF out

LEMMA LandsWindow ==
  ASSUME NEW d, NEW i \in Ids, ConnInv(d), NEW window \in BOOLEAN
  PROVE  \E q : \E place \in Places :
            /\ Place(d, i, place) /\ Only(d, update_stream_output_window(d, i, window), i, q)
            /\ Good(d, i, q, place) /\ q.st = d.s[i].st /\ q.streamed = d.s[i].streamed
            /\ q.body = d.s[i].body /\ q.tunnel = d.s[i].tunnel /\ q.blocked = d.s[i].blocked
<1> DEFINE r == d.s[i]
           p == [r EXCEPT !.window = window]
           e == [d EXCEPT !.s[i] = p]
           Wakes == ~r.window /\ window /\ (r.data \/ r.st = SEND_BODY_IS_FINAL)
           out == update_stream_output_window(d, i, window)
<1>0. /\ d \in Conn /\ ListsOK(d) /\ r \in Stream /\ r.st \in 0 .. 8 /\ r.body \in 0 .. 4
      /\ d.state \in 0 .. 3
    BY StreamAt
<1>1. PICK place \in Places : Place(d, i, place) /\ Good(d, i, r, place)
    BY StreamAt
<1>2. out = IF Wakes THEN Activate(e, i) ELSE e
    BY DEF update_stream_output_window
<1>3. /\ p \in Stream /\ p.window = window
      /\ p.st = r.st /\ p.body = r.body /\ p.proceed = r.proceed /\ p.streamed = r.streamed /\ p.tunnel = r.tunnel
      /\ p.write = r.write /\ p.entity = r.entity /\ p.more = r.more /\ p.busy = r.busy
      /\ p.called = r.called /\ p.turn = r.turn /\ p.active = r.active /\ p.data = r.data
      /\ p.done = r.done /\ p.blocked = r.blocked
    BY <1>0 DEF Stream
<1> HIDE DEF p
<1>4. Only(d, e, i, p)
    BY <1>0, <1>3, PutOnly
<1> HIDE DEF e
<1>5. Step(d, e, i, p, place)
    BY <1>0, <1>1, <1>4, OnlyStep
<1>6. e \in Conn /\ e.s[i] = p /\ ListsOK(e) /\ Place(e, i, place)
    BY <1>0, <1>5, StepAt
<1>7. CASE ~Wakes
  <2>1. out = e
      BY <1>2, <1>7
  <2>2. Good(d, i, p, place)
      BY <1>0, <1>1, <1>3, <1>7
      DEF Good, FreshOK, BodyOK, QueueOK, SendOK, WriteOK, BlockedOK, EndOK, RunOK
  <2> HIDE DEF out
  <2> QED BY <1>1, <1>3, <1>4, <2>1, <2>2 DEF out
<1>8. CASE Wakes
  <2> DEFINE q == [p EXCEPT !.active = TRUE]
  <2>1. out = Activate(e, i) /\ place = "none"
      BY <1>1, <1>2, <1>8 DEF Good, SendOK
  <2>2. ~Linked(e, i)
      BY <1>6, <2>1, NotLinked
  <2>3. Activate(e, i) = [e EXCEPT !.s[i] = q]
    <3>1. Activate(e, i) = [e EXCEPT !.s[i].active = TRUE]
        BY <2>2, CheckTrue, Zenon DEF Activate
    <3> QED BY <1>6, <3>1
  <2>4. /\ q \in Stream /\ q.window = p.window
        /\ q.st = p.st /\ q.body = p.body /\ q.proceed = p.proceed /\ q.streamed = p.streamed /\ q.tunnel = p.tunnel
        /\ q.write = p.write /\ q.entity = p.entity /\ q.more = p.more /\ q.busy = p.busy
        /\ q.called = p.called /\ q.turn = p.turn /\ q.active = TRUE /\ q.data = p.data
        /\ q.done = p.done /\ q.blocked = p.blocked
      BY <1>3 DEF Stream
  <2> HIDE DEF q, out
  <2>5. Only(e, out, i, q)
      BY <1>6, <2>1, <2>3, <2>4, PutOnly
  <2>6. Only(d, out, i, q)
      BY <1>0, <1>4, <2>5, OnlyAgain
  <2>7. Good(d, i, q, place)
      BY <1>0, <1>1, <1>3, <1>8, <2>4
      DEF Good, FreshOK, BodyOK, QueueOK, SendOK, WriteOK, BlockedOK, EndOK, RunOK
  <2> QED BY <1>1, <1>3, <2>4, <2>6, <2>7 DEF out
<1> QED BY <1>7, <1>8

(* The scheduler emits a stream. *)
Finish(e, i) ==
    IF e.s[i].data \/ e.s[i].st = SEND_BODY_IS_FINAL
    THEN [e EXCEPT !.s[i].active = e.s[i].window]
    ELSE InsertToProceed([e EXCEPT !.s[i].active = FALSE], i)

LEMMA FinishFacts ==
  ASSUME NEW e \in Conn, NEW i \in Ids, ListsOK(e), Place(e, i, "none")
  PROVE  \E q : \E place \in Places :
            /\ Step(e, Finish(e, i), i, q, place) /\ SameRequest(e.s[i], q)
            /\ q.st = e.s[i].st /\ q.turn = e.s[i].turn /\ q.data = e.s[i].data
            /\ q.done = e.s[i].done /\ q.blocked = e.s[i].blocked
            /\ IF e.s[i].data \/ e.s[i].st = SEND_BODY_IS_FINAL
               THEN place = "none" /\ q.active = e.s[i].window
               ELSE place = "to_proceed" /\ q.active = FALSE
<1> DEFINE r == e.s[i]
           Left == r.data \/ r.st = SEND_BODY_IS_FINAL
           on == IF Left THEN r.window ELSE FALSE
           q == [r EXCEPT !.active = on]
           f == [e EXCEPT !.s[i] = q]
           out == Finish(e, i)
<1>0. r \in Stream /\ "none" \in Places /\ "to_proceed" \in Places
    BY DEF Conn, Places
<1>1. on \in BOOLEAN /\ (Left => on = r.window) /\ (~Left => on = FALSE)
    BY <1>0 DEF Stream
<1>2. out = IF Left THEN f ELSE InsertToProceed(f, i)
    BY Zenon DEF Finish
<1> HIDE DEF on
<1>3. /\ SameRequest(r, q) /\ q.st = r.st /\ q.turn = r.turn /\ q.active = on /\ q.data = r.data
      /\ q.done = r.done /\ q.blocked = r.blocked /\ q \in Stream
    BY <1>0, <1>1 DEF Stream, SameRequest
<1> HIDE DEF q, out
<1>4. Only(e, f, i, q)
    BY <1>3, PutOnly DEF SameRequest
<1> HIDE DEF f
<1>5. Step(e, f, i, q, "none")
    BY <1>4, OnlyStep
<1>6. f \in Conn /\ f.s[i] = q /\ ListsOK(f) /\ Place(f, i, "none")
    BY <1>5, StepAt
<1>7. CASE Left
    BY <1>0, <1>1, <1>2, <1>3, <1>5, <1>7 DEF out
<1>8. CASE ~Left
  <2>1. Step(f, InsertToProceed(f, i), i, q, "to_proceed")
      BY <1>6, InsertFacts
  <2>2. Step(e, InsertToProceed(f, i), i, q, "to_proceed")
      BY <1>5, <2>1, StepAgain
  <2> QED BY <1>0, <1>1, <1>2, <1>3, <1>8, <2>2 DEF out
<1> QED BY <1>7, <1>8

SameBody(r, q) ==
    /\ q.body = r.body /\ q.proceed = r.proceed /\ q.streamed = r.streamed /\ q.tunnel = r.tunnel
    /\ q.write = r.write /\ q.entity = r.entity /\ q.more = r.more /\ q.busy = r.busy
    /\ q.called = r.called /\ q.turn = r.turn

Emitted(r, outcome, window, q) ==
    \/ ~r.window /\ q = r
    \/ /\ r.window /\ q.st = END_STREAM /\ q.data = FALSE
       /\ (r.st = SEND_BODY_IS_FINAL /\ q.done = r.done) \/ q.done = TRUE
    \/ /\ r.window /\ q.window = window /\ q.st = r.st /\ q.done = r.done
       /\ q.blocked = r.blocked
       /\ (q.data <=> outcome = "part" /\ r.data)
       /\ r.st = SEND_BODY_IS_FINAL => q.data

LEMMA EmitFacts ==
  ASSUME NEW d \in Conn, NEW i \in Ids, NEW outcome \in {"all", "part", "error"}, NEW window \in BOOLEAN,
         d.s[i].st \in {SEND_BODY, SEND_BODY_IS_FINAL}
  PROVE  \E q : /\ Only(d, Emit(d, i, outcome, window), i, q) /\ SameBody(d.s[i], q)
                /\ Emitted(d.s[i], outcome, window, q)
<1> DEFINE r == d.s[i]
           dt == outcome = "part" /\ r.data
           a == [r EXCEPT !.data = dt]
           p == [a EXCEPT !.window = window]
           e == [d EXCEPT !.s[i] = p]
           out == Emit(d, i, outcome, window)
<1>0. r \in Stream
    BY DEF Conn
<1>1. dt \in BOOLEAN
    BY <1>0 DEF Stream
<1>2. e = [d EXCEPT !.s[i] = [@ EXCEPT !.data = dt, !.window = window]]
  <2> HIDE DEF dt
  <2> QED BY <1>0 DEF Stream
<1>3. /\ r.window = FALSE => out = d
      /\ r.window /\ outcome = "error" => out = EndStream([e EXCEPT !.s[i].done = TRUE], i)
      /\ r.window /\ outcome # "error" =>
            out = IF ~dt /\ r.st = SEND_BODY_IS_FINAL THEN EndStream(e, i) ELSE e
  <2> DEFINE x == [d EXCEPT !.s[i] = [@ EXCEPT !.data = dt, !.window = window]]
  <2>1. out = CASE ~r.window -> d
                [] r.window /\ outcome = "error" -> EndStream([x EXCEPT !.s[i].done = TRUE], i)
                [] r.window /\ outcome # "error" ->
                     IF ~dt /\ r.st = SEND_BODY_IS_FINAL THEN EndStream(x, i) ELSE x
      BY Zenon DEF Emit
  <2>2. x = e
      BY <1>2
  <2> HIDE DEF x, e, dt, out
  <2> QED BY <2>1, <2>2, Zenon
<1> HIDE DEF dt
<1>4. /\ a \in Stream /\ a.data = dt
      /\ SameBody(r, a) /\ a.st = r.st /\ a.done = r.done /\ a.blocked = r.blocked
    BY <1>0, <1>1 DEF Stream, SameBody
<1> HIDE DEF a
<1>5. /\ p \in Stream /\ p.data = dt /\ p.window = window
      /\ SameBody(a, p) /\ p.st = a.st /\ p.done = a.done /\ p.blocked = a.blocked
    BY <1>4 DEF Stream, SameBody
<1> HIDE DEF p
<1>6. /\ p.data = dt /\ p.window = window
      /\ SameBody(r, p) /\ p.st = r.st /\ p.done = r.done /\ p.blocked = r.blocked
    BY <1>4, <1>5 DEF SameBody
<1>7. Only(d, e, i, p)
    BY <1>5, <1>6, PutOnly DEF SameBody
<1> HIDE DEF e
<1>8. e \in Conn /\ e.s[i] = p
    BY <1>7, OnlyAt
<1>9. CASE ~r.window
  <2>1. out = d
      BY <1>0, <1>3, <1>9 DEF Stream
  <2>2. Only(d, d, i, r) /\ SameBody(r, r)
      BY OnlySame DEF SameBody
  <2> HIDE DEF out
  <2> QED BY <1>9, <2>1, <2>2 DEF out, Emitted
<1>10. CASE r.window /\ outcome = "error"
  <2> DEFINE t == [p EXCEPT !.done = TRUE]
             f == [e EXCEPT !.s[i].done = TRUE]
             q == [t EXCEPT !.st = END_STREAM, !.blocked = FALSE]
  <2>1. out = EndStream(f, i)
      BY <1>3, <1>10
  <2>2. f = [e EXCEPT !.s[i] = t]
      BY <1>8
  <2>3. /\ t \in Stream /\ t.data = p.data /\ SameBody(p, t) /\ t.st = p.st /\ t.done = TRUE /\ t.blocked = p.blocked
      BY <1>5 DEF Stream, SameBody
  <2> HIDE DEF t, f, out
  <2>4. Only(e, f, i, t)
      BY <1>8, <2>2, <2>3, PutOnly DEF SameBody
  <2>5. f \in Conn /\ f.s[i] = t
      BY <1>8, <2>4, OnlyAt
  <2>6. Only(f, out, i, q)
    <3>1. f.s[i].st \in IDLE .. SEND_BODY_IS_FINAL
        BY <1>6, <2>3, <2>5
    <3> QED BY <2>1, <2>5, <3>1, EndFacts
  <2>7. q.st = END_STREAM /\ q.data = t.data /\ SameBody(t, q) /\ q.done = t.done
      BY <2>3 DEF Stream, SameBody
  <2> HIDE DEF q
  <2>8. Only(d, out, i, q)
      BY <1>7, <1>8, <2>4, <2>6, OnlyAgain
  <2>9. SameBody(r, q) /\ q.data = FALSE /\ q.done = TRUE
    <3>1. dt = FALSE
        BY <1>10 DEF dt
    <3> QED BY <1>6, <2>3, <2>7, <3>1 DEF SameBody
  <2> QED BY <1>10, <2>7, <2>8, <2>9 DEF out, Emitted
<1>11. CASE r.window /\ outcome # "error" /\ ~dt /\ r.st = SEND_BODY_IS_FINAL
  <2> DEFINE q == [p EXCEPT !.st = END_STREAM, !.blocked = FALSE]
  <2>1. out = EndStream(e, i)
      BY <1>3, <1>11
  <2> HIDE DEF out
  <2>2. Only(e, out, i, q)
    <3>1. e.s[i].st \in IDLE .. SEND_BODY_IS_FINAL
        BY <1>6, <1>8
    <3> QED BY <1>8, <2>1, <3>1, EndFacts
  <2>3. q.st = END_STREAM /\ q.data = p.data /\ SameBody(p, q) /\ q.done = p.done
      BY <1>5 DEF Stream, SameBody
  <2> HIDE DEF q
  <2>4. Only(d, out, i, q)
      BY <1>7, <2>2, OnlyAgain
  <2>5. SameBody(r, q) /\ q.data = FALSE /\ q.done = r.done
      BY <1>1, <1>6, <1>11, <2>3 DEF SameBody
  <2> QED BY <1>11, <2>3, <2>4, <2>5 DEF out, Emitted
<1>12. CASE r.window /\ outcome # "error" /\ ~(~dt /\ r.st = SEND_BODY_IS_FINAL)
  <2>1. out = e
      BY <1>3, <1>12
  <2> HIDE DEF out
  <2>2. (p.data <=> outcome = "part" /\ r.data) /\ (r.st = SEND_BODY_IS_FINAL => p.data)
      BY <1>6, <1>12 DEF dt
  <2> QED BY <1>6, <1>7, <1>12, <2>1, <2>2 DEF out, Emitted
<1> QED BY <1>9, <1>10, <1>11, <1>12

LEMMA LandsEmit ==
  ASSUME NEW d, NEW i \in Ids, ConnInv(d), d.s[i].active, NEW outcome \in {"all", "part", "error"},
         NEW window \in BOOLEAN, outcome = "part" => d.s[i].data
  PROVE  Lands(d, emit_writereq_of_openref(d, i, outcome, window), i)
<1> DEFINE r == d.s[i]
           e == Emit(d, i, outcome, window)
           out == emit_writereq_of_openref(d, i, outcome, window)
<1>0. /\ d \in Conn /\ ListsOK(d) /\ r \in Stream /\ r.st \in 0 .. 8 /\ r.body \in 0 .. 4
      /\ d.state \in 0 .. 3
    BY StreamAt
<1>1. PICK place \in Places : Place(d, i, place) /\ Good(d, i, r, place)
    BY StreamAt
<1>2. (r.data \/ r.st = SEND_BODY_IS_FINAL) /\ r.st \in {SEND_BODY, SEND_BODY_IS_FINAL} /\ place = "none"
    BY <1>1 DEF Good, SendOK
<1>3. out = Finish(e, i)
  <2>1. r.data \/ r.st >= SEND_BODY_IS_FINAL
      BY <1>2
  <2> QED BY <2>1, CheckTrue, Zenon DEF emit_writereq_of_openref, Finish
<1>4. PICK p : Only(d, e, i, p) /\ SameBody(r, p) /\ Emitted(r, outcome, window, p)
    BY <1>0, <1>2, EmitFacts
<1> HIDE DEF e, out
<1>5. Step(d, e, i, p, "none")
    BY <1>0, <1>1, <1>2, <1>4, OnlyStep
<1>6. e \in Conn /\ e.s[i] = p /\ ListsOK(e) /\ Place(e, i, "none")
    BY <1>0, <1>5, StepAt
<1>7. PICK q : \E place2 \in Places :
            /\ Step(e, out, i, q, place2) /\ SameRequest(p, q)
            /\ q.st = p.st /\ q.turn = p.turn /\ q.data = p.data
            /\ q.done = p.done /\ q.blocked = p.blocked
            /\ IF p.data \/ p.st = SEND_BODY_IS_FINAL
               THEN place2 = "none" /\ q.active = p.window
               ELSE place2 = "to_proceed" /\ q.active = FALSE
  <2>1. \E q : \E place2 \in Places :
            /\ Step(e, Finish(e, i), i, q, place2) /\ SameRequest(e.s[i], q)
            /\ q.st = e.s[i].st /\ q.turn = e.s[i].turn /\ q.data = e.s[i].data
            /\ q.done = e.s[i].done /\ q.blocked = e.s[i].blocked
            /\ IF e.s[i].data \/ e.s[i].st = SEND_BODY_IS_FINAL
               THEN place2 = "none" /\ q.active = e.s[i].window
               ELSE place2 = "to_proceed" /\ q.active = FALSE
      BY <1>6, FinishFacts
  <2> QED BY <1>3, <1>6, <2>1
<1>8. PICK place2 \in Places :
            /\ Step(e, out, i, q, place2) /\ SameRequest(p, q)
            /\ q.st = p.st /\ q.turn = p.turn /\ q.data = p.data
            /\ q.done = p.done /\ q.blocked = p.blocked
            /\ IF p.data \/ p.st = SEND_BODY_IS_FINAL
               THEN place2 = "none" /\ q.active = p.window
               ELSE place2 = "to_proceed" /\ q.active = FALSE
    BY <1>7
<1>9. Step(d, out, i, q, place2)
    BY <1>0, <1>5, <1>8, StepAgain
<1>10. Good(d, i, q, place2) /\ Keeps(d, i, q, place2)
  <2>1. SameBody(r, q) /\ q.window = p.window
      BY <1>4, <1>8 DEF SameBody, SameRequest
  <2>2. ~r.turn
      BY <1>1, <1>2 DEF Good, SendOK
  <2>3. CASE ~r.window /\ p = r
      BY <1>0, <1>1, <1>2, <1>8, <2>1, <2>2, <2>3
      DEF Good, FreshOK, BodyOK, QueueOK, SendOK, WriteOK, BlockedOK, EndOK, RunOK, SameBody, Keeps, Serves
  <2>4. CASE /\ r.window /\ p.st = END_STREAM /\ p.data = FALSE
             /\ (r.st = SEND_BODY_IS_FINAL /\ p.done = r.done) \/ p.done = TRUE
      BY <1>0, <1>1, <1>2, <1>8, <2>1, <2>2, <2>4
      DEF Good, FreshOK, BodyOK, QueueOK, SendOK, WriteOK, BlockedOK, EndOK, RunOK, SameBody, Keeps, Serves
  <2>5. CASE /\ r.window /\ p.window = window /\ p.st = r.st /\ p.done = r.done
             /\ p.blocked = r.blocked
             /\ (p.data <=> outcome = "part" /\ r.data)
             /\ r.st = SEND_BODY_IS_FINAL => p.data
      BY <1>0, <1>1, <1>2, <1>8, <2>1, <2>2, <2>5
      DEF Good, FreshOK, BodyOK, QueueOK, SendOK, WriteOK, BlockedOK, EndOK, RunOK, SameBody, Keeps, Serves
  <2> QED BY <1>4, <2>3, <2>4, <2>5 DEF Emitted
<1> QED BY <1>9, <1>10, LandsStep DEF out

(* The handlers *)
LEMMA LandsAccept ==
  ASSUME NEW d, NEW i \in Ids, ConnInv(d), d.s[i].turn, d.s[i].proceed, d.s[i].write = "none",
         d.s[i].st < SEND_BODY
  PROVE  Lands(d, [d EXCEPT !.s[i] = [@ EXCEPT !.write = "open", !.busy = TRUE]], i)
<1> DEFINE r == d.s[i]
           q == [r EXCEPT !.write = "open", !.busy = TRUE]
           out == [d EXCEPT !.s[i] = q]
<1>0. /\ d \in Conn /\ ListsOK(d) /\ r \in Stream /\ r.st \in 0 .. 8 /\ r.body \in 0 .. 4
      /\ d.state \in 0 .. 3
    BY StreamAt
<1>1. PICK place \in Places : Place(d, i, place) /\ Good(d, i, r, place)
    BY StreamAt
<1>2. /\ q \in Stream /\ q.write = "open" /\ q.busy = TRUE
      /\ q.st = r.st /\ q.body = r.body /\ q.proceed = r.proceed /\ q.streamed = r.streamed
      /\ q.tunnel = r.tunnel /\ q.entity = r.entity /\ q.more = r.more /\ q.called = r.called
      /\ q.turn = r.turn /\ q.active = r.active /\ q.data = r.data /\ q.window = r.window
      /\ q.done = r.done /\ q.blocked = r.blocked
    BY <1>0 DEF Stream
<1> HIDE DEF q
<1>3. Only(d, out, i, q)
    BY <1>0, <1>2, PutOnly
<1>4. Step(d, out, i, q, place)
    BY <1>0, <1>1, <1>3, OnlyStep
<1>5. Good(d, i, q, place)
    BY <1>0, <1>1, <1>2
    DEF Good, FreshOK, BodyOK, QueueOK, SendOK, WriteOK, BlockedOK, EndOK, RunOK
<1>6. Keeps(d, i, q, place)
    BY <1>1, <1>2 DEF Keeps, Serves, Place
<1>7. Lands(d, out, i)
    BY <1>4, <1>5, <1>6, LandsStep
<1> QED BY <1>7 DEF q

(* A handler whose upstream is gone may still send. *)
LEMMA GoneWell ==
  ASSUME NEW d, NEW i \in Ids, ConnInv(d), d.s[i].st # ABSENT
  PROVE  \E q : \E place \in Places :
            /\ Step(d, Gone(d, i), i, q, place) /\ Well(d, i, q, place)
            /\ place = "pending" => i \in Elements(d.pending)
            /\ q.write = (IF d.s[i].write = "open" THEN "dead" ELSE d.s[i].write) /\ q.busy = FALSE
            /\ q.st = d.s[i].st /\ q.body = d.s[i].body /\ q.proceed = d.s[i].proceed
            /\ q.streamed = d.s[i].streamed /\ q.turn = d.s[i].turn /\ q.done = d.s[i].done
<1> DEFINE r == d.s[i]
<1>0. /\ d \in Conn /\ ListsOK(d) /\ r \in Stream /\ r.st \in 0 .. 8 /\ r.body \in 0 .. 4
      /\ d.state \in 0 .. 3 /\ r.write \in {"none", "open", "dead"}
    BY StreamAt DEF Stream
<1>1. PICK place \in Places : Place(d, i, place) /\ Good(d, i, r, place)
    BY StreamAt
<1>2. PICK q :
            /\ Only(d, Gone(d, i), i, q)
            /\ q.write = (IF r.write = "open" THEN "dead" ELSE r.write) /\ q.busy = FALSE
            /\ q.st = r.st /\ q.body = r.body /\ q.proceed = r.proceed /\ q.streamed = r.streamed
            /\ q.tunnel = r.tunnel /\ q.entity = r.entity /\ q.more = r.more /\ q.called = r.called
            /\ q.turn = r.turn /\ q.active = r.active /\ q.data = r.data /\ q.window = r.window
            /\ q.done = r.done /\ q.blocked = r.blocked
    BY <1>0, GoneFacts
<1>3. Step(d, Gone(d, i), i, q, place)
    BY <1>0, <1>1, <1>2, OnlyStep
<1>4. Well(d, i, q, place)
    BY <1>0, <1>1, <1>2
    DEF Good, Well, FreshOK, BodyOK, QueueOK, SendOK, WriteOK, BlockedOK, RunOK
<1> QED BY <1>1, <1>2, <1>3, <1>4 DEF Place

(* An error after which the stream is there still *)
LEMMA LandsError ==
  ASSUME NEW d, NEW e, NEW i \in Ids, NEW r, NEW place \in Places, d \in Conn, Step(d, e, i, r, place),
         Well(d, i, r, place), r.proceed, r.write = "dead", Serves(d.s[i]) => Serves(r),
         r.st >= SEND_HEADERS \/ d.state >= IS_CLOSING
  PROVE  \E q : \E place2 \in Places :
            /\ Step(d, ProceedError(e, i), i, q, place2) /\ Good(d, i, q, place2)
            /\ Keeps(d, i, q, place2) /\ (q.turn <=> r.turn) /\ ~q.proceed
<1>1. /\ e \in Conn /\ e.s[i] = r /\ ListsOK(e) /\ Place(e, i, place) /\ e.state = d.state
      /\ e.features = d.features /\ e.max_open = d.max_open
    BY StepAt
<1>2. Well(e, i, r, place)
    BY <1>1 DEF Well, BodyOK, SendOK, WriteOK, BlockedOK, RunOK
<1>3. PICK q : \E place2 \in Places :
            /\ Step(e, ProceedError(e, i), i, q, place2) /\ Good(e, i, q, place2)
            /\ place2 # "pending" /\ (Serves(r) => Serves(q)) /\ (q.turn <=> r.turn) /\ ~q.proceed
    BY <1>1, <1>2, ErrorFacts
<1>4. PICK place2 \in Places :
            /\ Step(e, ProceedError(e, i), i, q, place2) /\ Good(e, i, q, place2)
            /\ place2 # "pending" /\ (Serves(r) => Serves(q)) /\ (q.turn <=> r.turn) /\ ~q.proceed
    BY <1>3
<1>5. Step(d, ProceedError(e, i), i, q, place2)
    BY <1>4, StepAgain
<1>6. Good(d, i, q, place2)
    BY <1>1, <1>4, GoodRest
<1> QED BY <1>4, <1>5, <1>6 DEF Keeps

LEMMA LandsHeadError ==
  ASSUME NEW d, NEW i \in Ids, ConnInv(d), d.s[i].turn, d.s[i].write = "open", d.s[i].st <= SEND_HEADERS,
         NEW e, e = finalostream_send(Gone(d, i), i, "final", TRUE)
  PROVE  e.s[i].proceed /\ Lands(d, ProceedError(e, i), i)
<1> DEFINE r == d.s[i]
           f == Gone(d, i)
<1>0. /\ d \in Conn /\ ListsOK(d) /\ r \in Stream /\ r.st \in 0 .. 8 /\ r.body \in 0 .. 4
      /\ d.state \in 0 .. 3
    BY StreamAt
<1>1. r.proceed /\ r.st # ABSENT
  <2>1. PICK place \in Places : Place(d, i, place) /\ Good(d, i, r, place)
      BY StreamAt
  <2> QED BY <2>1 DEF Good, WriteOK, FreshOK
<1>2. PICK p : \E place \in Places :
            /\ Step(d, f, i, p, place) /\ Well(d, i, p, place)
            /\ place = "pending" => i \in Elements(d.pending)
            /\ p.write = (IF r.write = "open" THEN "dead" ELSE r.write) /\ p.busy = FALSE
            /\ p.st = r.st /\ p.body = r.body /\ p.proceed = r.proceed
            /\ p.streamed = r.streamed /\ p.turn = r.turn /\ p.done = r.done
    BY <1>1, GoneWell
<1>3. PICK place \in Places :
            /\ Step(d, f, i, p, place) /\ Well(d, i, p, place)
            /\ p.write = "dead" /\ p.busy = FALSE
            /\ p.st = r.st /\ p.body = r.body /\ p.proceed /\ p.streamed = r.streamed /\ p.turn
    BY <1>1, <1>2
<1> HIDE DEF f
<1>4. /\ f \in Conn /\ f.s[i] = p /\ p \in Stream /\ ListsOK(f) /\ Place(f, i, place)
      /\ f.early_data = d.early_data
    BY <1>0, <1>3, StepAt
<1>5. /\ p.st \in RECV_BODY .. SEND_BODY \/ p.st = END_STREAM
      /\ p.st # REQ_PENDING /\ p.called /\ ~p.done /\ ~p.data
      /\ p.st # END_STREAM => place = "none"
    BY <1>3, <1>4, TurnFacts
<1>6. PICK q : \E place2 \in Places :
        Step(f, e, i, q, place2) /\ Sent(f.early_data, p, place, "final", TRUE, q, place2)
    BY <1>4, <1>5, SendFacts DEF f
<1>7. PICK place2 \in Places :
        Step(f, e, i, q, place2) /\ Sent(d.early_data, p, place, "final", TRUE, q, place2)
    BY <1>4, <1>6
<1>8. Step(d, e, i, q, place2)
    BY <1>0, <1>3, <1>7, StepAgain
<1>9. Well(d, i, q, place2)
    BY <1>3, <1>4, <1>7, SentWell
<1>10. q.st = SEND_BODY_IS_FINAL /\ q.proceed /\ q.write = "dead"
    BY <1>3, <1>5, <1>7 DEF Sent, SameRequest
<1>11. Serves(q)
    BY <1>10 DEF Serves
<1>12. e.s[i] = q
    BY <1>0, <1>8, StepAt
<1>13. q.st >= SEND_HEADERS
    BY <1>10
<1>14. PICK t : \E place3 \in Places :
            /\ Step(d, ProceedError(e, i), i, t, place3) /\ Good(d, i, t, place3)
            /\ Keeps(d, i, t, place3) /\ (t.turn <=> q.turn) /\ ~t.proceed
    BY <1>0, <1>8, <1>9, <1>10, <1>11, <1>13, LandsError
<1> QED BY <1>10, <1>12, <1>14, LandsStep

LEMMA LandsBodyError ==
  ASSUME NEW d, NEW i \in Ids, ConnInv(d), d.s[i].write = "open", d.s[i].st = SEND_BODY,
         NEW e, e = (IF d.s[i].proceed THEN ProceedError(Gone(d, i), i) ELSE Gone(d, i))
  PROVE  Lands(d, IF d.s[i].turn THEN finalostream_send(e, i, "error", FALSE) ELSE e, i)
<1> DEFINE r == d.s[i]
           f == Gone(d, i)
<1>0. /\ d \in Conn /\ ListsOK(d) /\ r \in Stream /\ r.st \in 0 .. 8 /\ r.body \in 0 .. 4
      /\ d.state \in 0 .. 3
    BY StreamAt
<1>1. r.proceed /\ r.st # ABSENT
  <2>1. PICK place \in Places : Place(d, i, place) /\ Good(d, i, r, place)
      BY StreamAt
  <2> QED BY <2>1 DEF Good, WriteOK
<1>2. PICK p : \E place \in Places :
            /\ Step(d, f, i, p, place) /\ Well(d, i, p, place)
            /\ place = "pending" => i \in Elements(d.pending)
            /\ p.write = (IF r.write = "open" THEN "dead" ELSE r.write) /\ p.busy = FALSE
            /\ p.st = r.st /\ p.body = r.body /\ p.proceed = r.proceed
            /\ p.streamed = r.streamed /\ p.turn = r.turn /\ p.done = r.done
    BY <1>1, GoneWell
<1>3. PICK place \in Places :
            /\ Step(d, f, i, p, place) /\ Well(d, i, p, place)
            /\ p.write = "dead" /\ p.st = r.st /\ p.proceed /\ p.turn = r.turn
    BY <1>1, <1>2
<1>4. e = ProceedError(f, i)
    BY <1>1
<1> HIDE DEF f
<1>5. Serves(p) /\ p.st >= SEND_HEADERS
    BY <1>3 DEF Serves
<1>6. PICK q : \E place2 \in Places :
            /\ Step(d, e, i, q, place2) /\ Good(d, i, q, place2)
            /\ Keeps(d, i, q, place2) /\ (q.turn <=> p.turn) /\ ~q.proceed
    BY <1>0, <1>3, <1>4, <1>5, LandsError
<1>7. PICK place2 \in Places :
            /\ Step(d, e, i, q, place2) /\ Good(d, i, q, place2)
            /\ Keeps(d, i, q, place2) /\ (q.turn <=> r.turn) /\ ~q.proceed
    BY <1>3, <1>6
<1>8. CASE ~r.turn
    BY <1>7, <1>8, LandsStep
<1>9. CASE r.turn
  <2>1. q.turn /\ (Serves(d.s[i]) => Serves(q))
      BY <1>7, <1>9 DEF Keeps
  <2>2. Lands(d, finalostream_send(e, i, "error", FALSE), i)
      BY <1>0, <1>7, <2>1, LandsSend
  <2> QED BY <1>9, <2>2
<1> QED BY <1>8, <1>9

(* The response is complete. *)
LEMMA LandsWriteError ==
  ASSUME NEW d, NEW i \in Ids, ConnInv(d), d.s[i].proceed, d.s[i].write = "open",
         d.s[i].st >= SEND_HEADERS \/ d.state >= IS_CLOSING
  PROVE  Lands(d, ProceedError(Gone(d, i), i), i)
<1> DEFINE r == d.s[i]
           f == Gone(d, i)
<1>0. /\ d \in Conn /\ ListsOK(d) /\ r \in Stream /\ r.st \in 0 .. 8 /\ r.body \in 0 .. 4
      /\ d.state \in 0 .. 3
    BY StreamAt
<1>1. r.st # ABSENT
  <2>1. PICK place \in Places : Place(d, i, place) /\ Good(d, i, r, place)
      BY StreamAt
  <2> QED BY <2>1 DEF Good, FreshOK
<1>2. PICK p : \E place \in Places :
            /\ Step(d, f, i, p, place) /\ Well(d, i, p, place)
            /\ place = "pending" => i \in Elements(d.pending)
            /\ p.write = (IF r.write = "open" THEN "dead" ELSE r.write) /\ p.busy = FALSE
            /\ p.st = r.st /\ p.body = r.body /\ p.proceed = r.proceed
            /\ p.streamed = r.streamed /\ p.turn = r.turn /\ p.done = r.done
    BY <1>1, GoneWell
<1>3. PICK place \in Places :
            /\ Step(d, f, i, p, place) /\ Well(d, i, p, place)
            /\ p.write = "dead" /\ p.st = r.st /\ p.proceed /\ p.streamed = r.streamed
    BY <1>1, <1>2
<1> HIDE DEF f
<1>4. (Serves(r) => Serves(p)) /\ (p.st >= SEND_HEADERS \/ d.state >= IS_CLOSING)
    BY <1>3 DEF Serves
<1>5. PICK q : \E place2 \in Places :
            /\ Step(d, ProceedError(f, i), i, q, place2) /\ Good(d, i, q, place2)
            /\ Keeps(d, i, q, place2) /\ (q.turn <=> p.turn) /\ ~q.proceed
    BY <1>0, <1>3, <1>4, LandsError
<1> QED BY <1>5, LandsStep DEF f

LEMMA LandsHandlerSend ==
  ASSUME NEW d, NEW i \in Ids, ConnInv(d), d.s[i].turn,
         NEW answer \in {"progress", "final", "error", "too_early"}, NEW bufs \in BOOLEAN,
         d.s[i].proceed /\ d.s[i].st < SEND_BODY /\ d.s[i].write = "none" =>
            "unaccepted" \in d.features \/ answer = "too_early",
         answer = "too_early" => "tooearly" \in d.features /\ d.s[i].st <= SEND_HEADERS
  PROVE  Lands(d, finalostream_send(d, i, answer, bufs), i)
<1> DEFINE r == d.s[i]
<1>0. /\ d \in Conn /\ ListsOK(d) /\ r \in Stream /\ r.st \in 0 .. 8 /\ r.body \in 0 .. 4
      /\ d.state \in 0 .. 3 /\ r.write \in {"none", "open", "dead"}
    BY StreamAt DEF Stream
<1>1. PICK place \in Places : Place(d, i, place) /\ Good(d, i, r, place)
    BY StreamAt
<1>2. Step(d, d, i, r, place)
    BY <1>0, <1>1, OnlySame, OnlyStep
<1>3. d.features \cap {"unaccepted", "refused", "tooearly"} = {} /\ d.state < IS_CLOSING
             /\ r.proceed /\ r.st < SEND_BODY => r.write = "open"
  <2> SUFFICES ASSUME d.features \cap {"unaccepted", "refused", "tooearly"} = {}, d.state < IS_CLOSING,
                      r.proceed, r.st < SEND_BODY
               PROVE  r.write = "open"
      OBVIOUS
  <2>1. "unaccepted" \notin d.features /\ "tooearly" \notin d.features
      OBVIOUS
  <2>2. r.write # "dead"
      BY <1>1 DEF Good, EndOK, BodyOK
  <2> QED BY <1>0, <2>1, <2>2
<1> QED BY <1>0, <1>1, <1>2, <1>3, LandsSend

LEMMA LandsRefused ==
  ASSUME NEW d, NEW i \in Ids, ConnInv(d), d.s[i].turn, d.s[i].st <= SEND_HEADERS, "refused" \in d.features
  PROVE  Lands(d, finalostream_send(Gone(d, i), i, "refused", FALSE), i)
<1> DEFINE r == d.s[i]
           f == Gone(d, i)
<1>0. /\ d \in Conn /\ ListsOK(d) /\ r \in Stream /\ r.st \in 0 .. 8 /\ r.body \in 0 .. 4
      /\ d.state \in 0 .. 3
    BY StreamAt
<1>1. r.st # ABSENT
  <2>1. PICK place \in Places : Place(d, i, place) /\ Good(d, i, r, place)
      BY StreamAt
  <2> QED BY <2>1 DEF Good, FreshOK
<1>2. PICK p : \E place \in Places :
            /\ Step(d, f, i, p, place) /\ Well(d, i, p, place)
            /\ place = "pending" => i \in Elements(d.pending)
            /\ p.write = (IF r.write = "open" THEN "dead" ELSE r.write) /\ p.busy = FALSE
            /\ p.st = r.st /\ p.body = r.body /\ p.proceed = r.proceed
            /\ p.streamed = r.streamed /\ p.turn = r.turn /\ p.done = r.done
    BY <1>1, GoneWell
<1>3. PICK place \in Places :
            /\ Step(d, f, i, p, place) /\ Well(d, i, p, place)
            /\ p.st = r.st /\ p.streamed = r.streamed /\ p.turn
    BY <1>2
<1> HIDE DEF f
<1>4. d.features \cap {"unaccepted", "refused", "tooearly"} # {}
    OBVIOUS
<1>5. Good(d, i, p, place)
    BY <1>3, <1>4, GoodWell DEF EndOK
<1>6. (Serves(r) => Serves(p)) /\ p.st <= SEND_HEADERS
    BY <1>3 DEF Serves
<1> QED BY <1>0, <1>3, <1>4, <1>5, <1>6, LandsSend DEF f

-----------------------------------------------------------------------------
(* Receiving a request *)

(* A change of a stream that is not streamed *)
LEMMA PutWhole ==
  ASSUME NEW d \in Conn, NEW i \in Ids, NEW q \in Stream,
         q.st = d.s[i].st, q.blocked = d.s[i].blocked, ~d.s[i].streamed, ~q.streamed
  PROVE  Only(d, [d EXCEPT !.s[i] = q], i, q)
<1> DEFINE e == [d EXCEPT !.s[i] = q]
<1>1. e \in Conn
    BY DEF Conn
<1>2. /\ e.features = d.features /\ e.state = d.state /\ e.max_open = d.max_open
      /\ e.continuation = d.continuation /\ e.pending = d.pending /\ e.to_proceed = d.to_proceed
      /\ e.early = d.early /\ e.fail = d.fail /\ e.s = [d.s EXCEPT ![i] = q]
    BY DEF Conn
<1>3. e.early_data = d.early_data /\ e.delay = d.delay
    BY DEF Conn
<1>4. Counted(d, e, d.s[i], q)
  <2>1. /\ e.priority_open = d.priority_open /\ e.open = d.open /\ e.half_closed = d.half_closed
        /\ e.send_body = d.send_body /\ e.streaming = d.streaming /\ e.tunnel = d.tunnel
        /\ e.blocked = d.blocked
      BY DEF Conn
  <2>2. /\ d.priority_open \in Int /\ d.open \in Int /\ d.half_closed \in Int /\ d.send_body \in Int
        /\ d.blocked \in Int /\ d.streaming \in Int /\ d.tunnel \in Int
      BY DEF Conn
  <2>3. /\ InIdle(q) = InIdle(d.s[i]) /\ InOpen(q) = InOpen(d.s[i]) /\ InHalfClosed(q) = InHalfClosed(d.s[i])
        /\ InSendBody(q) = InSendBody(d.s[i]) /\ InBlocked(q) = InBlocked(d.s[i])
      BY DEF InIdle, InOpen, InHalfClosed, InSendBody, InBlocked
  <2>4. /\ InStreaming(q) = 0 /\ InStreaming(d.s[i]) = 0 /\ InTunnel(q) = 0 /\ InTunnel(d.s[i]) = 0
      BY DEF InStreaming, InTunnel, Ind
  <2>5. InIdle(q) \in Int /\ InOpen(q) \in Int /\ InHalfClosed(q) \in Int /\ InSendBody(q) \in Int /\ InBlocked(q) \in Int
      BY InTypes
  <2> HIDE DEF e
  <2> QED BY <2>1, <2>2, <2>3, <2>4, <2>5 DEF Counted
<1> HIDE DEF e
<1>5. Only(d, e, i, q)
    BY <1>1, <1>2, <1>3, <1>4 DEF Only, Moved, Rest, SameLists
<1> QED BY <1>5 DEF e

LEMMA LandsEnqueue ==
  ASSUME NEW d \in Conn, NEW e, NEW i \in Ids, NEW q, Step(d, e, i, q, "none"), Good(d, i, q, "pending"),
         d.state < IS_CLOSING
  PROVE  Lands(d, execute_or_enqueue_request_core(e, i), i)
<1>1. e \in Conn /\ e.s[i] = q /\ ListsOK(e) /\ Place(e, i, "none")
    BY StepAt
<1>2. ~Linked(e, i)
    BY <1>1, NotLinked DEF Places
<1>3. execute_or_enqueue_request_core(e, i) = run_pending_requests(ToPending(e, i))
    BY <1>2, CheckTrue, Zenon DEF execute_or_enqueue_request_core, ToPending
<1>4. Step(e, ToPending(e, i), i, q, "pending")
    BY <1>1, AppendStep
<1>5. Step(d, ToPending(e, i), i, q, "pending") /\ "pending" \in Places
    BY <1>4, StepAgain DEF Places
<1> QED BY <1>3, <1>5, LandsRun

(* A request that is complete *)
Whole(q) ==
    /\ ~q.proceed /\ ~q.streamed /\ ~q.tunnel /\ ~q.more /\ ~q.busy /\ ~q.called /\ ~q.turn /\ ~q.active
    /\ ~q.data /\ ~q.done /\ q.write = "none" /\ q.body \in {NONE, CLOSE_DELIVERED}

LEMMA LandsExecute ==
  ASSUME NEW d \in Conn, NEW e, NEW i \in Ids, NEW r, Step(d, e, i, r, "none"), d.state < IS_CLOSING,
         Whole(r), r.st = RECV_HEADERS \/ (r.st = REQ_PENDING /\ i <= d.max_open)
  PROVE  Lands(d, execute_or_enqueue_request(e, i), i)
<1> DEFINE out == execute_or_enqueue_request(e, i)
           f == set_state(e, i, REQ_PENDING)
           g == Block(f, i)
           p == [r EXCEPT !.st = REQ_PENDING]
           q == [p EXCEPT !.blocked = TRUE]
<1>1. e \in Conn /\ e.s[i] = r /\ r \in Stream /\ ListsOK(e) /\ Place(e, i, "none") /\ e.max_open = d.max_open
    BY StepAt
<1>2. out = IF i > d.max_open THEN stream_reset(e, i) ELSE execute_or_enqueue_request_core(g, i)
  <2>1. r.st \in {RECV_HEADERS, REQ_PENDING}
      OBVIOUS
  <2>2. Check(e, e.s[i].st \in {RECV_HEADERS, REQ_PENDING}, "execute") = e
      BY <1>1, <2>1, CheckTrue
  <2> QED BY <1>1, <2>2, Zenon DEF execute_or_enqueue_request, Disregarded
<1>3. CASE i > d.max_open
  <2>1. r.st = RECV_HEADERS
      BY <1>3, IdsFinite DEF Ids, Conn
  <2>2. Closable(r, "none")
      BY <2>1 DEF Closable, Whole
  <2>3. "none" \in Places /\ ~(r.st > REQ_PENDING)
      BY <2>1 DEF Places
  <2>4. Lands(d, stream_reset(e, i), i)
      BY <2>2, <2>3, LandsReset
  <2> HIDE DEF out
  <2> QED BY <1>2, <1>3, <2>4 DEF out
<1>4. CASE ~(i > d.max_open)
  <2>1. out = execute_or_enqueue_request_core(g, i)
      BY <1>2, <1>4
  <2>2. Only(e, f, i, p)
    <3>1. Follows(r.st, REQ_PENDING) /\ REQ_PENDING \in RECV_HEADERS .. SEND_BODY_IS_FINAL
        BY DEF Follows
    <3> QED BY <1>1, <3>1, StateFacts
  <2>3. p.st = REQ_PENDING /\ Whole(p) /\ p \in Stream
      BY <1>1 DEF Whole, Stream
  <2> HIDE DEF f, p
  <2>4. f \in Conn /\ f.s[i] = p
      BY <1>1, <2>2, OnlyAt
  <2>5. Only(f, g, i, q)
      BY <2>4, BlockFacts
  <2>6. q.st = REQ_PENDING /\ Whole(q) /\ q.blocked = TRUE
      BY <2>3 DEF Whole, Stream
  <2> HIDE DEF q, g, out
  <2>7. Only(e, g, i, q)
      BY <1>1, <2>2, <2>5, OnlyAgain
  <2>8. Step(d, g, i, q, "none")
      BY <2>7, StepOnly
  <2>9. Good(d, i, q, "pending")
    <3>1. i <= d.max_open /\ d.state # FREED
        BY <1>4, IdsFinite DEF Ids, Conn
    <3> QED BY <2>6, <3>1
        DEF Good, FreshOK, BodyOK, QueueOK, SendOK, WriteOK, BlockedOK, EndOK, RunOK, Whole
  <2> QED BY <2>1, <2>8, <2>9, LandsEnqueue DEF out
<1> QED BY <1>3, <1>4

LEMMA LandsIncoming ==
  ASSUME NEW d, NEW i \in Ids, ConnInv(d), d.s[i].st = RECV_HEADERS, d.state < IS_CLOSING,
         NEW end \in BOOLEAN, NEW kind \in {"normal", "malformed", "invalid", "connect"}
  PROVE  Lands(d, handle_incoming_request(d, i, end, kind), i)
<1> DEFINE r == d.s[i]
           b == [r EXCEPT !.tunnel = TRUE, !.entity = "empty", !.proceed = TRUE]
           k == [d EXCEPT !.s[i] = b]
           t == set_state(k, i, RECV_BODY)
           out == handle_incoming_request(d, i, end, kind)
<1>0. /\ d \in Conn /\ ListsOK(d) /\ r \in Stream /\ d.open \in Int
    BY StreamAt DEF Conn
<1>1. PICK place \in Places : Place(d, i, place) /\ Good(d, i, r, place)
    BY StreamAt
<1>2. /\ place = "none" /\ r.body = NONE /\ r.write = "none" /\ r.entity = "null"
      /\ ~r.proceed /\ ~r.streamed /\ ~r.tunnel /\ ~r.more /\ ~r.busy /\ ~r.called
      /\ ~r.turn /\ ~r.active /\ ~r.data /\ ~r.done /\ ~r.blocked
    BY <1>1 DEF Good, FreshOK
<1>3. Check(d, r.st = RECV_HEADERS, "incoming") = d
    BY Zenon DEF Check
<1>4. out = CASE kind = "malformed" \/ d.open > MaxStreams -> SendErrorAndReset(d, i)
              [] d.open <= MaxStreams /\ (kind = "invalid" \/ (kind = "connect" /\ end)) ->
                   send_invalid_request_error(d, i)
              [] d.open <= MaxStreams /\ kind = "connect" /\ ~end ->
                   process_request(set_req_body_state(t, i, OPEN), i)
              [] d.open <= MaxStreams /\ kind = "normal" ->
                   IF end THEN execute_or_enqueue_request(d, i)
                   ELSE set_req_body_state(set_state(d, i, RECV_BODY), i, BEFORE_FIRST_FRAME)
    BY <1>3, Zenon DEF handle_incoming_request
<1>5. MaxStreams \in Nat
    BY H2StreamsAssumption
<1>6. Step(d, d, i, r, "none") /\ "none" \in Places
    BY <1>0, <1>1, <1>2, OnlySame, OnlyStep DEF Places
<1>7. ~Serves(r)
    BY <1>2 DEF Serves
<1> HIDE DEF out, t
<1>8. CASE kind = "malformed" \/ d.open > MaxStreams
  <2>1. out = SendErrorAndReset(d, i)
    <3>1. ~(d.open <= MaxStreams) \/ kind = "malformed"
        BY <1>0, <1>5, <1>8
    <3>2. kind = "malformed" => kind # "invalid" /\ kind # "connect" /\ kind # "normal"
        OBVIOUS
    <3> QED BY <1>4, <1>8, <3>1, <3>2, Zenon
  <2>2. stream_send_error(d) = d
      BY CheckTrue DEF stream_send_error
  <2>3. out = stream_reset(d, i)
      BY <2>1, <2>2 DEF SendErrorAndReset
  <2>4. Good(d, i, r, "none") /\ r.st # ABSENT
      BY <1>1, <1>2
  <2>5. Lands(d, stream_reset(d, i), i)
      BY <1>0, <1>6, <2>4, LandsResetGood
  <2> QED BY <2>3, <2>5 DEF out
<1>9. CASE d.open <= MaxStreams /\ (kind = "invalid" \/ (kind = "connect" /\ end))
  <2> DEFINE e == set_state(d, i, REQ_PENDING)
             f == set_state(e, i, SEND_HEADERS)
             g == finalostream_send(f, i, "final", TRUE)
             p == [r EXCEPT !.st = REQ_PENDING]
             q == [p EXCEPT !.st = SEND_HEADERS]
  <2>1. out = g
    <3>1. ~(d.open > MaxStreams) /\ kind # "malformed" /\ kind # "normal"
          /\ (kind = "connect" => end)
        BY <1>0, <1>5, <1>9
    <3>2. out = send_invalid_request_error(d, i)
        BY <1>4, <1>9, <3>1, Zenon
    <3> QED BY <3>2 DEF send_invalid_request_error
  <2>2. Only(d, e, i, p)
    <3>1. Follows(r.st, REQ_PENDING) /\ REQ_PENDING \in RECV_HEADERS .. SEND_BODY_IS_FINAL
        BY DEF Follows
    <3> QED BY <1>0, <3>1, StateFacts DEF p
  <2>3. /\ p.st = REQ_PENDING /\ p \in Stream /\ p.body = NONE /\ p.write = "none" /\ p.entity = "null"
        /\ ~p.proceed /\ ~p.streamed /\ ~p.tunnel /\ ~p.more /\ ~p.busy /\ ~p.called
        /\ ~p.turn /\ ~p.active /\ ~p.data /\ ~p.done /\ ~p.blocked /\ p.window = r.window
      BY <1>0, <1>2 DEF Stream
  <2> HIDE DEF p
  <2>4. e \in Conn /\ e.s[i] = p
      BY <1>0, <2>2, OnlyAt
  <2>5. Only(e, f, i, q)
    <3>1. Follows(p.st, SEND_HEADERS) /\ SEND_HEADERS \in RECV_HEADERS .. SEND_BODY_IS_FINAL
        BY <2>3 DEF Follows
    <3> HIDE DEF e, p
    <3> QED BY <2>4, <3>1, StateFacts
  <2>6. /\ q.st = SEND_HEADERS /\ q.body = NONE /\ q.write = "none" /\ q.entity = "null"
        /\ ~q.proceed /\ ~q.streamed /\ ~q.tunnel /\ ~q.more /\ ~q.busy /\ ~q.called
        /\ ~q.turn /\ ~q.active /\ ~q.data /\ ~q.done /\ ~q.blocked /\ q.window = r.window
        /\ q \in Stream
      BY <2>3 DEF Stream
  <2> HIDE DEF e, f, g, p, q
  <2>7. Step(d, f, i, q, "none")
      BY <1>0, <1>6, <2>2, <2>4, <2>5, OnlyAgain, StepOnly
  <2>8. f \in Conn /\ f.s[i] = q /\ ListsOK(f) /\ Place(f, i, "none")
      BY <1>0, <2>7, StepAt
  <2>9. PICK s : \E place2 \in Places :
          Step(f, g, i, s, place2) /\ Sent(f.early_data, q, "none", "final", TRUE, s, place2)
    <3>1. q.st \in RECV_BODY .. SEND_BODY
        BY <2>6
    <3> QED BY <1>6, <2>6, <2>8, <3>1, SendFacts DEF g
  <2>10. PICK place2 \in Places :
          Step(f, g, i, s, place2) /\ Sent(f.early_data, q, "none", "final", TRUE, s, place2)
      BY <2>9
  <2>11. Step(d, g, i, s, place2)
      BY <1>0, <2>7, <2>10, StepAgain
  <2>12. /\ place2 = "none" /\ s.st = SEND_BODY_IS_FINAL /\ s.body = NONE /\ s.write = "none" /\ s.entity = "null"
         /\ ~s.proceed /\ ~s.streamed /\ ~s.tunnel /\ ~s.more /\ ~s.busy /\ ~s.called
         /\ ~s.turn /\ (s.active <=> s.window) /\ s.data /\ s.done /\ ~s.blocked
      BY <2>6, <2>10 DEF Sent, SameRequest
  <2>13. Good(d, i, s, place2)
    <3>1. d.state # FREED
        OBVIOUS
    <3> QED BY <2>12, <3>1
        DEF Good, FreshOK, BodyOK, QueueOK, SendOK, WriteOK, BlockedOK, EndOK, RunOK
  <2>14. Keeps(d, i, s, place2)
      BY <1>7, <2>12 DEF Keeps
  <2> QED BY <2>1, <2>11, <2>13, <2>14, LandsStep DEF out
<1>10. CASE d.open <= MaxStreams /\ kind = "connect" /\ ~end
  <2> DEFINE p == [b EXCEPT !.st = RECV_BODY]
             q == [p EXCEPT !.body = OPEN]
             f == set_req_body_state(t, i, OPEN)
             g == process_request(f, i)
             s == [q EXCEPT !.streamed = TRUE, !.called = TRUE, !.turn = TRUE]
  <2>1. out = g
    <3>1. ~(d.open > MaxStreams) /\ kind # "malformed" /\ kind # "normal" /\ kind # "invalid"
        BY <1>0, <1>5, <1>10
    <3> QED BY <1>4, <1>10, <3>1, Zenon
  <2>2. /\ b \in Stream /\ b.st = r.st /\ b.blocked = r.blocked /\ b.streamed = r.streamed
        /\ b.body = r.body /\ b.tunnel /\ b.entity = "empty" /\ b.proceed /\ b.write = r.write
        /\ ~b.more /\ ~b.busy /\ ~b.called /\ ~b.active /\ ~b.data /\ ~b.done
      BY <1>0, <1>2 DEF Stream
  <2> HIDE DEF b
  <2>3. Only(d, k, i, b)
      BY <1>0, <1>2, <2>2, PutWhole DEF k
  <2> HIDE DEF k
  <2>4. k \in Conn /\ k.s[i] = b
      BY <1>0, <2>3, OnlyAt
  <2>5. Only(k, t, i, p)
    <3>1. Follows(b.st, RECV_BODY) /\ RECV_BODY \in RECV_HEADERS .. SEND_BODY_IS_FINAL
        BY <2>2 DEF Follows
    <3> HIDE DEF k
    <3> QED BY <2>4, <3>1, StateFacts DEF t
  <2>6. /\ p.st = RECV_BODY /\ p.body = NONE /\ p \in Stream /\ p.proceed /\ ~p.called /\ ~p.streamed
        /\ p.tunnel /\ p.entity = "empty" /\ p.write = "none" /\ ~p.more /\ ~p.busy /\ ~p.active
        /\ ~p.data /\ ~p.done
      BY <1>2, <2>2 DEF Stream
  <2> HIDE DEF p
  <2>7. t \in Conn /\ t.s[i] = p
      BY <2>4, <2>5, OnlyAt
  <2>8. Only(t, f, i, q)
    <3>1. p.body < OPEN /\ OPEN # CLOSE_DELIVERED /\ OPEN \in BEFORE_FIRST_FRAME .. CLOSE_DELIVERED
        BY <2>6
    <3> QED BY <2>7, <3>1, BodyFacts
  <2>9. /\ q.st = RECV_BODY /\ q.body = OPEN /\ q.proceed /\ ~q.called /\ ~q.streamed /\ q \in Stream
        /\ q.tunnel /\ q.entity = "empty" /\ q.write = "none" /\ ~q.more /\ ~q.busy /\ ~q.active
        /\ ~q.data /\ ~q.done
      BY <2>6 DEF Stream
  <2>10. f \in Conn /\ f.s[i] = q
      BY <2>7, <2>8, OnlyAt
  <2> HIDE DEF p, q
  <2>11. Only(f, g, i, s)
    <3> HIDE DEF f
    <3> QED BY <2>9, <2>10, StreamedFacts
  <2>12. /\ s.st = RECV_BODY /\ s.body = OPEN /\ s.proceed /\ s.called /\ s.streamed /\ s.turn
         /\ s.tunnel /\ s.entity = "empty" /\ s.write = "none" /\ ~s.more /\ ~s.busy /\ ~s.active
         /\ ~s.data /\ ~s.done
      BY <2>9 DEF Stream
  <2> HIDE DEF f, g, s
  <2>13. Only(d, t, i, p)
      BY <1>0, <2>3, <2>5, OnlyAgain
  <2>14. Only(d, f, i, q)
      BY <1>0, <2>13, <2>8, OnlyAgain
  <2>15. Only(d, g, i, s)
      BY <1>0, <2>14, <2>11, OnlyAgain
  <2>16. Step(d, g, i, s, "none")
      BY <1>0, <1>1, <1>2, <2>15, OnlyStep
  <2>17. Good(d, i, s, "none")
    <3>1. d.state # FREED
        OBVIOUS
    <3> QED BY <2>12, <3>1
        DEF Good, FreshOK, BodyOK, QueueOK, SendOK, WriteOK, BlockedOK, EndOK, RunOK
  <2>18. Keeps(d, i, s, "none")
      BY <1>7 DEF Keeps
  <2> QED BY <1>6, <2>1, <2>16, <2>17, <2>18, LandsStep DEF out
<1>11. CASE d.open <= MaxStreams /\ kind = "normal"
  <2>1. out = IF end THEN execute_or_enqueue_request(d, i)
              ELSE set_req_body_state(set_state(d, i, RECV_BODY), i, BEFORE_FIRST_FRAME)
    <3>1. ~(d.open > MaxStreams) /\ kind # "malformed" /\ kind # "connect" /\ kind # "invalid"
        BY <1>0, <1>5, <1>11
    <3> QED BY <1>4, <1>11, <3>1, Zenon
  <2>2. CASE end
    <3>1. Whole(r)
        BY <1>2 DEF Whole
    <3>2. Lands(d, execute_or_enqueue_request(d, i), i)
        BY <1>0, <1>6, <3>1, LandsExecute
    <3> QED BY <2>1, <2>2, <3>2 DEF out
  <2>3. CASE ~end
    <3> DEFINE e == set_state(d, i, RECV_BODY)
               p == [r EXCEPT !.st = RECV_BODY]
               f == set_req_body_state(e, i, BEFORE_FIRST_FRAME)
               q == [p EXCEPT !.body = BEFORE_FIRST_FRAME]
    <3>1. out = f
        BY <2>1, <2>3
    <3>2. Only(d, e, i, p)
      <4>1. Follows(r.st, RECV_BODY) /\ RECV_BODY \in RECV_HEADERS .. SEND_BODY_IS_FINAL
          BY DEF Follows
      <4> QED BY <1>0, <4>1, StateFacts
    <3>3. p.body = NONE /\ p \in Stream
        BY <1>0, <1>2 DEF Stream
    <3>4. e \in Conn /\ e.s[i] = p
        BY <1>0, <3>2, OnlyAt
    <3>5. Only(e, f, i, q)
      <4>1. p.body < BEFORE_FIRST_FRAME /\ BEFORE_FIRST_FRAME # CLOSE_DELIVERED /\ BEFORE_FIRST_FRAME \in BEFORE_FIRST_FRAME .. CLOSE_DELIVERED
          BY <3>3
      <4> HIDE DEF p, e
      <4> QED BY <3>4, <4>1, BodyFacts
    <3>6. /\ q.st = RECV_BODY /\ q.body = BEFORE_FIRST_FRAME /\ q.write = "none" /\ q.entity = "null"
          /\ ~q.proceed /\ ~q.streamed /\ ~q.tunnel /\ ~q.more /\ ~q.busy /\ ~q.called
          /\ ~q.turn /\ ~q.active /\ ~q.data /\ ~q.done /\ ~q.blocked
        BY <1>0, <1>2 DEF Stream
    <3> HIDE DEF e, f, p, q
    <3>7. Only(d, f, i, q)
        BY <1>0, <3>2, <3>5, OnlyAgain
    <3>8. Step(d, f, i, q, "none")
        BY <1>0, <1>1, <1>2, <3>7, OnlyStep
    <3>9. Good(d, i, q, "none")
      <4>1. d.state # FREED
          OBVIOUS
      <4> QED BY <3>6, <4>1
          DEF Good, FreshOK, BodyOK, QueueOK, SendOK, WriteOK, BlockedOK, EndOK, RunOK
    <3>10. Keeps(d, i, q, "none")
        BY <1>7 DEF Keeps
    <3> QED BY <1>6, <3>1, <3>8, <3>9, <3>10, LandsStep DEF out
  <2> QED BY <2>2, <2>3
<1>12. /\ d.open > MaxStreams \/ d.open <= MaxStreams
       /\ kind \in {"malformed", "invalid", "connect", "normal"} /\ end \in BOOLEAN
    BY <1>0, <1>5
<1>13. Lands(d, out, i)
    BY <1>8, <1>9, <1>10, <1>11, <1>12 DEF out
<1> QED BY <1>13 DEF out

-----------------------------------------------------------------------------
(* What is not about a stream: the connection only goes on. *)
Onward(d, e) ==
    /\ e.features = d.features /\ e.s = d.s /\ SameLists(d, e)
    /\ e.priority_open = d.priority_open /\ e.open = d.open /\ e.half_closed = d.half_closed
    /\ e.send_body = d.send_body /\ e.blocked = d.blocked /\ e.streaming = d.streaming
    /\ e.tunnel = d.tunnel
    /\ d.max_open <= e.max_open /\ d.state <= e.state /\ e.state # FREED

LEMMA OnwardInv ==
  ASSUME NEW d, NEW e \in Conn, ConnInv(d), Onward(d, e), FailOK(e)
  PROVE  ConnInv(e) /\ (Served(d) /\ (d.delay => e.delay) => Served(e))
<1>0. /\ d \in Conn /\ d.state \in 0 .. 3 /\ e.state \in 0 .. 3 /\ d.max_open \in 0 .. MaxId
      /\ e.max_open \in 0 .. MaxId /\ MaxId \in Nat
    BY IdsFinite DEF ConnInv, Conn
<1>1. ListsOK(e)
    BY DEF ConnInv, ListsOK, Onward, SameLists
<1>2. Exact(e)
  <2>1. /\ IdleSet(e) = IdleSet(d) /\ OpenSet(e) = OpenSet(d) /\ HalfClosedSet(e) = HalfClosedSet(d)
        /\ SendBodySet(e) = SendBodySet(d) /\ BlockedSet(e) = BlockedSet(d)
        /\ StreamingSet(e) = StreamingSet(d) /\ TunnelSet(e) = TunnelSet(d)
      BY DEF Onward, IdleSet, OpenSet, HalfClosedSet, SendBodySet, BlockedSet, StreamingSet, TunnelSet
  <2> QED BY <2>1 DEF ConnInv, Exact, Onward
<1>3. ASSUME NEW j \in Ids PROVE \E place \in Places : Place(e, j, place) /\ Good(e, j, e.s[j], place)
  <2>1. PICK place \in Places : Place(d, j, place) /\ Good(d, j, d.s[j], place)
      BY DEF ConnInv, StreamsGood
  <2>2. Place(e, j, place)
      BY <2>1 DEF Place, Onward, SameLists
  <2>3. e.s[j] = d.s[j] /\ j \in Int
      BY DEF Onward, Ids
  <2>4. Good(e, j, d.s[j], place)
    <3>1. d.state <= e.state /\ e.state # FREED /\ d.max_open <= e.max_open /\ e.features = d.features
        BY DEF Onward
    <3> QED BY <1>0, <2>1, <2>3, <3>1
        DEF Good, BodyOK, SendOK, WriteOK, BlockedOK, EndOK, RunOK
  <2> QED BY <2>2, <2>3, <2>4
<1>4. ConnInv(e)
    BY <1>1, <1>2, <1>3 DEF ConnInv, StreamsGood
<1>5. ASSUME Served(d), d.delay => e.delay PROVE Served(e)
    BY <1>0, <1>5 DEF Served, Onward, SameLists
<1> QED BY <1>4, <1>5

(* A stream is opened; its stream id may be the last one that is accepted. *)
LEMMA OpenedInv ==
  ASSUME NEW d, NEW i \in Ids, ConnInv(d), Served(d), d.s[i].st = ABSENT, NEW window \in BOOLEAN,
         d.state < IS_CLOSING, NEW e, e = vhttp_http2_stream_open(d, i, window)
  PROVE  ConnInv(e) /\ Served(e) /\ e.s[i].st = IDLE /\ e.state = d.state /\ e.fail = d.fail
<1> DEFINE r == d.s[i]
           q == [NoStream EXCEPT !.st = IDLE, !.window = window]
<1>0. d \in Conn /\ ListsOK(d) /\ r \in Stream
    BY StreamAt
<1>1. PICK place \in Places : Place(d, i, place) /\ Good(d, i, r, place)
    BY StreamAt
<1>2. place = "none" /\ ~r.blocked /\ ~r.streamed
    BY <1>1 DEF Good, FreshOK
<1>3. Only(d, e, i, q)
    BY <1>0, <1>2, OpenFacts
<1>4. /\ q.st = IDLE /\ q.body = NONE /\ q.write = "none" /\ q.entity = "null"
      /\ ~q.proceed /\ ~q.streamed /\ ~q.tunnel /\ ~q.more /\ ~q.busy /\ ~q.called
      /\ ~q.turn /\ ~q.active /\ ~q.data /\ ~q.done /\ ~q.blocked
    BY DEF NoStream
<1> HIDE DEF q
<1>5. Step(d, e, i, q, "none")
    BY <1>0, <1>1, <1>2, <1>3, OnlyStep
<1>6. Good(d, i, q, "none") /\ "none" \in Places
  <2>1. d.state # FREED
      OBVIOUS
  <2> QED BY <1>4, <2>1
      DEF Good, FreshOK, BodyOK, QueueOK, SendOK, WriteOK, BlockedOK, EndOK, RunOK, Places
<1>7. Keeps(d, i, q, "none")
    BY <1>2 DEF Keeps, Serves
<1>8. ConnInv(e)
    BY <1>5, <1>6, StepInv
<1>9. Served(e)
    BY <1>0, <1>5, <1>7, StepServed
<1>10. e.s[i] = q /\ e.state = d.state /\ e.fail = d.fail
    BY <1>0, <1>5, StepAt
<1> QED BY <1>4, <1>8, <1>9, <1>10

LEMMA PreparedInv ==
  ASSUME NEW d, NEW i \in Ids, ConnInv(d), Served(d), d.s[i].st = IDLE, NEW window \in BOOLEAN,
         d.state < IS_CLOSING, NEW e, e = prepare_for_request(d, i, window)
  PROVE  ConnInv(e) /\ Served(e) /\ e.s[i].st = RECV_HEADERS /\ e.state = d.state
<1> DEFINE r == d.s[i]
           n == IF d.state = CONN_OPEN /\ d.max_open < i THEN i ELSE d.max_open
           m == [d EXCEPT !.max_open = n]
           p == [r EXCEPT !.window = window]
           f == [m EXCEPT !.s[i] = p]
           q == [p EXCEPT !.st = RECV_HEADERS]
<1>0. d \in Conn /\ ListsOK(d) /\ r \in Stream /\ d.max_open \in 0 .. MaxId /\ MaxId \in Nat /\ i \in 1 .. MaxId
  <2>1. d \in Conn /\ ListsOK(d) /\ r \in Stream
      BY StreamAt
  <2> QED BY <2>1, IdsFinite DEF Conn, Ids
<1>1. n \in 0 .. MaxId /\ d.max_open <= n
    BY <1>0
<1> HIDE DEF n
<1>2. /\ m \in Conn /\ m.s = d.s /\ m.state = d.state /\ m.features = d.features /\ m.fail = d.fail
      /\ m.delay = d.delay /\ SameLists(d, m) /\ m.max_open = n
      /\ m.priority_open = d.priority_open /\ m.open = d.open /\ m.half_closed = d.half_closed
      /\ m.send_body = d.send_body /\ m.blocked = d.blocked /\ m.streaming = d.streaming
      /\ m.tunnel = d.tunnel
    BY <1>0, <1>1 DEF Conn, SameLists
<1>3. [d EXCEPT !.s[i].window = window, !.max_open = n] = f
    BY <1>0 DEF Conn
<1>4. e = set_state(f, i, RECV_HEADERS)
  <2> DEFINE g == [d EXCEPT !.s[i].window = window, !.max_open = n]
  <2>1. d.state # IS_CLOSING
      OBVIOUS
  <2>2. e = set_state(Check(g, d.state # IS_CLOSING, "prepare"), i, RECV_HEADERS)
      BY Zenon DEF prepare_for_request, n
  <2> HIDE DEF g
  <2>3. e = set_state(g, i, RECV_HEADERS)
      BY <2>1, <2>2, CheckTrue, Zenon
  <2> QED BY <1>3, <2>3 DEF g
<1> HIDE DEF m
<1>5. ConnInv(m) /\ Served(m)
  <2>1. Onward(d, m) /\ FailOK(m) /\ (d.delay => m.delay)
    <3>1. d.state <= m.state /\ m.state # FREED
      <4>1. d.state \in 0 .. 3
          BY StreamAt
      <4> QED BY <1>2, <4>1
    <3> QED BY <1>1, <1>2, <3>1 DEF Onward, FailOK, Allowed, ConnInv
  <2> QED BY <1>2, <2>1, OnwardInv
<1>6. m.s[i] = r /\ ListsOK(m)
    BY <1>2, <1>5, StreamAt
<1>7. PICK place \in Places : Place(m, i, place) /\ Good(m, i, r, place)
    BY <1>5, <1>6, StreamAt
<1>8. /\ place = "none" /\ r.body = NONE /\ r.write = "none" /\ r.entity = "null"
      /\ ~r.proceed /\ ~r.streamed /\ ~r.tunnel /\ ~r.more /\ ~r.busy /\ ~r.called
      /\ ~r.turn /\ ~r.active /\ ~r.data /\ ~r.done /\ ~r.blocked
    BY <1>7 DEF Good, FreshOK
<1>9. /\ p \in Stream /\ p.st = IDLE /\ p.body = NONE /\ p.write = "none" /\ p.entity = "null"
      /\ ~p.proceed /\ ~p.streamed /\ ~p.tunnel /\ ~p.more /\ ~p.busy /\ ~p.called
      /\ ~p.turn /\ ~p.active /\ ~p.data /\ ~p.done /\ ~p.blocked
    BY <1>0, <1>8 DEF Stream
<1>10. /\ p.st = r.st /\ p.body = r.body /\ p.tunnel = r.tunnel /\ p.streamed = r.streamed /\ p.blocked = r.blocked
    BY <1>0 DEF Stream
<1> HIDE DEF p
<1>11. Only(m, f, i, p)
    BY <1>2, <1>6, <1>9, <1>10, PutOnly
<1> HIDE DEF f
<1>12. f \in Conn /\ f.s[i] = p
    BY <1>2, <1>11, OnlyAt
<1>13. Only(f, e, i, q)
  <2>1. Follows(p.st, RECV_HEADERS) /\ RECV_HEADERS \in RECV_HEADERS .. SEND_BODY_IS_FINAL
      BY <1>9 DEF Follows
  <2> QED BY <1>4, <1>12, <2>1, StateFacts
<1>14. /\ q \in Stream /\ q.st = RECV_HEADERS /\ q.body = NONE /\ q.write = "none" /\ q.entity = "null"
      /\ ~q.proceed /\ ~q.streamed /\ ~q.tunnel /\ ~q.more /\ ~q.busy /\ ~q.called
      /\ ~q.turn /\ ~q.active /\ ~q.data /\ ~q.done /\ ~q.blocked
    BY <1>9 DEF Stream
<1> HIDE DEF q
<1>15. Step(m, e, i, q, "none")
    BY <1>2, <1>6, <1>7, <1>8, <1>11, <1>13, OnlyAgain, OnlyStep
<1>16. Good(m, i, q, "none") /\ "none" \in Places
  <2>1. m.state # FREED
      BY <1>2
  <2> QED BY <1>14, <2>1
      DEF Good, FreshOK, BodyOK, QueueOK, SendOK, WriteOK, BlockedOK, EndOK, RunOK, Places
<1>17. Keeps(m, i, q, "none")
    BY <1>6, <1>8 DEF Keeps, Serves
<1>18. ConnInv(e)
    BY <1>5, <1>15, <1>16, StepInv
<1>19. Served(e)
    BY <1>2, <1>5, <1>15, <1>17, StepServed
<1>20. e.s[i] = q /\ e.state = d.state
    BY <1>2, <1>15, StepAt
<1> QED BY <1>14, <1>18, <1>19, <1>20

-----------------------------------------------------------------------------
(* The body of a request that is streamed to the handler *)

(* A stream that has something to write, the handler being done with what it  *)
(* was given before *)
Writing(d, i, r, place) ==
    /\ FreshOK(r, place) /\ BodyOK(d, r, place) /\ QueueOK(r, place) /\ SendOK(d, r, place)
    /\ BlockedOK(d, r, place) /\ EndOK(d, r, place) /\ RunOK(d, i, r, place)
    /\ r.st # ABSENT /\ d.state # FREED
    /\ r.streamed /\ r.write # "none" /\ r.entity = "null" /\ ~r.busy
    /\ r.body = CLOSE_QUEUED \/ (r.body = OPEN /\ r.more)

LEMMA DeliverFacts ==
  ASSUME NEW d \in Conn, NEW i \in Ids
  PROVE  \E q : /\ Only(d, Deliver(d, i), i, q)
                /\ q.st = d.s[i].st /\ q.streamed = d.s[i].streamed /\ q.tunnel = d.s[i].tunnel
                /\ q.write = d.s[i].write /\ q.entity = d.s[i].entity /\ q.more = d.s[i].more
                /\ q.busy = d.s[i].busy /\ q.called = d.s[i].called /\ q.window = d.s[i].window
                /\ q.turn = d.s[i].turn /\ q.active = d.s[i].active /\ q.data = d.s[i].data
                /\ q.done = d.s[i].done /\ q.blocked = d.s[i].blocked
                /\ IF d.s[i].body = CLOSE_QUEUED THEN q.body = CLOSE_DELIVERED /\ ~q.proceed
                   ELSE q.body = d.s[i].body /\ q.proceed = d.s[i].proceed
<1> DEFINE r == d.s[i]
           p == [r EXCEPT !.proceed = FALSE]
           e == [d EXCEPT !.s[i] = p]
           q == [p EXCEPT !.body = CLOSE_DELIVERED]
           f == set_req_body_state(e, i, CLOSE_DELIVERED)
<1>0. r \in Stream
    BY DEF Conn
<1>1. CASE r.body = CLOSE_QUEUED
  <2>1. Deliver(d, i) = f
      BY <1>1, Zenon DEF Deliver
  <2>2. /\ p \in Stream /\ p.st = r.st /\ p.streamed = r.streamed /\ p.tunnel = r.tunnel
        /\ p.write = r.write /\ p.entity = r.entity /\ p.more = r.more /\ p.busy = r.busy
        /\ p.called = r.called /\ p.window = r.window /\ p.turn = r.turn /\ p.active = r.active
        /\ p.data = r.data /\ p.done = r.done /\ p.blocked = r.blocked /\ p.body = r.body /\ ~p.proceed
      BY <1>0 DEF Stream
  <2> HIDE DEF p
  <2>3. Only(d, e, i, p)
      BY <2>2, PutOnly
  <2> HIDE DEF e
  <2>4. e \in Conn /\ e.s[i] = p
      BY <2>3, OnlyAt
  <2>5. Only(e, f, i, q)
    <3>1. p.body < CLOSE_DELIVERED /\ CLOSE_DELIVERED \in BEFORE_FIRST_FRAME .. CLOSE_DELIVERED
        BY <1>1, <2>2
    <3> QED BY <2>2, <2>4, <3>1, BodyFacts
  <2>6. /\ q.st = p.st /\ q.streamed = p.streamed /\ q.tunnel = p.tunnel
        /\ q.write = p.write /\ q.entity = p.entity /\ q.more = p.more /\ q.busy = p.busy
        /\ q.called = p.called /\ q.window = p.window /\ q.turn = p.turn /\ q.active = p.active
        /\ q.data = p.data /\ q.done = p.done /\ q.blocked = p.blocked /\ q.body = CLOSE_DELIVERED
        /\ q.proceed = p.proceed
      BY <2>2 DEF Stream
  <2> HIDE DEF q, f
  <2>7. Only(d, f, i, q)
      BY <2>3, <2>5, OnlyAgain
  <2> QED BY <1>1, <2>1, <2>2, <2>6, <2>7
<1>2. CASE r.body # CLOSE_QUEUED
  <2>1. Deliver(d, i) = d
      BY <1>2, Zenon DEF Deliver
  <2> QED BY <1>2, <2>1, OnlySame
<1> QED BY <1>1, <1>2

LEMMA WritingFacts ==
  ASSUME NEW d, NEW i, NEW r \in Stream, NEW place \in Places, Writing(d, i, r, place)
  PROVE  /\ place # "pending" /\ r.st \in RECV_BODY .. END_STREAM /\ r.st # REQ_PENDING /\ r.proceed /\ r.called
         /\ r.body = CLOSE_QUEUED => r.st # RECV_BODY
<1>1. r.st \in 0 .. 8
    BY DEF Stream
<1> QED BY <1>1 DEF Writing, FreshOK, BodyOK, QueueOK

LEMMA LandsWrite ==
  ASSUME NEW d \in Conn, NEW e, NEW i \in Ids, NEW r, NEW place \in Places, Step(d, e, i, r, place),
         Writing(d, i, r, place), r.write = "dead" => d.state < IS_CLOSING
  PROVE  Lands(d, write_streaming_body(e, i), i)
<1> DEFINE f == Deliver(e, i)
           last == r.body = CLOSE_QUEUED
           entity == IF r.more THEN "some" ELSE "empty"
           write == IF last THEN "none" ELSE r.write
           busy == ~last
           out == write_streaming_body(e, i)
<1>0. e \in Conn /\ e.s[i] = r /\ r \in Stream /\ e.state = d.state
    BY StepAt
<1>1. PICK p : /\ Only(e, f, i, p)
               /\ p.st = r.st /\ p.streamed = r.streamed /\ p.tunnel = r.tunnel
               /\ p.write = r.write /\ p.entity = r.entity /\ p.more = r.more
               /\ p.busy = r.busy /\ p.called = r.called /\ p.window = r.window
               /\ p.turn = r.turn /\ p.active = r.active /\ p.data = r.data
               /\ p.done = r.done /\ p.blocked = r.blocked
               /\ IF r.body = CLOSE_QUEUED THEN p.body = CLOSE_DELIVERED /\ ~p.proceed
                  ELSE p.body = r.body /\ p.proceed = r.proceed
    BY <1>0, DeliverFacts
<1> DEFINE t == [p EXCEPT !.entity = entity, !.more = FALSE]
           u == [f EXCEPT !.s[i] = t]
           q == [t EXCEPT !.busy = busy, !.write = write]
           g == [u EXCEPT !.s[i] = q]
<1>2. f \in Conn /\ f.s[i] = p /\ p \in Stream /\ f.state = d.state
    BY <1>0, <1>1, OnlyAt
<1>3. out = IF r.write = "dead" THEN SendErrorAndReset(u, i)
            ELSE IF last /\ r.st = END_STREAM THEN stream_close(g, i) ELSE g
  <2> DEFINE Holds == /\ e.s[i].entity = "null" /\ e.s[i].write # "none"
                      /\ e.s[i].body = CLOSE_QUEUED \/ (e.s[i].body \in {BEFORE_FIRST_FRAME, OPEN} /\ e.s[i].more)
  <2>1. Holds
      BY <1>0 DEF Writing
  <2>2. Check(f, Holds, "write_streaming_body") = f
      BY <2>1, CheckTrue
  <2> DEFINE h == Check(f, Holds, "write_streaming_body")
             v(x) == [x EXCEPT !.s[i] =
                        [@ EXCEPT !.entity = IF e.s[i].more THEN "some" ELSE "empty", !.more = FALSE]]
             k(x) == [x EXCEPT !.s[i] =
                        [@ EXCEPT !.busy = ~(e.s[i].body = CLOSE_QUEUED),
                                  !.write = IF e.s[i].body = CLOSE_QUEUED THEN "none" ELSE e.s[i].write]]
  <2>3. out = IF e.s[i].write = "dead" THEN SendErrorAndReset(v(h), i)
              ELSE IF e.s[i].body = CLOSE_QUEUED /\ e.s[i].st = END_STREAM THEN stream_close(k(v(h)), i) ELSE k(v(h))
      BY Zenon DEF write_streaming_body
  <2>4. v(f) = u
      BY <1>0, <1>2
  <2>5. k(u) = g
    <3>1. u.s[i] = t
        BY <1>2 DEF Conn
    <3> HIDE DEF u, t
    <3> QED BY <1>0, <3>1
  <2> HIDE DEF Holds, k, v, u, g
  <2> QED BY <1>0, <2>2, <2>3, <2>4, <2>5, Zenon
<1>4. /\ place # "pending" /\ r.st \in RECV_BODY .. END_STREAM /\ r.st # REQ_PENDING /\ r.proceed /\ r.called
      /\ last => r.st # RECV_BODY
    BY <1>0, WritingFacts
<1>5. r.write \in {"open", "dead"} /\ r.more \in BOOLEAN
    BY <1>0 DEF Stream, Writing
<1> HIDE DEF f
<1>11. /\ t \in Stream /\ t.entity = entity /\ t.more = FALSE /\ t.busy = p.busy /\ t.write = p.write
       /\ t.st = p.st /\ t.streamed = p.streamed /\ t.tunnel = p.tunnel /\ t.body = p.body
       /\ t.proceed = p.proceed /\ t.called = p.called /\ t.window = p.window
       /\ t.turn = p.turn /\ t.active = p.active /\ t.data = p.data
       /\ t.done = p.done /\ t.blocked = p.blocked
  <2>1. entity \in {"null", "empty", "some"}
      BY <1>5
  <2> HIDE DEF entity
  <2> QED BY <1>2, <2>1 DEF Stream
<1> HIDE DEF t
<1>12. Only(f, u, i, t)
    BY <1>2, <1>11, PutOnly
<1> HIDE DEF u
<1>13. u \in Conn /\ u.s[i] = t /\ u.state = d.state
    BY <1>2, <1>12, OnlyAt
<1>6. Step(d, u, i, t, place)
  <2>1. Step(d, f, i, p, place)
      BY <1>1, StepOnly
  <2> QED BY <1>12, <2>1, StepOnly
<1>7. Closable(t, place)
  <2>1. t.body # NONE /\ t.st = r.st
      BY <1>1, <1>11 DEF Writing
  <2> QED BY <1>4, <2>1 DEF Closable
<1> HIDE DEF out, g, q
<1>8. CASE r.write = "dead"
  <2>1. out = SendErrorAndReset(u, i)
      BY <1>3, <1>8
  <2>2. stream_send_error(u) = u
      BY <1>8, <1>13, CheckTrue DEF stream_send_error
  <2>3. out = stream_reset(u, i)
      BY <2>1, <2>2 DEF SendErrorAndReset
  <2>4. ASSUME place # "none" PROVE Good(d, i, Ended(t), place)
    <3> DEFINE s == Ended(t)
    <3>1. /\ s.st = END_STREAM /\ s.data = FALSE
          /\ s.body = p.body /\ s.proceed = p.proceed /\ s.streamed = p.streamed /\ s.tunnel = p.tunnel
          /\ s.write = p.write /\ s.entity = entity /\ s.more = FALSE /\ s.busy = p.busy
          /\ s.called = p.called /\ s.turn = p.turn /\ s.active = p.active /\ s.window = p.window
          /\ s.done = p.done
        BY <1>11, EndedFields
    <3> HIDE DEF s
    <3>2. EndOK(d, s, place)
        BY <1>1, <1>8, <2>4, <3>1 DEF Writing, EndOK
    <3>3. Well(d, i, s, place)
      <4>1. /\ s.streamed = r.streamed /\ s.tunnel = r.tunnel /\ s.called = r.called
            /\ s.turn = r.turn /\ s.active = r.active /\ s.done = r.done /\ s.window = r.window
            /\ s.write = "dead" /\ s.entity \in {"empty", "some"} /\ ~s.busy
          BY <1>1, <1>8, <3>1 DEF Writing
      <4>2. ~r.active
          BY <2>4 DEF Writing, SendOK
      <4>3. CASE last
        <5>1. s.body = CLOSE_DELIVERED /\ ~s.proceed
            BY <1>1, <3>1, <4>3
        <5> QED BY <1>4, <2>4, <3>1, <4>1, <4>2, <5>1
            DEF Writing, Well, FreshOK, BodyOK, QueueOK, SendOK, WriteOK, BlockedOK, RunOK, Places
      <4>4. CASE ~last
        <5>1. s.body = OPEN /\ s.proceed /\ s.entity = "some"
            BY <1>1, <1>4, <3>1, <4>4 DEF Writing
        <5> QED BY <1>4, <2>4, <3>1, <4>1, <4>2, <5>1
            DEF Writing, Well, FreshOK, BodyOK, QueueOK, SendOK, WriteOK, BlockedOK, RunOK, Places
      <4> QED BY <4>3, <4>4
    <3> QED BY <3>2, <3>3, GoodWell DEF s
  <2>5. Lands(d, stream_reset(u, i), i)
      BY <1>4, <1>6, <1>7, <2>4, LandsReset
  <2> QED BY <2>3, <2>5 DEF out
<1>9. CASE r.write = "open"
  <2>1. /\ q \in Stream /\ q.entity = entity /\ q.more = FALSE /\ q.busy = busy /\ q.write = write
        /\ q.st = p.st /\ q.streamed = p.streamed /\ q.tunnel = p.tunnel /\ q.body = p.body
        /\ q.proceed = p.proceed /\ q.called = p.called /\ q.window = p.window
        /\ q.turn = p.turn /\ q.active = p.active /\ q.data = p.data
        /\ q.done = p.done /\ q.blocked = p.blocked
    <3>1. entity \in {"null", "empty", "some"} /\ write \in {"none", "open", "dead"} /\ busy \in BOOLEAN
        BY <1>5
    <3> HIDE DEF entity, write, busy
    <3>2. q \in Stream
        BY <1>11, <3>1 DEF q, Stream
    <3>3. q.entity = t.entity /\ q.more = t.more /\ q.busy = busy /\ q.write = write
        BY <1>11, <3>1 DEF q, Stream
    <3>4. /\ q.st = t.st /\ q.streamed = t.streamed /\ q.tunnel = t.tunnel /\ q.body = t.body
          /\ q.proceed = t.proceed /\ q.called = t.called /\ q.window = t.window
        BY <1>11, <3>1 DEF q, Stream
    <3>5. /\ q.turn = t.turn /\ q.active = t.active /\ q.data = t.data
          /\ q.done = t.done /\ q.blocked = t.blocked
        BY <1>11, <3>1 DEF q, Stream
    <3> QED BY <1>11, <3>2, <3>3, <3>4, <3>5
  <2>2. Only(u, g, i, q)
      BY <1>11, <1>13, <2>1, PutOnly DEF g
  <2>3. Step(d, g, i, q, place)
      BY <1>6, <2>2, StepOnly
  <2>4. CASE last /\ r.st = END_STREAM
    <3>1. out = stream_close(g, i)
        BY <1>3, <1>9, <2>4
    <3>2. Closable(q, place)
        BY <1>7, <1>11, <2>1 DEF Closable
    <3> QED BY <2>3, <3>1, <3>2, LandsClose DEF out
  <2>5. CASE ~(last /\ r.st = END_STREAM)
    <3>1. out = g
        BY <1>3, <1>9, <2>5
    <3>2. EndOK(d, q, place)
      <4>1. EndOK(d, r, place)
          BY DEF Writing
      <4>2. q.st = r.st /\ (last => ~q.proceed /\ q.write = "none")
            /\ (~last => q.proceed = r.proceed /\ q.write = r.write)
          BY <1>1, <2>1
      <4> QED BY <1>9, <2>5, <4>1, <4>2 DEF EndOK
    <3>3. Well(d, i, q, place)
      <4>1. CASE last
        <5>1. /\ q.st = r.st /\ q.streamed = r.streamed /\ q.tunnel = r.tunnel /\ q.called = r.called
              /\ q.turn = r.turn /\ q.active = r.active /\ q.data = r.data /\ q.done = r.done
              /\ q.window = r.window /\ q.blocked = r.blocked
              /\ q.body = CLOSE_DELIVERED /\ ~q.proceed /\ q.write = "none" /\ ~q.busy /\ ~q.more
            BY <1>1, <2>1, <4>1
        <5> QED BY <1>4, <4>1, <5>1
            DEF Writing, Well, FreshOK, BodyOK, QueueOK, SendOK, WriteOK, BlockedOK, RunOK
      <4>2. CASE ~last
        <5>1. /\ q.st = r.st /\ q.streamed = r.streamed /\ q.tunnel = r.tunnel /\ q.called = r.called
              /\ q.turn = r.turn /\ q.active = r.active /\ q.data = r.data /\ q.done = r.done
              /\ q.window = r.window /\ q.blocked = r.blocked
              /\ q.body = OPEN /\ r.body = OPEN /\ q.proceed = r.proceed /\ q.write = "open" /\ q.busy /\ ~q.more
              /\ q.entity = "some"
            BY <1>1, <1>9, <2>1, <4>2 DEF Writing
        <5> QED BY <1>4, <4>2, <5>1
            DEF Writing, Well, FreshOK, BodyOK, QueueOK, SendOK, WriteOK, BlockedOK, RunOK
      <4> QED BY <4>1, <4>2
    <3>4. Keeps(d, i, q, place)
        BY <1>1, <1>4, <2>1 DEF Keeps, Serves, Writing
    <3>5. Good(d, i, q, place)
        BY <3>2, <3>3, GoodWell
    <3> QED BY <2>3, <3>1, <3>4, <3>5, LandsStep DEF out
  <2> QED BY <2>4, <2>5
<1>10. Lands(d, out, i)
    BY <1>5, <1>8, <1>9 DEF out
<1> QED BY <1>10 DEF out

(* The handler asks for more of the body. *)
LEMMA LandsMore ==
  ASSUME NEW d, NEW i \in Ids, ConnInv(d), d.s[i].proceed, d.s[i].busy,
         d.s[i].body = CLOSE_QUEUED => d.s[i].entity = "some"
  PROVE  Lands(d, ProceedMore(d, i), i)
<1> DEFINE r == d.s[i]
           p == [r EXCEPT !.entity = "null", !.busy = FALSE]
           e == [d EXCEPT !.s[i] = p]
           q == [p EXCEPT !.blocked = FALSE]
           f == Unblock(e, i)
           out == ProceedMore(d, i)
<1>0. /\ d \in Conn /\ ListsOK(d) /\ r \in Stream /\ r.st \in 0 .. 8 /\ r.body \in 0 .. 4
      /\ d.state \in 0 .. 3 /\ r.write \in {"none", "open", "dead"}
    BY StreamAt DEF Stream
<1>1. PICK place \in Places : Place(d, i, place) /\ Good(d, i, r, place)
    BY StreamAt
<1>2. /\ r.write = "open" /\ r.streamed /\ r.st # ABSENT /\ d.state # FREED /\ place # "pending"
      /\ r.body \in {OPEN, CLOSE_QUEUED}
    BY <1>0, <1>1 DEF Good, WriteOK, BodyOK, FreshOK, QueueOK
<1>3. /\ p \in Stream /\ p.entity = "null" /\ p.busy = FALSE
      /\ p.st = r.st /\ p.body = r.body /\ p.proceed = r.proceed /\ p.streamed = r.streamed
      /\ p.tunnel = r.tunnel /\ p.write = r.write /\ p.more = r.more /\ p.called = r.called
      /\ p.turn = r.turn /\ p.active = r.active /\ p.data = r.data /\ p.window = r.window
      /\ p.done = r.done /\ p.blocked = r.blocked
    BY <1>0 DEF Stream
<1>4. out = CASE r.body = OPEN -> IF r.more THEN write_streaming_body(f, i) ELSE f
              [] r.body = CLOSE_QUEUED ->
                     IF r.entity = "some" THEN write_streaming_body(e, i) ELSE Check(d, FALSE, "written")
              [] OTHER -> Check(e, FALSE, "proceed_request")
  <2> DEFINE g == Check(e, d.s[i].streamed, "streamed")
  <2>1. out = CASE r.body = OPEN ->
                     (LET k == Unblock(g, i) IN IF r.more THEN write_streaming_body(k, i) ELSE k)
              [] r.body = CLOSE_QUEUED ->
                     IF r.entity = "some" THEN write_streaming_body(g, i) ELSE Check(d, FALSE, "written")
              [] OTHER -> Check(g, FALSE, "proceed_request")
      BY Zenon DEF ProceedMore
  <2>2. g = e
      BY <1>2, Zenon DEF Check
  <2> QED BY <2>1, <2>2, Zenon
<1> HIDE DEF p
<1>5. Only(d, e, i, p)
    BY <1>0, <1>3, PutOnly
<1>6. Step(d, e, i, p, place)
    BY <1>0, <1>1, <1>5, OnlyStep
<1> HIDE DEF e, out
<1>7. CASE r.body = CLOSE_QUEUED
  <2>1. out = write_streaming_body(e, i)
    <3>1. r.entity = "some"
        BY <1>7
    <3>2. ~(r.body = OPEN)
        BY <1>7
    <3> QED BY <1>4, <1>7, <3>1, <3>2, Zenon
  <2>2. Writing(d, i, p, place)
      BY <1>0, <1>1, <1>2, <1>3, <1>7
      DEF Writing, Good, FreshOK, BodyOK, QueueOK, SendOK, BlockedOK, EndOK, RunOK
  <2>3. p.write # "dead"
      BY <1>2, <1>3
  <2> QED BY <1>0, <1>6, <2>1, <2>2, <2>3, LandsWrite DEF out
<1>8. CASE r.body = OPEN
  <2>1. out = IF r.more THEN write_streaming_body(f, i) ELSE f
    <3>1. ~(r.body = CLOSE_QUEUED)
        BY <1>8
    <3> QED BY <1>4, <1>8, <3>1, Zenon
  <2>2. e \in Conn /\ e.s[i] = p
      BY <1>0, <1>5, OnlyAt
  <2>3. Only(e, f, i, q)
      BY <2>2, UnblockFacts
  <2>4. /\ q.entity = "null" /\ q.busy = FALSE
        /\ q.st = r.st /\ q.body = r.body /\ q.proceed = r.proceed /\ q.streamed = r.streamed
        /\ q.tunnel = r.tunnel /\ q.write = r.write /\ q.more = r.more /\ q.called = r.called
        /\ q.turn = r.turn /\ q.active = r.active /\ q.data = r.data /\ q.window = r.window
        /\ q.done = r.done
      BY <1>3 DEF Stream
  <2> HIDE DEF q, f
  <2>5. Step(d, f, i, q, place)
      BY <1>0, <1>6, <2>3, StepOnly
  <2>6. CASE r.more
    <3>1. Writing(d, i, q, place)
        BY <1>0, <1>1, <1>2, <1>8, <2>4, <2>6
        DEF Writing, Good, FreshOK, BodyOK, QueueOK, SendOK, BlockedOK, EndOK, RunOK
    <3>2. q.write # "dead"
        BY <1>2, <2>4
    <3>3. Lands(d, write_streaming_body(f, i), i)
        BY <1>0, <2>5, <3>1, <3>2, LandsWrite
    <3> QED BY <2>1, <2>6, <3>3 DEF out
  <2>7. CASE ~r.more
    <3>1. Good(d, i, q, place)
        BY <1>0, <1>1, <1>2, <1>8, <2>4, <2>7
        DEF Good, FreshOK, BodyOK, QueueOK, SendOK, WriteOK, BlockedOK, EndOK, RunOK
    <3>2. Keeps(d, i, q, place)
        BY <1>2, <2>4 DEF Keeps, Serves
    <3>3. Lands(d, f, i)
        BY <2>5, <3>1, <3>2, LandsStep
    <3> QED BY <2>1, <2>7, <3>3 DEF out
  <2> QED BY <2>6, <2>7
<1>9. Lands(d, out, i)
    BY <1>2, <1>7, <1>8 DEF out
<1> QED BY <1>9 DEF out

(* A frame of the body: what it leaves of a stream as it was *)
SameFrame(r, q) ==
    /\ q.streamed = r.streamed /\ q.tunnel = r.tunnel /\ q.write = r.write /\ q.busy = r.busy
    /\ q.called = r.called /\ q.turn = r.turn /\ q.active = r.active /\ q.data = r.data
    /\ q.window = r.window /\ q.done = r.done

LEMMA FirstFrameFacts ==
  ASSUME NEW d \in Conn, NEW i \in Ids, d.s[i].body \in {BEFORE_FIRST_FRAME, OPEN}
  PROVE  \E q : /\ Only(d, FirstFrame(d, i), i, q) /\ SameFrame(d.s[i], q)
                /\ q.st = d.s[i].st /\ q.proceed = d.s[i].proceed /\ q.entity = d.s[i].entity
                /\ q.more = d.s[i].more /\ q.blocked = d.s[i].blocked /\ q.body = OPEN
<1> DEFINE r == d.s[i]
           q == [r EXCEPT !.body = OPEN]
           e == set_req_body_state(d, i, OPEN)
<1>0. r \in Stream
    BY DEF Conn
<1>1. CASE r.body = BEFORE_FIRST_FRAME
  <2>1. FirstFrame(d, i) = e
      BY <1>1, Zenon DEF FirstFrame
  <2>2. Only(d, e, i, q)
    <3>1. r.body < OPEN /\ OPEN # CLOSE_DELIVERED /\ OPEN \in BEFORE_FIRST_FRAME .. CLOSE_DELIVERED
        BY <1>1
    <3> QED BY <3>1, BodyFacts
  <2>3. /\ SameFrame(r, q) /\ q.st = r.st /\ q.proceed = r.proceed /\ q.entity = r.entity
        /\ q.more = r.more /\ q.blocked = r.blocked /\ q.body = OPEN
      BY <1>0 DEF Stream, SameFrame
  <2> HIDE DEF q, e
  <2> QED BY <2>1, <2>2, <2>3
<1>2. CASE r.body = OPEN
  <2>1. FirstFrame(d, i) = d
    <3>1. r.body # BEFORE_FIRST_FRAME
        BY <1>2
    <3>2. FirstFrame(d, i) = Check(d, r.body = OPEN, "req_body.state")
        BY <3>1, Zenon DEF FirstFrame
    <3> QED BY <1>2, <3>2, Zenon DEF Check
  <2> QED BY <1>2, <2>1, OnlySame DEF SameFrame
<1> QED BY <1>1, <1>2

LEMMA BlockKept ==
  ASSUME NEW d \in Conn, NEW i \in Ids
  PROVE  \E q : /\ Only(d, Block(d, i), i, q) /\ SameFrame(d.s[i], q)
                /\ q.st = d.s[i].st /\ q.proceed = d.s[i].proceed /\ q.entity = d.s[i].entity
                /\ q.more = d.s[i].more /\ q.blocked = TRUE /\ q.body = d.s[i].body
<1> DEFINE r == d.s[i]
           q == [r EXCEPT !.blocked = TRUE]
<1>0. r \in Stream
    BY DEF Conn
<1>1. Only(d, Block(d, i), i, q)
    BY BlockFacts
<1>2. /\ SameFrame(r, q) /\ q.st = r.st /\ q.proceed = r.proceed /\ q.entity = r.entity
      /\ q.more = r.more /\ q.blocked = TRUE /\ q.body = r.body
    BY <1>0 DEF Stream, SameFrame
<1> HIDE DEF q
<1> QED BY <1>1, <1>2

(* The state that a stream has after the end of the body *)
AfterBody(r) == IF r.st < REQ_PENDING THEN (IF r.called THEN SEND_HEADERS ELSE REQ_PENDING) ELSE r.st

LEMMA EndOfBodyFacts ==
  ASSUME NEW d \in Conn, NEW i \in Ids, d.s[i].body = OPEN, d.s[i].st \in RECV_BODY .. END_STREAM
  PROVE  \E q : /\ Only(d, EndOfBody(d, i), i, q) /\ SameFrame(d.s[i], q)
                /\ q.st = AfterBody(d.s[i]) /\ q.entity = d.s[i].entity
                /\ q.more = d.s[i].more /\ q.blocked = d.s[i].blocked
                /\ IF d.s[i].write # "none" THEN q.body = CLOSE_QUEUED /\ q.proceed = d.s[i].proceed
                   ELSE q.body = CLOSE_DELIVERED /\ ~q.proceed
<1> DEFINE r == d.s[i]
           early == r.st < REQ_PENDING
           e == IF early THEN set_state(d, i, REQ_PENDING) ELSE d
           f == IF early /\ r.called THEN set_state(e, i, SEND_HEADERS) ELSE e
           out == EndOfBody(d, i)
<1>0. r \in Stream
    BY DEF Conn
<1>1. PICK p : /\ Only(d, e, i, p) /\ SameFrame(r, p) /\ p.st = (IF early THEN REQ_PENDING ELSE r.st)
               /\ p.entity = r.entity /\ p.more = r.more /\ p.blocked = r.blocked
               /\ p.body = r.body /\ p.proceed = r.proceed
  <2>1. CASE early
    <3> DEFINE q == [r EXCEPT !.st = REQ_PENDING]
    <3>1. Follows(r.st, REQ_PENDING) /\ REQ_PENDING \in RECV_HEADERS .. SEND_BODY_IS_FINAL
        BY <2>1 DEF Follows
    <3>2. Only(d, set_state(d, i, REQ_PENDING), i, q)
        BY <3>1, StateFacts
    <3>3. /\ SameFrame(r, q) /\ q.st = REQ_PENDING /\ q.proceed = r.proceed /\ q.entity = r.entity
          /\ q.more = r.more /\ q.blocked = r.blocked /\ q.body = r.body
        BY <1>0 DEF Stream, SameFrame
    <3> HIDE DEF q
    <3> QED BY <2>1, <3>2, <3>3
  <2>2. CASE ~early
      BY <2>2, OnlySame DEF SameFrame
  <2> QED BY <2>1, <2>2
<1> HIDE DEF e
<1>2. e \in Conn /\ e.s[i] = p /\ p \in Stream
    BY <1>1, OnlyAt
<1>3. PICK q : /\ Only(d, f, i, q) /\ SameFrame(r, q) /\ q.st = AfterBody(r)
               /\ q.entity = r.entity /\ q.more = r.more /\ q.blocked = r.blocked
               /\ q.body = r.body /\ q.proceed = r.proceed
  <2>1. CASE early /\ r.called
    <3> DEFINE q == [p EXCEPT !.st = SEND_HEADERS]
    <3>1. Follows(p.st, SEND_HEADERS) /\ SEND_HEADERS \in RECV_HEADERS .. SEND_BODY_IS_FINAL
        BY <1>1, <2>1 DEF Follows
    <3>2. Only(e, set_state(e, i, SEND_HEADERS), i, q)
        BY <1>2, <3>1, StateFacts
    <3>3. /\ SameFrame(p, q) /\ q.st = SEND_HEADERS /\ q.proceed = p.proceed /\ q.entity = p.entity
          /\ q.more = p.more /\ q.blocked = p.blocked /\ q.body = p.body
        BY <1>2 DEF Stream, SameFrame
    <3> HIDE DEF q
    <3>4. Only(d, f, i, q)
        BY <1>1, <2>1, <3>2, OnlyAgain
    <3>5. SameFrame(r, q) /\ q.st = AfterBody(r)
        BY <1>1, <2>1, <3>3 DEF SameFrame, AfterBody
    <3> QED BY <1>1, <3>3, <3>4, <3>5
  <2>2. CASE ~(early /\ r.called)
    <3>1. f = e /\ p.st = AfterBody(r)
        BY <1>1, <2>2 DEF AfterBody
    <3> QED BY <1>1, <3>1
  <2> QED BY <2>1, <2>2
<1> HIDE DEF f
<1>4. f \in Conn /\ f.s[i] = q /\ q \in Stream
    BY <1>3, OnlyAt
<1> DEFINE k == [q EXCEPT !.proceed = FALSE]
           g == [f EXCEPT !.s[i] = k]
<1>5. out = IF r.write # "none" THEN set_req_body_state(f, i, CLOSE_QUEUED)
            ELSE set_req_body_state(g, i, CLOSE_DELIVERED)
  <2>1. [f EXCEPT !.s[i].proceed = FALSE] = g
      BY <1>4
  <2>2. out = IF r.write # "none" THEN set_req_body_state(f, i, CLOSE_QUEUED)
              ELSE set_req_body_state([f EXCEPT !.s[i].proceed = FALSE], i, CLOSE_DELIVERED)
      BY Zenon DEF EndOfBody, f, e
  <2> QED BY <2>1, <2>2, Zenon
<1> HIDE DEF out
<1>6. CASE r.write # "none"
  <2> DEFINE h == set_req_body_state(f, i, CLOSE_QUEUED)
             s == [q EXCEPT !.body = CLOSE_QUEUED]
  <2>1. out = h
      BY <1>5, <1>6
  <2>2. Only(f, h, i, s)
    <3>1. q.body < CLOSE_QUEUED /\ CLOSE_QUEUED # CLOSE_DELIVERED /\ CLOSE_QUEUED \in BEFORE_FIRST_FRAME .. CLOSE_DELIVERED
        BY <1>3
    <3> QED BY <1>4, <3>1, BodyFacts
  <2>3. /\ SameFrame(q, s) /\ s.st = q.st /\ s.proceed = q.proceed /\ s.entity = q.entity
        /\ s.more = q.more /\ s.blocked = q.blocked /\ s.body = CLOSE_QUEUED
      BY <1>4 DEF Stream, SameFrame
  <2> HIDE DEF s, h
  <2>4. Only(d, h, i, s) /\ SameFrame(r, s)
      BY <1>3, <2>2, <2>3, OnlyAgain DEF SameFrame
  <2> QED BY <1>3, <1>6, <2>1, <2>3, <2>4 DEF out
<1>7. CASE r.write = "none"
  <2> DEFINE h == set_req_body_state(g, i, CLOSE_DELIVERED)
             s == [k EXCEPT !.body = CLOSE_DELIVERED]
  <2>1. out = h
      BY <1>5, <1>7
  <2>2. /\ SameFrame(q, k) /\ k.st = q.st /\ k.proceed = FALSE /\ k.entity = q.entity
        /\ k.more = q.more /\ k.blocked = q.blocked /\ k.body = q.body /\ k \in Stream
      BY <1>4 DEF Stream, SameFrame
  <2> HIDE DEF k
  <2>3. Only(f, g, i, k)
      BY <1>4, <2>2, PutOnly DEF SameFrame
  <2> HIDE DEF g
  <2>4. g \in Conn /\ g.s[i] = k
      BY <1>4, <2>3, OnlyAt
  <2>5. Only(g, h, i, s)
    <3>1. k.body < CLOSE_DELIVERED /\ CLOSE_DELIVERED \in BEFORE_FIRST_FRAME .. CLOSE_DELIVERED
        BY <1>3, <2>2
    <3> QED BY <2>2, <2>4, <3>1, BodyFacts
  <2>6. /\ SameFrame(k, s) /\ s.st = k.st /\ s.proceed = k.proceed /\ s.entity = k.entity
        /\ s.more = k.more /\ s.blocked = k.blocked /\ s.body = CLOSE_DELIVERED
      BY <2>2 DEF Stream, SameFrame
  <2> HIDE DEF s, h
  <2>7. Only(d, g, i, k)
      BY <1>3, <2>3, OnlyAgain
  <2>8. Only(d, h, i, s) /\ SameFrame(r, s)
      BY <1>3, <2>2, <2>5, <2>6, <2>7, OnlyAgain DEF SameFrame
  <2> QED BY <1>3, <1>7, <2>1, <2>2, <2>6, <2>8 DEF out
<1> QED BY <1>6, <1>7 DEF out

(* The stream with the chunk added, written later or at once *)
More(d, i, len) == [d EXCEPT !.s[i] = [d.s[i] EXCEPT !.more = d.s[i].more \/ len]]

Entity(d, i, len) ==
    IF len \/ d.s[i].more THEN "some" ELSE IF d.s[i].entity = "null" THEN "empty" ELSE d.s[i].entity

WholeBody(d, i, len) == [d.s[i] EXCEPT !.entity = Entity(d, i, len), !.more = FALSE]

LEMMA MoreFacts ==
  ASSUME NEW d \in Conn, NEW i \in Ids, NEW len \in BOOLEAN
  PROVE  \E q : /\ Only(d, More(d, i, len), i, q) /\ SameFrame(d.s[i], q)
                /\ q.st = d.s[i].st /\ q.proceed = d.s[i].proceed /\ q.entity = d.s[i].entity
                /\ (q.more <=> d.s[i].more \/ len) /\ q.blocked = d.s[i].blocked /\ q.body = d.s[i].body
<1> DEFINE r == d.s[i]
           more == r.more \/ len
           q == [r EXCEPT !.more = more]
<1>0. r \in Stream /\ more \in BOOLEAN
    BY DEF Conn
<1>1. more <=> r.more \/ len
    OBVIOUS
<1> HIDE DEF more
<1>2. /\ q \in Stream /\ SameFrame(r, q) /\ q.st = r.st /\ q.proceed = r.proceed /\ q.entity = r.entity
      /\ q.more = more /\ q.blocked = r.blocked /\ q.body = r.body
    BY <1>0 DEF Stream, SameFrame
<1>3. More(d, i, len) = [d EXCEPT !.s[i] = q]
    BY Zenon DEF More, more
<1> HIDE DEF q
<1>4. Only(d, [d EXCEPT !.s[i] = q], i, q)
    BY <1>2, PutOnly DEF SameFrame
<1>5. Only(d, More(d, i, len), i, q)
    BY <1>3, <1>4, Zenon
<1>6. q.more <=> r.more \/ len
    BY <1>1, <1>2
<1> QED BY <1>2, <1>5, <1>6

LEMMA WholeBodyFacts ==
  ASSUME NEW d \in Conn, NEW i \in Ids, NEW len \in BOOLEAN
  PROVE  LET q == WholeBody(d, i, len) IN
         /\ q \in Stream /\ Only(d, [d EXCEPT !.s[i] = q], i, q) /\ SameFrame(d.s[i], q)
         /\ q.st = d.s[i].st /\ q.proceed = d.s[i].proceed /\ q.entity \in {"empty", "some"}
         /\ (len => q.entity = "some")
         /\ q.more = FALSE /\ q.blocked = d.s[i].blocked /\ q.body = d.s[i].body
<1> DEFINE r == d.s[i]
           q == WholeBody(d, i, len)
           n == Entity(d, i, len)
<1>0. r \in Stream
    BY DEF Conn
<1>1. n \in {"empty", "some"} /\ (len => n = "some")
  <2>1. r.entity \in {"null", "empty", "some"}
      BY <1>0 DEF Stream
  <2> QED BY <2>1 DEF Entity
<1> HIDE DEF n
<1>2. /\ q \in Stream /\ SameFrame(r, q) /\ q.st = r.st /\ q.proceed = r.proceed /\ q.entity = n
      /\ q.more = FALSE /\ q.blocked = r.blocked /\ q.body = r.body
  <2>1. n \in {"null", "empty", "some"}
      BY <1>1
  <2>2. q = [r EXCEPT !.entity = n, !.more = FALSE]
      BY Zenon DEF WholeBody, n
  <2> HIDE DEF q
  <2> QED BY <1>0, <2>1, <2>2 DEF Stream, SameFrame
<1> HIDE DEF q
<1>3. Only(d, [d EXCEPT !.s[i] = q], i, q)
    BY <1>2, PutOnly DEF SameFrame
<1>4. /\ q \in Stream /\ Only(d, [d EXCEPT !.s[i] = q], i, q) /\ SameFrame(r, q)
      /\ q.st = r.st /\ q.proceed = r.proceed /\ q.entity \in {"empty", "some"}
      /\ (len => q.entity = "some")
      /\ q.more = FALSE /\ q.blocked = r.blocked /\ q.body = r.body
    BY <1>1, <1>2, <1>3
<1> QED BY <1>4 DEF q

(* The cases of AddChunk *)
Added(i, r, old, end, streamable, m, f, g) ==
    IF r.streamed /\ r.write # "none"
    THEN IF r.entity = "null" THEN write_streaming_body(m, i) ELSE m
    ELSE IF ~r.streamed /\ old.body = BEFORE_FIRST_FRAME /\ ~end /\ streamable
    THEN execute_or_enqueue_request_core(g, i)
    ELSE IF ~r.streamed /\ end /\ ~old.proceed
    THEN execute_or_enqueue_request(f, i)
    ELSE f

PutWith(d, i, q) == [d EXCEPT !.s[i] = q]
Proceeds(q) == [q EXCEPT !.proceed = TRUE]

LEMMA AddChunkCases ==
  ASSUME NEW d \in Conn, NEW i \in Ids, NEW old, NEW len, NEW end, NEW streamable
  PROVE  AddChunk(d, i, old, len, end, streamable) =
            Added(i, d.s[i], old, end, streamable, More(d, i, len), PutWith(d, i, WholeBody(d, i, len)),
                  PutWith(d, i, Proceeds(WholeBody(d, i, len))))
<1> DEFINE chunk == [d EXCEPT !.s[i].more = @ \/ len]
           m == More(d, i, len)
<1>1. chunk = m
    BY DEF Conn, More
<1> DEFINE q == WholeBody(d, i, len)
           f == [d EXCEPT !.s[i] = q]
           g == [d EXCEPT !.s[i] = [q EXCEPT !.proceed = TRUE]]
<1>2. AddChunk(d, i, old, len, end, streamable) = Added(i, d.s[i], old, end, streamable, chunk, f, g)
    BY Zenon DEF AddChunk, WholeBody, Entity, Added
<1>3. f = PutWith(d, i, q) /\ g = PutWith(d, i, Proceeds(q))
    BY DEF PutWith, Proceeds
<1> HIDE DEF chunk, q, f, g, m
<1>4. AddChunk(d, i, old, len, end, streamable) =
          Added(i, d.s[i], old, end, streamable, m, PutWith(d, i, q), PutWith(d, i, Proceeds(q)))
    BY <1>1, <1>2, <1>3
<1> QED BY <1>4 DEF m, q

LEMMA ReceivingFacts ==
  ASSUME NEW d, NEW i, NEW r \in Stream, NEW place \in Places, Good(d, i, r, place),
         r.body \in {BEFORE_FIRST_FRAME, OPEN}
  PROVE  /\ r.st \in RECV_BODY .. END_STREAM /\ r.st \notin {REQ_PENDING, SEND_HEADERS}
         /\ r.streamed => r.called /\ r.proceed /\ r.body = OPEN /\ place # "pending"
         /\ ~r.streamed => /\ r.st = RECV_BODY /\ r.write = "none" /\ ~r.called /\ ~r.turn /\ ~r.active /\ ~r.data
                           /\ ~r.done /\ ~r.busy /\ ~r.more /\ ~r.tunnel
                           /\ place = (IF r.proceed THEN "pending" ELSE "none")
         /\ r.body = BEFORE_FIRST_FRAME => ~r.streamed /\ ~r.proceed
         /\ d.state # FREED
<1>1. r.st \in 0 .. 8 /\ r.write \in {"none", "open", "dead"}
    BY DEF Stream
<1>2. r.st \in RECV_BODY .. END_STREAM /\ r.st \notin {REQ_PENDING, SEND_HEADERS} /\ d.state # FREED
    BY <1>1 DEF Good, FreshOK, BodyOK
<1>3. r.streamed => r.called /\ r.proceed /\ r.body = OPEN /\ place # "pending"
    BY DEF Good, BodyOK, QueueOK
<1>4. ASSUME ~r.streamed
      PROVE  /\ r.st = RECV_BODY /\ r.write = "none" /\ ~r.called /\ ~r.turn /\ ~r.active /\ ~r.data
             /\ ~r.done /\ ~r.busy /\ ~r.more /\ ~r.tunnel
  <2>1. r.st = RECV_BODY
      BY <1>2, <1>4 DEF Good, BodyOK
  <2>2. r.write = "none" /\ ~r.called /\ ~r.busy /\ ~r.more /\ ~r.tunnel
      BY <1>1, <1>4, <2>1 DEF Good, BodyOK, WriteOK
  <2>3. ~r.turn /\ ~r.data /\ ~r.done
      BY <2>1, <2>2 DEF Good, SendOK
  <2> QED BY <2>1, <2>2, <2>3 DEF Good, SendOK
<1>5. ASSUME ~r.streamed PROVE place = (IF r.proceed THEN "pending" ELSE "none")
  <2>1. place = "pending" <=> r.proceed
      BY <1>4, <1>5 DEF Good, QueueOK
  <2>2. place # "to_proceed" /\ place # "early"
      BY <1>4, <1>5 DEF Good, SendOK
  <2> QED BY <2>1, <2>2 DEF Places
<1>6. r.body = BEFORE_FIRST_FRAME => ~r.streamed /\ ~r.proceed
    BY DEF Good, BodyOK
<1> QED BY <1>2, <1>3, <1>4, <1>5, <1>6

(* What a frame has made of the stream before it is added to the body *)
Framed(r, b) ==
    /\ SameFrame(r, b) /\ b.st = r.st /\ b.proceed = r.proceed /\ b.entity = r.entity
    /\ b.more = r.more /\ b.body = OPEN

LEMMA FramedGood ==
  ASSUME NEW d, NEW i, NEW r \in Stream, NEW b, NEW place \in Places, Good(d, i, r, place),
         r.body = OPEN, Framed(r, b), r.st >= RECV_BODY
  PROVE  Good(d, i, b, place)
BY DEF Framed, SameFrame, Good, FreshOK, BodyOK, QueueOK, SendOK, WriteOK, BlockedOK, EndOK, RunOK

LEMMA LandsFramedReset ==
  ASSUME NEW d \in Conn, NEW e, NEW i \in Ids, NEW place \in Places, Place(d, i, place),
         NEW r \in Stream, Good(d, i, r, place), r.body \in {BEFORE_FIRST_FRAME, OPEN},
         NEW b, Step(d, e, i, b, place), Framed(r, b)
  PROVE  Lands(d, stream_reset(e, i), i)
<1>1. /\ r.st \in RECV_BODY .. END_STREAM /\ r.st \notin {REQ_PENDING, SEND_HEADERS}
      /\ r.st # RECV_BODY => r.body = OPEN
  <2>1. /\ r.st \in RECV_BODY .. END_STREAM /\ r.st \notin {REQ_PENDING, SEND_HEADERS}
        /\ r.streamed => r.body = OPEN
        /\ ~r.streamed => r.st = RECV_BODY
      BY ReceivingFacts
  <2> QED BY <2>1
<1>2. b \in Stream
    BY StepAt
<1>3. Closable(b, place)
    BY <1>1 DEF Closable, Framed, SameFrame
<1>4. ASSUME b.st > REQ_PENDING, place # "none" PROVE Good(d, i, Ended(b), place)
  <2>1. r.body = OPEN /\ r.st >= RECV_BODY
      BY <1>1, <1>4 DEF Framed
  <2>2. Good(d, i, b, place)
      BY <2>1, FramedGood
  <2> QED BY <1>2, <1>4, <2>2, GoodEnded
<1> QED BY <1>3, <1>4, LandsReset DEF Place

(* A frame that is not the last *)
LEMMA LandsOpenChunk ==
  ASSUME NEW d \in Conn, NEW e, NEW i \in Ids, NEW place \in Places, Place(d, i, place),
         NEW r, r = d.s[i], r \in Stream, Good(d, i, r, place), r.body \in {BEFORE_FIRST_FRAME, OPEN},
         NEW b, Step(d, e, i, b, place), Framed(r, b), d.state < IS_CLOSING, i <= d.max_open,
         NEW streamable \in BOOLEAN, NEW len \in BOOLEAN, NEW end \in BOOLEAN, ~end,
         len \/ end
  PROVE  Lands(d, AddChunk(e, i, r, len, end, streamable), i)
<1> DEFINE out == AddChunk(e, i, r, len, end, streamable)
           m == More(e, i, len)
           w == WholeBody(e, i, len)
           f == [e EXCEPT !.s[i] = w]
           s == [w EXCEPT !.proceed = TRUE]
           g == [e EXCEPT !.s[i] = s]
<1>0. e \in Conn /\ e.s[i] = b /\ b \in Stream
    BY StepAt
<1>1. /\ r.st \in RECV_BODY .. END_STREAM /\ r.st \notin {REQ_PENDING, SEND_HEADERS}
      /\ r.streamed => r.called /\ r.proceed /\ r.body = OPEN /\ place # "pending"
      /\ ~r.streamed => /\ r.st = RECV_BODY /\ r.write = "none" /\ ~r.called /\ ~r.turn /\ ~r.active /\ ~r.data
                        /\ ~r.done /\ ~r.busy /\ ~r.more /\ ~r.tunnel
                        /\ place = (IF r.proceed THEN "pending" ELSE "none")
      /\ r.body = BEFORE_FIRST_FRAME => ~r.streamed /\ ~r.proceed
      /\ d.state # FREED
    BY ReceivingFacts
<1>2. out = IF b.streamed /\ b.write # "none"
            THEN IF b.entity = "null" THEN write_streaming_body(m, i) ELSE m
            ELSE IF ~b.streamed /\ r.body = BEFORE_FIRST_FRAME /\ streamable
            THEN execute_or_enqueue_request_core(g, i) ELSE f
  <2>1. out = Added(i, e.s[i], r, end, streamable, m, PutWith(e, i, w), PutWith(e, i, Proceeds(w)))
      BY <1>0, AddChunkCases
  <2>2. f = PutWith(e, i, w) /\ g = PutWith(e, i, Proceeds(w))
      BY DEF PutWith, Proceeds
  <2> HIDE DEF out, m, f, g, w
  <2>3. out = Added(i, b, r, end, streamable, m, f, g)
      BY <1>0, <2>1, <2>2
  <2> QED BY <2>3 DEF Added
<1>3. Serves(d.s[i]) => r.streamed
    BY <1>1 DEF Serves
<1> HIDE DEF out
<1>4. CASE b.streamed /\ b.write # "none"
  <2>1. PICK q : /\ Only(e, m, i, q) /\ SameFrame(b, q)
                 /\ q.st = b.st /\ q.proceed = b.proceed /\ q.entity = b.entity
                 /\ (q.more <=> b.more \/ len) /\ q.blocked = b.blocked /\ q.body = b.body
    <3>1. \E q : /\ Only(e, m, i, q) /\ SameFrame(e.s[i], q)
                 /\ q.st = e.s[i].st /\ q.proceed = e.s[i].proceed /\ q.entity = e.s[i].entity
                 /\ (q.more <=> e.s[i].more \/ len) /\ q.blocked = e.s[i].blocked /\ q.body = e.s[i].body
        BY <1>0, MoreFacts
    <3> QED BY <1>0, <3>1
  <2>2. /\ SameFrame(r, q) /\ q.st = r.st /\ q.proceed = r.proceed /\ q.entity = r.entity /\ q.more
        /\ q.body = OPEN
      BY <2>1 DEF Framed, SameFrame
  <2>3. r.streamed /\ r.write # "none"
      BY <1>4 DEF Framed, SameFrame
  <2> HIDE DEF m
  <2>4. Step(d, m, i, q, place)
      BY <2>1, StepOnly
  <2>5. CASE r.entity = "null"
    <3>1. out = write_streaming_body(m, i)
        BY <1>2, <1>4, <2>5 DEF Framed
    <3>2. Writing(d, i, q, place)
      <4>1. ~r.busy
          BY <2>3, <2>5 DEF Good, WriteOK, Stream
      <4> QED BY <1>1, <2>2, <2>3, <2>5, <4>1
          DEF SameFrame, Writing, Good, FreshOK, BodyOK, QueueOK, SendOK, BlockedOK, EndOK, RunOK
    <3>3. Lands(d, write_streaming_body(m, i), i)
        BY <2>4, <3>2, LandsWrite
    <3> QED BY <3>1, <3>3 DEF out
  <2>6. CASE r.entity # "null"
    <3>1. out = m
        BY <1>2, <1>4, <2>6 DEF Framed
    <3>2. Good(d, i, q, place)
        BY <1>1, <2>2, <2>3, <2>6
        DEF SameFrame, Good, FreshOK, BodyOK, QueueOK, SendOK, WriteOK, BlockedOK, EndOK, RunOK
    <3>3. Keeps(d, i, q, place)
        BY <1>1, <2>2, <2>3 DEF Keeps, Serves, SameFrame
    <3> QED BY <2>4, <3>1, <3>2, <3>3, LandsStep DEF out
  <2> QED BY <2>5, <2>6
<1>5. CASE ~(b.streamed /\ b.write # "none")
  <2>1. /\ w \in Stream /\ Only(e, f, i, w) /\ SameFrame(b, w)
        /\ w.st = b.st /\ w.proceed = b.proceed /\ w.entity = "some"
        /\ w.more = FALSE /\ w.blocked = b.blocked /\ w.body = b.body
      BY <1>0, WholeBodyFacts
  <2>2. /\ SameFrame(r, w) /\ w.st = r.st /\ w.proceed = r.proceed /\ w.entity = "some" /\ ~w.more
        /\ w.body = OPEN
      BY <2>1 DEF Framed, SameFrame
  <2>3. r.write = "none"
      BY <1>1, <1>5 DEF Framed, SameFrame
  <2>4. CASE ~b.streamed /\ r.body = BEFORE_FIRST_FRAME /\ streamable
    <3>1. out = execute_or_enqueue_request_core(g, i)
        BY <1>2, <1>5, <2>4
    <3> HIDE DEF w
    <3>2. s \in Stream /\ s.proceed = TRUE /\ SameFrame(w, s) /\ s.st = w.st /\ s.entity = w.entity
          /\ s.more = w.more /\ s.body = w.body /\ s.blocked = w.blocked
        BY <2>1 DEF Stream, SameFrame
    <3> HIDE DEF s
    <3>3. Only(e, g, i, s)
      <4>1. s.st = b.st /\ s.blocked = b.blocked /\ ~b.streamed /\ ~s.streamed
          BY <2>1, <2>4, <3>2 DEF SameFrame
      <4> QED BY <1>0, <3>2, <4>1, PutWhole
    <3>4. ~r.streamed /\ ~r.proceed
        BY <1>1, <2>4
    <3>5. place = "none"
        BY <1>1, <3>4
    <3>6. Step(d, g, i, s, "none")
        BY <3>3, <3>5, StepOnly
    <3>7. Good(d, i, s, "pending")
      <4>1. /\ s.st = RECV_BODY /\ s.body = OPEN /\ s.proceed /\ ~s.streamed /\ s.write = "none" /\ ~s.called
            /\ ~s.turn /\ ~s.active /\ ~s.data /\ ~s.done /\ ~s.busy /\ ~s.more /\ ~s.tunnel /\ s.entity = "some"
          BY <1>1, <2>2, <3>2, <3>4 DEF SameFrame
      <4> QED BY <1>1, <4>1
          DEF Good, FreshOK, BodyOK, QueueOK, SendOK, WriteOK, BlockedOK, EndOK, RunOK
    <3> HIDE DEF g
    <3> QED BY <3>1, <3>6, <3>7, LandsEnqueue DEF out
  <2>5. CASE ~(~b.streamed /\ r.body = BEFORE_FIRST_FRAME /\ streamable)
    <3>1. out = f
        BY <1>2, <1>5, <2>5
    <3> HIDE DEF w, f
    <3>2. Step(d, f, i, w, place)
        BY <2>1, StepOnly
    <3>3. Good(d, i, w, place)
      <4>1. CASE r.streamed
          BY <1>1, <2>2, <2>3, <4>1
          DEF SameFrame, Good, FreshOK, BodyOK, QueueOK, SendOK, WriteOK, BlockedOK, EndOK, RunOK
      <4>2. CASE ~r.streamed
        <5>1. /\ w.st = RECV_BODY /\ w.body = OPEN /\ w.proceed = r.proceed /\ ~w.streamed /\ w.write = "none" /\ ~w.called
              /\ ~w.turn /\ ~w.active /\ ~w.data /\ ~w.done /\ ~w.busy /\ ~w.more /\ ~w.tunnel /\ w.entity = "some"
            BY <1>1, <2>2, <4>2 DEF SameFrame
        <5> QED BY <1>1, <4>2, <5>1
            DEF Good, FreshOK, BodyOK, QueueOK, SendOK, WriteOK, BlockedOK, EndOK, RunOK
      <4> QED BY <4>1, <4>2
    <3>4. Keeps(d, i, w, place)
        BY <1>3, <2>2 DEF Keeps, Serves, SameFrame, Place
    <3> QED BY <3>1, <3>2, <3>3, <3>4, LandsStep DEF out
  <2> QED BY <2>4, <2>5
<1>6. Lands(d, out, i)
    BY <1>4, <1>5 DEF out
<1> QED BY <1>6 DEF out

(* The body may be ended: if not all of it is with the handler, or the client *)
(* may half-close a tunnel early. *)
Endable(d, i) == d.s[i].streamed /\ d.s[i].entity = "empty" => "early_end" \in d.features

(* The last frame *)
LEMMA LandsLastChunk ==
  ASSUME NEW d \in Conn, NEW e, NEW i \in Ids, NEW place \in Places, Place(d, i, place),
         NEW r, r = d.s[i], r \in Stream, Good(d, i, r, place), r.body \in {BEFORE_FIRST_FRAME, OPEN},
         NEW b, Step(d, e, i, b, place), Framed(r, b), b.blocked = TRUE, d.state < IS_CLOSING, i <= d.max_open,
         NEW streamable \in BOOLEAN, NEW len \in BOOLEAN, NEW end \in BOOLEAN, ~end => FALSE,
         Endable(d, i)
  PROVE  Lands(d, AddChunk(EndOfBody(e, i), i, r, len, end, streamable), i)
<1> DEFINE x == EndOfBody(e, i)
           out == AddChunk(x, i, r, len, end, streamable)
           m == More(x, i, len)
           w == WholeBody(x, i, len)
           f == PutWith(x, i, w)
           k == PutWith(x, i, Proceeds(w))
<1> SUFFICES Lands(d, out, i)
    OBVIOUS
<1>0. e \in Conn /\ e.s[i] = b /\ b \in Stream
    BY StepAt
<1>1. /\ r.st \in RECV_BODY .. END_STREAM /\ r.st \notin {REQ_PENDING, SEND_HEADERS}
      /\ r.streamed => r.called /\ r.proceed /\ r.body = OPEN /\ place # "pending"
      /\ ~r.streamed => /\ r.st = RECV_BODY /\ r.write = "none" /\ ~r.called /\ ~r.turn /\ ~r.active /\ ~r.data
                        /\ ~r.done /\ ~r.busy /\ ~r.more /\ ~r.tunnel
                        /\ place = (IF r.proceed THEN "pending" ELSE "none")
      /\ r.body = BEFORE_FIRST_FRAME => ~r.streamed /\ ~r.proceed
      /\ d.state # FREED
    BY ReceivingFacts
<1>2. PICK g : /\ Only(e, x, i, g) /\ SameFrame(b, g)
               /\ g.st = AfterBody(b) /\ g.entity = b.entity
               /\ g.more = b.more /\ g.blocked = b.blocked
               /\ IF b.write # "none" THEN g.body = CLOSE_QUEUED /\ g.proceed = b.proceed
                  ELSE g.body = CLOSE_DELIVERED /\ ~g.proceed
  <2>1. b.body = OPEN /\ b.st \in RECV_BODY .. END_STREAM
      BY <1>1 DEF Framed
  <2> QED BY <1>0, <2>1, EndOfBodyFacts
<1> HIDE DEF x
<1>3. x \in Conn /\ x.s[i] = g /\ g \in Stream
    BY <1>0, <1>2, OnlyAt
<1>4. Step(d, x, i, g, place)
    BY <1>2, StepOnly
<1>5. /\ SameFrame(r, g) /\ g.st = AfterBody(r) /\ g.entity = r.entity /\ g.more = r.more /\ g.blocked = TRUE
      /\ IF r.write # "none" THEN g.body = CLOSE_QUEUED /\ g.proceed = r.proceed
         ELSE g.body = CLOSE_DELIVERED /\ ~g.proceed
    BY <1>2 DEF Framed, SameFrame, AfterBody
<1>6. /\ g.st \in SEND_HEADERS .. END_STREAM \/ (g.st = REQ_PENDING /\ ~r.streamed)
      /\ r.streamed => g.st = (IF r.st = RECV_BODY THEN SEND_HEADERS ELSE r.st)
      /\ ~r.streamed => g.st = REQ_PENDING
    BY <1>1, <1>5 DEF AfterBody
<1>7. out = Added(i, g, r, end, streamable, m, f, k)
  <2>1. out = Added(i, x.s[i], r, end, streamable, m, f, k)
      BY <1>3, AddChunkCases
  <2> QED BY <1>3, <2>1
<1>8. end
    OBVIOUS
<1> HIDE DEF out, f, k
<1>9. out = IF g.streamed /\ g.write # "none"
            THEN IF g.entity = "null" THEN write_streaming_body(m, i) ELSE m
            ELSE IF ~g.streamed /\ ~r.proceed THEN execute_or_enqueue_request(f, i) ELSE f
    BY <1>7, <1>8 DEF Added
<1>10. Serves(d.s[i]) => r.streamed
    BY <1>1 DEF Serves
<1>11. CASE g.streamed /\ g.write # "none"
  <2>1. PICK q : /\ Only(x, m, i, q) /\ SameFrame(g, q)
                 /\ q.st = g.st /\ q.proceed = g.proceed /\ q.entity = g.entity
                 /\ (q.more <=> g.more \/ len) /\ q.blocked = g.blocked /\ q.body = g.body
    <3>1. \E q : /\ Only(x, m, i, q) /\ SameFrame(x.s[i], q)
                 /\ q.st = x.s[i].st /\ q.proceed = x.s[i].proceed /\ q.entity = x.s[i].entity
                 /\ (q.more <=> x.s[i].more \/ len) /\ q.blocked = x.s[i].blocked /\ q.body = x.s[i].body
        BY <1>3, MoreFacts
    <3> QED BY <1>3, <3>1
  <2>2. r.streamed /\ r.write # "none"
      BY <1>5, <1>11 DEF SameFrame
  <2>3. /\ SameFrame(r, q) /\ q.st = (IF r.st = RECV_BODY THEN SEND_HEADERS ELSE r.st) /\ q.proceed = r.proceed
        /\ q.entity = r.entity /\ q.blocked = TRUE /\ q.body = CLOSE_QUEUED
      BY <1>5, <1>6, <2>1, <2>2 DEF SameFrame
  <2> HIDE DEF m
  <2>4. Step(d, m, i, q, place)
      BY <1>4, <2>1, StepOnly
  <2>5. CASE r.entity = "null"
    <3>1. out = write_streaming_body(m, i)
        BY <1>5, <1>9, <1>11, <2>5
    <3>2. Writing(d, i, q, place)
      <4>1. ~r.busy
          BY <2>2, <2>5 DEF Good, WriteOK, Stream
      <4> QED BY <1>1, <2>2, <2>3, <2>5, <4>1
          DEF SameFrame, Writing, Good, FreshOK, BodyOK, QueueOK, SendOK, BlockedOK, EndOK, RunOK
    <3>3. Lands(d, write_streaming_body(m, i), i)
        BY <2>4, <3>2, LandsWrite
    <3> QED BY <3>1, <3>3
  <2>6. CASE r.entity # "null"
    <3>1. out = m
        BY <1>5, <1>9, <1>11, <2>6
    <3>2. r.entity # "null" /\ (r.entity = "empty" => "early_end" \in d.features)
        BY <2>2, <2>6 DEF Endable
    <3>3. Good(d, i, q, place)
        BY <1>1, <2>2, <2>3, <3>2
        DEF SameFrame, Good, FreshOK, BodyOK, QueueOK, SendOK, WriteOK, BlockedOK, EndOK, RunOK
    <3>4. Keeps(d, i, q, place)
        BY <1>1, <2>2, <2>3 DEF Keeps, Serves, SameFrame
    <3> QED BY <2>4, <3>1, <3>3, <3>4, LandsStep
  <2> QED BY <2>5, <2>6
<1>12. CASE ~(g.streamed /\ g.write # "none")
  <2>1. /\ w \in Stream /\ Only(x, f, i, w) /\ SameFrame(g, w)
        /\ w.st = g.st /\ w.proceed = g.proceed /\ w.more = FALSE /\ w.blocked = g.blocked /\ w.body = g.body
    <3>1. /\ w \in Stream /\ Only(x, [x EXCEPT !.s[i] = w], i, w) /\ SameFrame(x.s[i], w)
          /\ w.st = x.s[i].st /\ w.proceed = x.s[i].proceed /\ w.more = FALSE /\ w.blocked = x.s[i].blocked
          /\ w.body = x.s[i].body
      <4>1. x \in Conn
          BY <1>3
      <4> QED BY ONLY <4>1, i \in Ids, len \in BOOLEAN, WholeBodyFacts
    <3> HIDE DEF w
    <3> QED BY <1>3, <3>1 DEF f, PutWith
  <2>2. r.write = "none"
      BY <1>1, <1>5, <1>12 DEF SameFrame
  <2>3. /\ SameFrame(r, w) /\ w.st = g.st /\ ~w.proceed /\ ~w.more /\ w.blocked = TRUE /\ w.body = CLOSE_DELIVERED
      BY <1>5, <2>1, <2>2 DEF SameFrame
  <2> HIDE DEF w
  <2>4. Step(d, f, i, w, place)
      BY <1>4, <2>1, StepOnly
  <2>5. CASE ~g.streamed /\ ~r.proceed
    <3>1. out = execute_or_enqueue_request(f, i)
        BY <1>9, <1>12, <2>5
    <3>2. ~r.streamed
        BY <1>5, <2>5 DEF SameFrame
    <3>3. place = "none"
        BY <1>1, <2>5, <3>2
    <3>4. Whole(w) /\ w.st = REQ_PENDING
        BY <1>1, <1>6, <2>3, <3>2 DEF Whole, SameFrame
    <3>5. Lands(d, execute_or_enqueue_request(f, i), i)
        BY <2>4, <3>3, <3>4, LandsExecute
    <3> QED BY <3>1, <3>5
  <2>6. CASE ~(~g.streamed /\ ~r.proceed)
    <3>1. out = f
        BY <1>9, <1>12, <2>6
    <3>2. Good(d, i, w, place)
      <4>1. CASE r.streamed
        <5>1. /\ w.st = (IF r.st = RECV_BODY THEN SEND_HEADERS ELSE r.st) /\ w.write = "none" /\ ~w.busy
            BY <1>6, <2>2, <2>3, <4>1 DEF SameFrame, Good, WriteOK
        <5>2. EndOK(d, w, place)
          <6> SUFFICES ASSUME d.features \cap {"unaccepted", "refused", "tooearly"} = {}, d.state < IS_CLOSING
                       PROVE  w.st < SEND_BODY
              BY <2>3, <5>1 DEF EndOK
          <6>1. r.st >= SEND_BODY => FALSE
              BY <1>1, <2>2, <4>1 DEF Good, EndOK
          <6> QED BY <1>1, <5>1, <6>1
        <5>3. Well(d, i, w, place)
            BY <1>1, <2>2, <2>3, <4>1, <5>1
            DEF SameFrame, Good, Well, FreshOK, BodyOK, QueueOK, SendOK, WriteOK, BlockedOK, RunOK
        <5> QED BY <5>2, <5>3, GoodWell
      <4>2. CASE ~r.streamed
        <5>1. r.proceed /\ place = "pending"
            BY <1>1, <1>5, <2>6, <4>2 DEF SameFrame
        <5>2. /\ w.st = REQ_PENDING /\ w.body = CLOSE_DELIVERED /\ ~w.proceed /\ ~w.streamed /\ w.write = "none" /\ ~w.called
              /\ ~w.turn /\ ~w.active /\ ~w.data /\ ~w.done /\ ~w.busy /\ ~w.more /\ ~w.tunnel /\ w.blocked
            BY <1>1, <1>6, <2>3, <4>2 DEF SameFrame
        <5> QED BY <1>1, <5>1, <5>2
            DEF Good, FreshOK, BodyOK, QueueOK, SendOK, WriteOK, BlockedOK, EndOK, RunOK
      <4> QED BY <4>1, <4>2
    <3>3. Keeps(d, i, w, place)
        BY <1>10, <2>3 DEF Keeps, Serves, SameFrame, Place
    <3> QED BY <2>4, <3>1, <3>2, <3>3, LandsStep
  <2> QED BY <2>5, <2>6
<1> QED BY <1>11, <1>12

LEMMA LandsChunk ==
  ASSUME NEW d, NEW i \in Ids, ConnInv(d), d.s[i].body \in {BEFORE_FIRST_FRAME, OPEN}, d.state < IS_CLOSING,
         NEW len \in BOOLEAN, NEW end \in BOOLEAN, NEW streamable \in BOOLEAN, NEW valid \in BOOLEAN,
         len \/ end, end => Endable(d, i)
  PROVE  Lands(d, handle_request_body_chunk(d, i, len, end, streamable, valid), i)
<1> DEFINE r == d.s[i]
           e == FirstFrame(d, i)
           f == Block(e, i)
           out == handle_request_body_chunk(d, i, len, end, streamable, valid)
<1>0. d \in Conn /\ ListsOK(d) /\ r \in Stream
    BY StreamAt
<1>1. PICK place \in Places : Place(d, i, place) /\ Good(d, i, r, place)
    BY StreamAt
<1>2. out = IF ~valid THEN SendErrorAndReset(e, i)
            ELSE IF i > f.max_open THEN stream_reset(f, i)
            ELSE AddChunk(IF end THEN EndOfBody(f, i) ELSE f, i, r, len, end, streamable)
    BY Zenon DEF handle_request_body_chunk, Disregarded
<1>3. PICK a : /\ Only(d, e, i, a) /\ SameFrame(r, a)
               /\ a.st = r.st /\ a.proceed = r.proceed /\ a.entity = r.entity
               /\ a.more = r.more /\ a.blocked = r.blocked /\ a.body = OPEN
    BY <1>0, FirstFrameFacts
<1> HIDE DEF e, out
<1>4. e \in Conn /\ e.s[i] = a /\ e.state = d.state
    BY <1>0, <1>3, OnlyAt
<1>5. PICK b : /\ Only(e, f, i, b) /\ SameFrame(a, b)
               /\ b.st = a.st /\ b.proceed = a.proceed /\ b.entity = a.entity
               /\ b.more = a.more /\ b.blocked = TRUE /\ b.body = a.body
  <2>1. \E b : /\ Only(e, f, i, b) /\ SameFrame(e.s[i], b)
               /\ b.st = e.s[i].st /\ b.proceed = e.s[i].proceed /\ b.entity = e.s[i].entity
               /\ b.more = e.s[i].more /\ b.blocked = TRUE /\ b.body = e.s[i].body
      BY <1>4, BlockKept, Zenon
  <2> QED BY <1>4, <2>1, Zenon
<1> HIDE DEF f
<1>6. Step(d, e, i, a, place) /\ Framed(r, a)
    BY <1>0, <1>1, <1>3, OnlyStep DEF Framed
<1>7. Step(d, f, i, b, place)
    BY <1>0, <1>5, <1>6, StepOnly
<1>8. Framed(r, b)
    BY <1>3, <1>5 DEF Framed, SameFrame
<1>9. f.max_open = d.max_open /\ d.max_open \in Int /\ i \in Int
  <2>1. d.max_open \in 0 .. MaxId /\ MaxId \in Nat /\ i \in 1 .. MaxId
      BY <1>0, IdsFinite DEF Conn, Ids
  <2> QED BY <1>0, <1>7, <2>1, StepAt
<1>10. CASE ~valid
  <2>1. stream_send_error(e) = e
      BY <1>4, CheckTrue DEF stream_send_error
  <2>2. out = stream_reset(e, i)
      BY <1>2, <1>10, <2>1 DEF SendErrorAndReset
  <2>3. Lands(d, stream_reset(e, i), i)
      BY <1>0, <1>1, <1>6, LandsFramedReset
  <2> QED BY <2>2, <2>3 DEF out
<1>11. CASE valid /\ i > d.max_open
  <2>1. out = stream_reset(f, i)
      BY <1>2, <1>9, <1>11
  <2>2. Lands(d, stream_reset(f, i), i)
      BY <1>0, <1>1, <1>7, <1>8, LandsFramedReset
  <2> QED BY <2>1, <2>2 DEF out
<1>12. CASE valid /\ i <= d.max_open /\ ~end
  <2>1. out = AddChunk(f, i, r, len, end, streamable)
      BY <1>2, <1>9, <1>12
  <2>2. ~end /\ i <= d.max_open
      BY <1>12
  <2>3. Lands(d, AddChunk(f, i, r, len, end, streamable), i)
      BY <1>0, <1>1, <1>7, <1>8, <2>2, LandsOpenChunk
  <2> QED BY <2>1, <2>3 DEF out
<1>13. CASE valid /\ i <= d.max_open /\ end
  <2>1. out = AddChunk(EndOfBody(f, i), i, r, len, end, streamable)
    <3> DEFINE x == IF end THEN EndOfBody(f, i) ELSE f
    <3>1. out = AddChunk(x, i, r, len, end, streamable)
      <4> HIDE DEF x
      <4>1. valid /\ ~(i > f.max_open)
          BY <1>9, <1>13
      <4> QED BY <1>2, <4>1, Zenon DEF x
    <3>2. x = EndOfBody(f, i)
        BY <1>13
    <3> HIDE DEF x
    <3> QED BY <3>1, <3>2, Zenon
  <2>2. (~end => FALSE) /\ i <= d.max_open /\ b.blocked = TRUE /\ Endable(d, i)
      BY <1>5, <1>13
  <2>3. Lands(d, AddChunk(EndOfBody(f, i), i, r, len, end, streamable), i)
      BY <1>0, <1>1, <1>7, <1>8, <2>2, LandsLastChunk
  <2> QED BY <2>1, <2>3 DEF out
<1>14. Lands(d, out, i)
    BY <1>9, <1>10, <1>11, <1>12, <1>13 DEF out
<1> QED BY <1>14 DEF out

-----------------------------------------------------------------------------
(* The passes over the lists *)

(* So is that over the streams that a write has completed. *)
ProceedUpTo(d, n, f) ==
    f = [k \in 0 .. n |-> IF k = 0 THEN d ELSE ProceedOne(f[k - 1], d.to_proceed[k])]

LEMMA ProceedExists ==
  ASSUME NEW d, NEW N \in Nat
  PROVE  \E f : ProceedUpTo(d, N, f)
<1> DEFINE Bad == {n \in Nat : ~ \E f : ProceedUpTo(d, n, f)}
<1>1. SUFFICES ASSUME Bad # {} PROVE FALSE
    OBVIOUS
<1>2. PICK n \in Bad : \A m \in Bad : n <= m
    BY <1>1, LeastNat
<1>3. CASE n = 0
  <2> DEFINE f == [k \in 0 .. 0 |-> d]
  <2>1. f = [k \in 0 .. 0 |-> IF k = 0 THEN d ELSE ProceedOne(f[k - 1], d.to_proceed[k])]
      OBVIOUS
  <2> HIDE DEF f
  <2>2. ProceedUpTo(d, 0, f)
      BY <2>1 DEF ProceedUpTo
  <2> QED BY <1>2, <1>3, <2>2
<1>4. CASE n # 0
  <2>1. n \in Nat /\ n - 1 \in Nat /\ n - 1 \notin Bad
      BY <1>2, <1>4
  <2>2. PICK f : ProceedUpTo(d, n - 1, f)
      BY <2>1
  <2> DEFINE last == ProceedOne(f[n - 1], d.to_proceed[n])
             g == [k \in 0 .. n |-> IF k = n THEN last ELSE f[k]]
             Body(k) == IF k = 0 THEN d ELSE ProceedOne(g[k - 1], d.to_proceed[k])
  <2>3. ASSUME NEW k \in 0 .. n PROVE g[k] = Body(k)
    <3>1. CASE k = n
      <4>1. k # 0 /\ k - 1 = n - 1 /\ k - 1 \in 0 .. n /\ k - 1 # n
          BY <1>4, <2>1, <3>1
      <4>2. g[k - 1] = f[n - 1] /\ g[k] = last
          BY <3>1, <4>1
      <4> HIDE DEF g
      <4> QED BY <3>1, <4>1, <4>2
    <3>2. CASE k # n
      <4>1. k \in 0 .. n - 1 /\ (k # 0 => k - 1 \in 0 .. n /\ k - 1 # n)
          BY <2>1, <3>2
      <4>2. g[k] = f[k] /\ (k # 0 => g[k - 1] = f[k - 1])
          BY <3>2, <4>1
      <4>3. f[k] = IF k = 0 THEN d ELSE ProceedOne(f[k - 1], d.to_proceed[k])
          BY <2>2, <4>1 DEF ProceedUpTo
      <4> HIDE DEF g
      <4> QED BY <4>2, <4>3
    <3> QED BY <3>1, <3>2
  <2>4. g = [k \in 0 .. n |-> Body(k)]
    <3>1. g = [k \in 0 .. n |-> g[k]]
        OBVIOUS
    <3> HIDE DEF g, Body
    <3> QED BY <2>3, <3>1
  <2> HIDE DEF g
  <2>5. ProceedUpTo(d, n, g)
      BY <2>4 DEF ProceedUpTo
  <2> QED BY <1>2, <2>5
<1> QED BY <1>3, <1>4

LEMMA ProceedRec ==
  ASSUME NEW d, Len(d.to_proceed) \in Nat
  PROVE  /\ ProceedEach(d)[0] = d
         /\ \A k \in 1 .. Len(d.to_proceed) : ProceedEach(d)[k] = ProceedOne(ProceedEach(d)[k - 1], d.to_proceed[k])
<1> DEFINE N == Len(d.to_proceed)
<1>1. ProceedEach(d) = CHOOSE f : ProceedUpTo(d, N, f)
    BY DEF ProceedEach, ProceedUpTo
<1>2. ProceedUpTo(d, N, ProceedEach(d))
    BY <1>1, ProceedExists
<1>3. 0 \in 0 .. N /\ \A k \in 1 .. N : k \in 0 .. N /\ k # 0
    OBVIOUS
<1> QED BY <1>2, <1>3 DEF ProceedUpTo

(* Every stream that waits for the write is served. *)
LEMMA ProceedAll ==
  ASSUME NEW d, ConnInv(d), Served(d)
  PROVE  LET e == ProceedEach(d)[Len(d.to_proceed)] IN ConnInv(e) /\ Served(e)
<1> DEFINE N == Len(d.to_proceed)
           e(n) == ProceedEach(d)[n]
           List(n) == d.to_proceed[n]
           R(n) == /\ ConnInv(e(n)) /\ Served(e(n))
                   /\ \A m \in 1 .. N : n < m => List(m) \in Elements(e(n).to_proceed)
           Bad == {n \in Nat : n <= N /\ ~R(n)}
<1>0. d.to_proceed \in Seq(Ids) /\ N \in Nat /\ DOMAIN d.to_proceed = 1 .. N /\ Distinct(d.to_proceed)
    BY DEF ConnInv, ListsOK, Conn
<1>1. /\ e(0) = d
      /\ \A n \in 1 .. N : e(n) = ProceedOne(e(n - 1), List(n))
    BY <1>0, ProceedRec
<1>2. \A m \in 1 .. N : List(m) \in Ids /\ List(m) \in Elements(d.to_proceed)
    BY <1>0 DEF Elements
<1> HIDE DEF e, List, N
<1>3. R(0)
    BY <1>0, <1>1, <1>2
<1>4. ASSUME NEW n \in 1 .. N, R(n - 1) PROVE R(n)
  <2> DEFINE i == List(n)
             p == e(n - 1)
  <2>1. n - 1 \in Nat /\ n - 1 < n /\ i \in Ids /\ i \in Elements(p.to_proceed)
      BY <1>0, <1>2, <1>4
  <2>2. e(n) = ProceedOne(p, i)
      BY <1>1
  <2>3. ConnInv(p) /\ Served(p)
      BY <1>4
  <2> HIDE DEF i, p
  <2>4. Lands(p, e(n), i)
      BY <2>1, <2>2, <2>3, LandsProceed
  <2>5. ConnInv(e(n)) /\ Served(e(n)) /\ Others(p, e(n), i)
      BY <2>1, <2>3, <2>4, LandsInv
  <2>6. ASSUME NEW m \in 1 .. N, n < m PROVE List(m) \in Elements(e(n).to_proceed)
    <3>1. List(m) # i
        BY <1>0, <2>6 DEF Distinct, List, i
    <3>2. List(m) \in Elements(p.to_proceed)
      <4>1. n - 1 < m
          BY <1>0, <2>6
      <4> QED BY <1>4, <4>1 DEF p
    <3> QED BY <1>2, <2>5, <3>1, <3>2 DEF Others
  <2> QED BY <2>5, <2>6
<1>5. R(N)
  <2> SUFFICES ASSUME Bad # {} PROVE FALSE
      BY <1>0
  <2> HIDE DEF R
  <2>1. PICK n \in Bad : \A m \in Bad : n <= m
      BY LeastNat
  <2>2. n # 0
      BY <1>3, <2>1
  <2>3. n \in 1 .. N /\ n - 1 \in Nat /\ n - 1 \notin Bad
      BY <1>0, <2>1, <2>2
  <2>4. R(n - 1)
      BY <1>0, <2>3
  <2> QED BY <1>4, <2>1, <2>3, <2>4
<1> QED BY <1>5 DEF e, N

(* So is that over the streams to be replayed. *)
ReplayUpTo(d, n, f) ==
    f = [k \in 0 .. n |-> IF k = 0 THEN d ELSE ReplayOne(f[k - 1], d.early[k])]

LEMMA ReplayExists ==
  ASSUME NEW d, NEW N \in Nat
  PROVE  \E f : ReplayUpTo(d, N, f)
<1> DEFINE Bad == {n \in Nat : ~ \E f : ReplayUpTo(d, n, f)}
<1>1. SUFFICES ASSUME Bad # {} PROVE FALSE
    OBVIOUS
<1>2. PICK n \in Bad : \A m \in Bad : n <= m
    BY <1>1, LeastNat
<1>3. CASE n = 0
  <2> DEFINE f == [k \in 0 .. 0 |-> d]
  <2>1. f = [k \in 0 .. 0 |-> IF k = 0 THEN d ELSE ReplayOne(f[k - 1], d.early[k])]
      OBVIOUS
  <2> HIDE DEF f
  <2>2. ReplayUpTo(d, 0, f)
      BY <2>1 DEF ReplayUpTo
  <2> QED BY <1>2, <1>3, <2>2
<1>4. CASE n # 0
  <2>1. n \in Nat /\ n - 1 \in Nat /\ n - 1 \notin Bad
      BY <1>2, <1>4
  <2>2. PICK f : ReplayUpTo(d, n - 1, f)
      BY <2>1
  <2> DEFINE last == ReplayOne(f[n - 1], d.early[n])
             g == [k \in 0 .. n |-> IF k = n THEN last ELSE f[k]]
             Body(k) == IF k = 0 THEN d ELSE ReplayOne(g[k - 1], d.early[k])
  <2>3. ASSUME NEW k \in 0 .. n PROVE g[k] = Body(k)
    <3>1. CASE k = n
      <4>1. k # 0 /\ k - 1 = n - 1 /\ k - 1 \in 0 .. n /\ k - 1 # n
          BY <1>4, <2>1, <3>1
      <4>2. g[k - 1] = f[n - 1] /\ g[k] = last
          BY <3>1, <4>1
      <4> HIDE DEF g
      <4> QED BY <3>1, <4>1, <4>2
    <3>2. CASE k # n
      <4>1. k \in 0 .. n - 1 /\ (k # 0 => k - 1 \in 0 .. n /\ k - 1 # n)
          BY <2>1, <3>2
      <4>2. g[k] = f[k] /\ (k # 0 => g[k - 1] = f[k - 1])
          BY <3>2, <4>1
      <4>3. f[k] = IF k = 0 THEN d ELSE ReplayOne(f[k - 1], d.early[k])
          BY <2>2, <4>1 DEF ReplayUpTo
      <4> HIDE DEF g
      <4> QED BY <4>2, <4>3
    <3> QED BY <3>1, <3>2
  <2>4. g = [k \in 0 .. n |-> Body(k)]
    <3>1. g = [k \in 0 .. n |-> g[k]]
        OBVIOUS
    <3> HIDE DEF g, Body
    <3> QED BY <2>3, <3>1
  <2> HIDE DEF g
  <2>5. ReplayUpTo(d, n, g)
      BY <2>4 DEF ReplayUpTo
  <2> QED BY <1>2, <2>5
<1> QED BY <1>3, <1>4

LEMMA ReplayRec ==
  ASSUME NEW d, Len(d.early) \in Nat
  PROVE  /\ ReplayEach(d)[0] = d
         /\ \A k \in 1 .. Len(d.early) : ReplayEach(d)[k] = ReplayOne(ReplayEach(d)[k - 1], d.early[k])
<1> DEFINE N == Len(d.early)
<1>1. ReplayEach(d) = CHOOSE f : ReplayUpTo(d, N, f)
    BY DEF ReplayEach, ReplayUpTo
<1>2. ReplayUpTo(d, N, ReplayEach(d))
    BY <1>1, ReplayExists
<1>3. 0 \in 0 .. N /\ \A k \in 1 .. N : k \in 0 .. N /\ k # 0
    OBVIOUS
<1> QED BY <1>2, <1>3 DEF ReplayUpTo

(* Every request that was too early is replayed. *)
LEMMA ReplayAll ==
  ASSUME NEW d, ConnInv(d), Served(d)
  PROVE  LET e == ReplayEach(d)[Len(d.early)] IN ConnInv(e) /\ Served(e)
<1> DEFINE N == Len(d.early)
           e(n) == ReplayEach(d)[n]
           List(n) == d.early[n]
           R(n) == /\ ConnInv(e(n)) /\ Served(e(n))
                   /\ \A m \in 1 .. N : n < m => List(m) \in Elements(e(n).early)
           Bad == {n \in Nat : n <= N /\ ~R(n)}
<1>0. d.early \in Seq(Ids) /\ N \in Nat /\ DOMAIN d.early = 1 .. N /\ Distinct(d.early)
    BY DEF ConnInv, ListsOK, Conn
<1>1. /\ e(0) = d
      /\ \A n \in 1 .. N : e(n) = ReplayOne(e(n - 1), List(n))
    BY <1>0, ReplayRec
<1>2. \A m \in 1 .. N : List(m) \in Ids /\ List(m) \in Elements(d.early)
    BY <1>0 DEF Elements
<1> HIDE DEF e, List, N
<1>3. R(0)
    BY <1>0, <1>1, <1>2
<1>4. ASSUME NEW n \in 1 .. N, R(n - 1) PROVE R(n)
  <2> DEFINE i == List(n)
             p == e(n - 1)
  <2>1. n - 1 \in Nat /\ n - 1 < n /\ i \in Ids /\ i \in Elements(p.early)
      BY <1>0, <1>2, <1>4
  <2>2. e(n) = ReplayOne(p, i)
      BY <1>1
  <2>3. ConnInv(p) /\ Served(p)
      BY <1>4
  <2> HIDE DEF i, p
  <2>4. Lands(p, e(n), i)
      BY <2>1, <2>2, <2>3, LandsReplay
  <2>5. ConnInv(e(n)) /\ Served(e(n)) /\ Others(p, e(n), i)
      BY <2>1, <2>3, <2>4, LandsInv
  <2>6. ASSUME NEW m \in 1 .. N, n < m PROVE List(m) \in Elements(e(n).early)
    <3>1. List(m) # i
        BY <1>0, <2>6 DEF Distinct, List, i
    <3>2. List(m) \in Elements(p.early)
      <4>1. n - 1 < m
          BY <1>0, <2>6
      <4> QED BY <1>4, <4>1 DEF p
    <3> QED BY <1>2, <2>5, <3>1, <3>2 DEF Others
  <2> QED BY <2>5, <2>6
<1>5. R(N)
  <2> SUFFICES ASSUME Bad # {} PROVE FALSE
      BY <1>0
  <2> HIDE DEF R
  <2>1. PICK n \in Bad : \A m \in Bad : n <= m
      BY LeastNat
  <2>2. n # 0
      BY <1>3, <2>1
  <2>3. n \in 1 .. N /\ n - 1 \in Nat /\ n - 1 \notin Bad
      BY <1>0, <2>1, <2>2
  <2>4. R(n - 1)
      BY <1>0, <2>3
  <2> QED BY <1>4, <2>1, <2>3, <2>4
<1> QED BY <1>5 DEF e, N

(* So is that over all the streams of a connection that is closed. *)
CloseUpTo(d, n, f) ==
    f = [k \in 0 .. n |-> IF k = 0 THEN d ELSE IF d.s[k].st # ABSENT THEN stream_close(f[k - 1], k) ELSE f[k - 1]]

LEMMA CloseExists ==
  ASSUME NEW d, NEW N \in Nat
  PROVE  \E f : CloseUpTo(d, N, f)
<1> DEFINE Bad == {n \in Nat : ~ \E f : CloseUpTo(d, n, f)}
<1>1. SUFFICES ASSUME Bad # {} PROVE FALSE
    OBVIOUS
<1>2. PICK n \in Bad : \A m \in Bad : n <= m
    BY <1>1, LeastNat
<1>3. CASE n = 0
  <2> DEFINE f == [k \in 0 .. 0 |-> d]
  <2>1. f = [k \in 0 .. 0 |-> IF k = 0 THEN d ELSE IF d.s[k].st # ABSENT THEN stream_close(f[k - 1], k) ELSE f[k - 1]]
      OBVIOUS
  <2> HIDE DEF f
  <2>2. CloseUpTo(d, 0, f)
      BY <2>1 DEF CloseUpTo
  <2> QED BY <1>2, <1>3, <2>2
<1>4. CASE n # 0
  <2>1. n \in Nat /\ n - 1 \in Nat /\ n - 1 \notin Bad
      BY <1>2, <1>4
  <2>2. PICK f : CloseUpTo(d, n - 1, f)
      BY <2>1
  <2> DEFINE last == IF d.s[n].st # ABSENT THEN stream_close(f[n - 1], n) ELSE f[n - 1]
             g == [k \in 0 .. n |-> IF k = n THEN last ELSE f[k]]
             Body(k) == IF k = 0 THEN d ELSE IF d.s[k].st # ABSENT THEN stream_close(g[k - 1], k) ELSE g[k - 1]
  <2>3. ASSUME NEW k \in 0 .. n PROVE g[k] = Body(k)
    <3>1. CASE k = n
      <4>1. k # 0 /\ k - 1 = n - 1 /\ k - 1 \in 0 .. n /\ k - 1 # n
          BY <1>4, <2>1, <3>1
      <4>2. g[k - 1] = f[n - 1] /\ g[k] = last
          BY <3>1, <4>1
      <4> HIDE DEF g
      <4> QED BY <3>1, <4>1, <4>2
    <3>2. CASE k # n
      <4>1. k \in 0 .. n - 1 /\ (k # 0 => k - 1 \in 0 .. n /\ k - 1 # n)
          BY <2>1, <3>2
      <4>2. g[k] = f[k] /\ (k # 0 => g[k - 1] = f[k - 1])
          BY <3>2, <4>1
      <4>3. f[k] = IF k = 0 THEN d ELSE IF d.s[k].st # ABSENT THEN stream_close(f[k - 1], k) ELSE f[k - 1]
          BY <2>2, <4>1 DEF CloseUpTo
      <4> HIDE DEF g
      <4> QED BY <4>2, <4>3
    <3> QED BY <3>1, <3>2
  <2>4. g = [k \in 0 .. n |-> Body(k)]
    <3>1. g = [k \in 0 .. n |-> g[k]]
        OBVIOUS
    <3> HIDE DEF g, Body
    <3> QED BY <2>3, <3>1
  <2> HIDE DEF g
  <2>5. CloseUpTo(d, n, g)
      BY <2>4 DEF CloseUpTo
  <2> QED BY <1>2, <2>5
<1> QED BY <1>3, <1>4

LEMMA CloseRec ==
  ASSUME NEW d, MaxId \in Nat
  PROVE  /\ CloseEach(d)[0] = d
         /\ \A k \in 1 .. MaxId : CloseEach(d)[k] = IF d.s[k].st # ABSENT THEN stream_close(CloseEach(d)[k - 1], k) ELSE CloseEach(d)[k - 1]
<1> DEFINE N == MaxId
<1>1. CloseEach(d) = CHOOSE f : CloseUpTo(d, N, f)
    BY DEF CloseEach, CloseUpTo
<1>2. CloseUpTo(d, N, CloseEach(d))
    BY <1>1, CloseExists
<1>3. 0 \in 0 .. N /\ \A k \in 1 .. N : k \in 0 .. N /\ k # 0
    OBVIOUS
<1> QED BY <1>2, <1>3 DEF CloseUpTo

(* Nothing is run any more, and all the streams are freed. *)
LEMMA CloseAll ==
  ASSUME NEW d, ConnInv(d), d.state = IS_CLOSING
  PROVE  LET e == CloseEach(d)[MaxId] IN
         ConnInv(e) /\ e.state = IS_CLOSING /\ \A j \in Ids : e.s[j].st = ABSENT
<1> DEFINE N == MaxId
           e(n) == CloseEach(d)[n]
           R(n) == /\ ConnInv(e(n)) /\ e(n).state = IS_CLOSING
                   /\ \A j \in Ids : IF j <= n THEN e(n).s[j].st = ABSENT ELSE e(n).s[j] = d.s[j]
           Bad == {n \in Nat : n <= N /\ ~R(n)}
<1>0. N \in Nat /\ Ids = 1 .. N
    BY IdsFinite DEF Ids
<1>1. /\ e(0) = d
      /\ \A n \in 1 .. N : e(n) = IF d.s[n].st # ABSENT THEN stream_close(e(n - 1), n) ELSE e(n - 1)
    BY <1>0, CloseRec
<1> HIDE DEF e, N
<1>2. R(0)
    BY <1>0, <1>1
<1>3. ASSUME NEW n \in 1 .. N, R(n - 1) PROVE R(n)
  <2> DEFINE p == e(n - 1)
  <2>1. n - 1 \in Nat /\ n \in Ids /\ ~(n <= n - 1)
      BY <1>0
  <2>2. ConnInv(p) /\ p.state = IS_CLOSING /\ p.s[n] = d.s[n]
      BY <1>3, <2>1
  <2>3. e(n) = IF d.s[n].st # ABSENT THEN stream_close(p, n) ELSE p
      BY <1>1
  <2>4. \A j \in Ids \ {n} : j <= n <=> j <= n - 1
      BY <1>0
  <2>5. CASE d.s[n].st = ABSENT
    <3>1. e(n) = p
        BY <2>3, <2>5
    <3>2. ASSUME NEW j \in Ids PROVE IF j <= n THEN p.s[j].st = ABSENT ELSE p.s[j] = d.s[j]
      <4>1. CASE j = n
          BY <1>0, <2>2, <2>5, <4>1
      <4>2. CASE j # n
          BY <1>3, <2>4, <4>2
      <4> QED BY <4>1, <4>2
    <3> QED BY <2>2, <3>1, <3>2
  <2>6. CASE d.s[n].st # ABSENT
    <3>0. p \in Conn /\ ListsOK(p) /\ p.s[n] \in Stream
        BY <2>1, <2>2, StreamAt
    <3>1. PICK place \in Places : Place(p, n, place) /\ Good(p, n, p.s[n], place)
        BY <2>1, <2>2, StreamAt
    <3>2. Closable(p.s[n], place)
        BY <2>2, <2>6, <3>0, <3>1, GoodClosable
    <3>3. PICK l : Step(p, l, n, NoStream, "none") /\ stream_close(p, n) = RunUnlessClosing(l)
        BY <2>1, <3>0, <3>1, <3>2, CloseFacts
    <3> HIDE DEF p
    <3>4. l.state = IS_CLOSING /\ l.s[n] = NoStream
        BY <2>1, <2>2, <3>0, <3>3, StepAt
    <3>5. e(n) = l
        BY <2>3, <2>6, <3>3, <3>4 DEF RunUnlessClosing
    <3>6. ConnInv(l)
        BY <2>1, <2>2, <3>3, NoStreamGood, StepInv DEF Places
    <3>7. \A j \in Ids \ {n} : l.s[j] = p.s[j]
        BY <3>0, <3>3 DEF Step, Moved, Conn
    <3>8. ASSUME NEW j \in Ids PROVE IF j <= n THEN l.s[j].st = ABSENT ELSE l.s[j] = d.s[j]
      <4>1. CASE j = n
        <5>1. NoStream.st = ABSENT
            BY DEF NoStream
        <5> QED BY <1>0, <3>4, <4>1, <5>1
      <4>2. CASE j # n
          BY <1>3, <2>4, <3>7, <4>2 DEF p
      <4> QED BY <4>1, <4>2
    <3> QED BY <3>4, <3>5, <3>6, <3>8
  <2> QED BY <2>5, <2>6
<1>4. R(N)
  <2> SUFFICES ASSUME Bad # {} PROVE FALSE
      BY <1>0
  <2> HIDE DEF R
  <2>1. PICK n \in Bad : \A m \in Bad : n <= m
      BY LeastNat
  <2>2. n # 0
      BY <1>2, <2>1
  <2>3. n \in 1 .. N /\ n - 1 \in Nat /\ n - 1 \notin Bad
      BY <1>0, <2>1, <2>2
  <2>4. R(n - 1)
      BY <1>0, <2>3
  <2> QED BY <1>3, <2>1, <2>3, <2>4
<1>5. ConnInv(e(N)) /\ e(N).state = IS_CLOSING /\ \A j \in Ids : e(N).s[j].st = ABSENT
    BY <1>0, <1>4
<1> QED BY <1>5 DEF e, N

(* A connection without streams counts none and has none on its lists. *)
LEMMA NoneLeft ==
  ASSUME NEW d, ConnInv(d), \A j \in Ids : d.s[j].st = ABSENT
  PROVE  /\ d.open = 0 /\ d.half_closed = 0 /\ d.send_body = 0 /\ d.priority_open = 0
         /\ d.blocked = 0 /\ d.streaming = 0 /\ d.tunnel = 0
         /\ d.pending = <<>> /\ d.to_proceed = <<>> /\ d.early = <<>>
         /\ \A j \in Ids : Place(d, j, "none") /\ FreshOK(d.s[j], "none")
<1>1. ASSUME NEW j \in Ids PROVE Place(d, j, "none") /\ FreshOK(d.s[j], "none")
  <2>1. PICK place \in Places : Place(d, j, place) /\ Good(d, j, d.s[j], place)
      BY StreamAt
  <2>2. place = "none"
      BY <2>1 DEF Good, FreshOK
  <2> QED BY <2>1, <2>2 DEF Good
<1>2. /\ IdleSet(d) = {} /\ OpenSet(d) = {} /\ HalfClosedSet(d) = {} /\ SendBodySet(d) = {}
      /\ BlockedSet(d) = {} /\ StreamingSet(d) = {} /\ TunnelSet(d) = {}
    BY <1>1 DEF IdleSet, OpenSet, HalfClosedSet, SendBodySet, BlockedSet, StreamingSet, TunnelSet, FreshOK
<1>3. Cardinality({}) = 0
    BY FS_EmptySet
<1>4. d.pending \in Seq(Ids) /\ d.to_proceed \in Seq(Ids) /\ d.early \in Seq(Ids)
    BY DEF ConnInv, Conn
<1>5. ASSUME NEW s \in Seq(Ids), \A j \in Ids : j \notin Elements(s) PROVE s = <<>>
  <2>1. Len(s) = 0
    <3> SUFFICES ASSUME Len(s) # 0 PROVE FALSE
        OBVIOUS
    <3>1. 1 \in DOMAIN s /\ s[1] \in Ids
        OBVIOUS
    <3> QED BY <1>5, <3>1 DEF Elements
  <2> QED BY <2>1
<1>6. \A j \in Ids : j \notin Elements(d.pending) /\ j \notin Elements(d.to_proceed) /\ j \notin Elements(d.early)
    BY <1>1 DEF Place
<1>7. d.pending = <<>> /\ d.to_proceed = <<>> /\ d.early = <<>>
    BY <1>4, <1>5, <1>6
<1>8. /\ d.open = 0 /\ d.half_closed = 0 /\ d.send_body = 0 /\ d.priority_open = 0
      /\ d.blocked = 0 /\ d.streaming = 0 /\ d.tunnel = 0
    BY <1>2, <1>3 DEF ConnInv, Exact
<1> QED BY <1>1, <1>7, <1>8

LEMMA ContextPut ==
  ASSUME NEW d \in Conn, NEW state \in CONN_OPEN .. FREED, NEW delay \in BOOLEAN, NEW max_open \in 0 .. MaxId,
         NEW continuation \in [id : 0 .. MaxId, end : BOOLEAN]
  PROVE  [d EXCEPT !.state = state, !.delay = delay, !.max_open = max_open, !.continuation = continuation] \in Conn
<1> DEFINE f == [d EXCEPT !.state = state, !.delay = delay]
           g == [f EXCEPT !.max_open = max_open, !.continuation = continuation]
<1>1. f \in Conn
    BY DEF Conn
<1> HIDE DEF f
<1>2. g \in Conn
    BY <1>1 DEF Conn
<1> QED BY <1>2, Zenon DEF f

LEMMA FreedInv ==
  ASSUME NEW d, ConnInv(d), \A j \in Ids : d.s[j].st = ABSENT,
         NEW e, e = [d EXCEPT !.state = FREED, !.delay = FALSE, !.max_open = 0, !.continuation = NoContinuation]
  PROVE  ConnInv(e) /\ Served(e)
<1>0. d \in Conn
    BY DEF ConnInv
<1>1. \A j \in Ids : Place(d, j, "none") /\ FreshOK(d.s[j], "none")
    BY NoneLeft
<1>2. NoContinuation \in [id : 0 .. MaxId, end : BOOLEAN] /\ 0 \in 0 .. MaxId
    BY IdsFinite DEF NoContinuation
<1>3. e \in Conn
  <2>1. FREED \in CONN_OPEN .. FREED
      OBVIOUS
  <2> QED BY <1>0, <1>2, <2>1, ContextPut
<1>4. /\ e.s = d.s /\ e.features = d.features /\ e.fail = d.fail /\ SameLists(d, e) /\ e.state = FREED
      /\ e.priority_open = d.priority_open /\ e.open = d.open /\ e.half_closed = d.half_closed
      /\ e.send_body = d.send_body /\ e.blocked = d.blocked /\ e.streaming = d.streaming
      /\ e.tunnel = d.tunnel
    BY <1>0 DEF Conn, SameLists
<1>5. ListsOK(e) /\ FailOK(e)
    BY <1>4 DEF ConnInv, ListsOK, SameLists, FailOK, Allowed
<1>6. Exact(e)
  <2>1. /\ IdleSet(e) = IdleSet(d) /\ OpenSet(e) = OpenSet(d) /\ HalfClosedSet(e) = HalfClosedSet(d)
        /\ SendBodySet(e) = SendBodySet(d) /\ BlockedSet(e) = BlockedSet(d)
        /\ StreamingSet(e) = StreamingSet(d) /\ TunnelSet(e) = TunnelSet(d)
      BY <1>4 DEF IdleSet, OpenSet, HalfClosedSet, SendBodySet, BlockedSet, StreamingSet, TunnelSet
  <2> QED BY <1>4, <2>1 DEF ConnInv, Exact
<1>7. ASSUME NEW j \in Ids PROVE Place(e, j, "none") /\ Good(e, j, e.s[j], "none")
  <2>1. Place(e, j, "none")
      BY <1>1, <1>4 DEF Place, SameLists
  <2>2. e.s[j].st = ABSENT /\ FreshOK(e.s[j], "none")
      BY <1>1, <1>4
  <2>3. Good(e, j, e.s[j], "none")
      BY <2>2 DEF Good, FreshOK, BodyOK, QueueOK, SendOK, WriteOK, BlockedOK, EndOK, RunOK
  <2> QED BY <2>1, <2>3
<1>8. StreamsGood(e)
    BY <1>7 DEF StreamsGood, Places
<1> QED BY <1>3, <1>4, <1>5, <1>6, <1>8 DEF ConnInv, Served

-----------------------------------------------------------------------------
(* The windows of several streams move at once. *)
Shifted(d, i, q) ==
    /\ q \in Stream /\ \E place \in Places : Place(d, i, place) /\ Good(d, i, q, place)
    /\ q.st = d.s[i].st /\ q.streamed = d.s[i].streamed
    /\ q.body = d.s[i].body /\ q.tunnel = d.s[i].tunnel /\ q.blocked = d.s[i].blocked

LEMMA ShiftedOne ==
  ASSUME NEW d, NEW i \in Ids, ConnInv(d), NEW window \in BOOLEAN, NEW e,
         e = update_stream_output_window(d, i, window)
  PROVE  Shifted(d, i, e.s[i]) /\ e.fail = d.fail
<1>0. d \in Conn
    BY StreamAt
<1>1. PICK q : \E place \in Places :
            /\ Place(d, i, place) /\ Only(d, e, i, q)
            /\ Good(d, i, q, place) /\ q.st = d.s[i].st /\ q.streamed = d.s[i].streamed
            /\ q.body = d.s[i].body /\ q.tunnel = d.s[i].tunnel /\ q.blocked = d.s[i].blocked
    BY LandsWindow
<1>2. e.s[i] = q /\ q \in Stream
    BY <1>0, <1>1, OnlyAt
<1>3. Shifted(d, i, q)
    BY <1>1, <1>2 DEF Shifted
<1> QED BY <1>1, <1>2, <1>3 DEF Only

LEMMA ShiftedInv ==
  ASSUME NEW d, ConnInv(d), Served(d), NEW s, s \in [Ids -> Stream], \A j \in Ids : Shifted(d, j, s[j]),
         NEW e, e = [d EXCEPT !.s = s, !.fail = d.fail]
  PROVE  ConnInv(e) /\ Served(e)
<1>0. d \in Conn
    BY DEF ConnInv
<1>1. /\ e \in Conn /\ e.s = s /\ e.features = d.features /\ e.fail = d.fail /\ SameLists(d, e)
      /\ e.state = d.state /\ e.max_open = d.max_open
      /\ e.priority_open = d.priority_open /\ e.open = d.open /\ e.half_closed = d.half_closed
      /\ e.send_body = d.send_body /\ e.blocked = d.blocked /\ e.streaming = d.streaming
      /\ e.tunnel = d.tunnel
    BY <1>0 DEF Conn, SameLists
<1>2. e.delay = d.delay
    BY <1>0 DEF Conn
<1>3. ASSUME NEW j \in Ids
      PROVE  /\ e.s[j].st = d.s[j].st /\ e.s[j].streamed = d.s[j].streamed
             /\ e.s[j].body = d.s[j].body /\ e.s[j].tunnel = d.s[j].tunnel /\ e.s[j].blocked = d.s[j].blocked
    BY <1>1 DEF Shifted
<1>4. Exact(e)
  <2>1. IdleSet(e) = IdleSet(d) /\ OpenSet(e) = OpenSet(d) /\ HalfClosedSet(e) = HalfClosedSet(d)
      BY <1>3 DEF IdleSet, OpenSet, HalfClosedSet
  <2>2. SendBodySet(e) = SendBodySet(d) /\ BlockedSet(e) = BlockedSet(d)
      BY <1>3 DEF SendBodySet, BlockedSet
  <2>3. StreamingSet(e) = StreamingSet(d) /\ TunnelSet(e) = TunnelSet(d)
      BY <1>3 DEF StreamingSet, TunnelSet
  <2> QED BY <1>1, <2>1, <2>2, <2>3 DEF ConnInv, Exact
<1>5. ASSUME NEW j \in Ids PROVE \E place \in Places : Place(e, j, place) /\ Good(e, j, e.s[j], place)
  <2>1. PICK place \in Places : Place(d, j, place) /\ Good(d, j, s[j], place)
      BY DEF Shifted
  <2>2. Place(e, j, place)
      BY <1>1, <2>1 DEF Place, SameLists
  <2>3. Good(e, j, e.s[j], place)
      BY <1>1, <2>1, GoodRest
  <2> QED BY <2>2, <2>3
<1>6. ListsOK(e) /\ FailOK(e)
    BY <1>1 DEF ConnInv, ListsOK, SameLists, FailOK, Allowed
<1>7. Served(e)
    BY <1>1, <1>2, <1>3 DEF Served, Serves, SameLists
<1> QED BY <1>1, <1>4, <1>5, <1>6, <1>7 DEF ConnInv, StreamsGood

LEMMA WindowsInv ==
  ASSUME ConnInv(c), Served(c), NEW up \in BOOLEAN, NEW changed \in SUBSET Ids
  PROVE  ConnInv(UpdateWindows(up, changed)) /\ Served(UpdateWindows(up, changed))
<1> DEFINE after(i) == update_stream_output_window(c, i, up)
           s == [i \in Ids |-> IF i \in changed THEN after(i).s[i] ELSE c.s[i]]
           fail == UNION ({c.fail} \cup {after(i).fail : i \in changed})
<1>0. c \in Conn
    BY DEF ConnInv
<1>1. ASSUME NEW i \in changed PROVE Shifted(c, i, after(i).s[i]) /\ after(i).fail = c.fail
    BY ShiftedOne
<1>2. ASSUME NEW i \in Ids PROVE Shifted(c, i, c.s[i])
    BY StreamAt DEF Shifted
<1>3. UpdateWindows(up, changed) = [c EXCEPT !.s = s, !.fail = fail]
  <2>1. [i \in Ids |-> IF i \in changed THEN after(i).s[i] ELSE c.s[i]] = s
      OBVIOUS
  <2> QED BY Zenon DEF UpdateWindows
<1> HIDE DEF after
<1>4. fail = c.fail
    BY <1>1
<1>5. \A j \in Ids : Shifted(c, j, s[j])
    BY <1>1, <1>2
<1>6. s \in [Ids -> Stream]
    BY <1>5 DEF Shifted
<1> HIDE DEF s, fail
<1> QED BY <1>3, <1>4, <1>5, <1>6, ShiftedInv

-----------------------------------------------------------------------------
(* The steps of the connection *)

(* Only what is not about streams changes. *)
LEMMA ContextInv ==
  ASSUME NEW d, ConnInv(d), Served(d), d.state # FREED, NEW e,
         \/ \E x \in [id : 0 .. MaxId, end : BOOLEAN] : e = [d EXCEPT !.continuation = x]
         \/ e = [d EXCEPT !.early_data = FALSE]
         \/ e = [d EXCEPT !.delay = TRUE]
         \/ \E x \in CONN_OPEN .. IS_CLOSING : d.state <= x /\ e = [d EXCEPT !.state = x]
         \/ \E x \in Allowed(d) : e = [d EXCEPT !.fail = d.fail \cup {x}]
  PROVE  ConnInv(e) /\ Served(e) /\ e.s = d.s
<1>0. d \in Conn /\ d.state \in 0 .. 3 /\ d.max_open \in 0 .. MaxId /\ d.fail \subseteq Label /\ MaxId \in Nat
  <2>1. d \in Conn
      BY DEF ConnInv
  <2> QED BY <2>1, IdsFinite DEF Conn
<1> DEFINE Same == /\ e \in Conn /\ Onward(d, e) /\ FailOK(e) /\ (d.delay => e.delay)
<1> SUFFICES Same
    BY OnwardInv DEF Onward
<1>1. d.state <= d.state /\ d.max_open <= d.max_open /\ FailOK(d)
    BY <1>0 DEF ConnInv
<1>2. CASE \E x \in [id : 0 .. MaxId, end : BOOLEAN] : e = [d EXCEPT !.continuation = x]
  <2>1. PICK x \in [id : 0 .. MaxId, end : BOOLEAN] : e = [d EXCEPT !.continuation = x]
      BY <1>2
  <2>2. e \in Conn
      BY <1>0, <2>1 DEF Conn
  <2> QED BY <1>0, <1>1, <2>1, <2>2 DEF Conn, Onward, SameLists, FailOK, Allowed
<1>3. CASE e = [d EXCEPT !.early_data = FALSE]
    BY <1>0, <1>1, <1>3 DEF Conn, Onward, SameLists, FailOK, Allowed
<1>4. CASE e = [d EXCEPT !.delay = TRUE]
    BY <1>0, <1>1, <1>4 DEF Conn, Onward, SameLists, FailOK, Allowed
<1>5. CASE \E x \in CONN_OPEN .. IS_CLOSING : d.state <= x /\ e = [d EXCEPT !.state = x]
  <2>1. PICK x \in CONN_OPEN .. IS_CLOSING : d.state <= x /\ e = [d EXCEPT !.state = x]
      BY <1>5
  <2>2. x \in CONN_OPEN .. FREED /\ x # FREED
      OBVIOUS
  <2>3. e \in Conn
      BY <1>0, <2>1, <2>2 DEF Conn
  <2> QED BY <1>0, <1>1, <2>1, <2>2, <2>3 DEF Conn, Onward, SameLists, FailOK, Allowed
<1>6. CASE \E x \in Allowed(d) : e = [d EXCEPT !.fail = d.fail \cup {x}]
  <2>0. PICK x \in Allowed(d) : e = [d EXCEPT !.fail = d.fail \cup {x}]
      BY <1>6
  <2> DEFINE fail == d.fail \cup {x}
  <2>1. fail \in SUBSET Label /\ fail \subseteq Allowed(d)
    <3>1. x \in Label
        BY DEF Label, Allowed
    <3> QED BY <1>0, <1>1, <3>1 DEF FailOK
  <2> HIDE DEF fail
  <2>2. e = [d EXCEPT !.fail = fail]
      BY <2>0 DEF fail
  <2>3. e \in Conn
      BY <1>0, <2>1, <2>2 DEF Conn
  <2>4. e.features = d.features /\ e.fail = fail
      BY <1>0, <2>2 DEF Conn
  <2>5. FailOK(e)
      BY <2>1, <2>4 DEF FailOK, Allowed
  <2> QED BY <1>0, <1>1, <2>2, <2>3, <2>5 DEF Conn, Onward, SameLists
<1> QED BY <1>2, <1>3, <1>4, <1>5, <1>6

(* A stream is reset as it is. *)
LEMMA LandsResetNow ==
  ASSUME NEW d, NEW i \in Ids, ConnInv(d), d.s[i].st # ABSENT, NEW q, q = d.s[i]
  PROVE  Lands(d, stream_reset(d, i), i)
<1>0. d \in Conn /\ ListsOK(d)
    BY StreamAt
<1>1. PICK place \in Places : Place(d, i, place) /\ Good(d, i, q, place)
    BY StreamAt
<1>2. Step(d, d, i, q, place)
    BY <1>0, <1>1, OnlySame, OnlyStep
<1> QED BY <1>0, <1>1, <1>2, LandsResetGood DEF Place

LEMMA LandsPeerReset ==
  ASSUME NEW d, NEW i \in Ids, ConnInv(d), d.s[i].st # ABSENT
  PROVE  Lands(d, stream_reset([d EXCEPT !.s[i].reset_by_peer = TRUE], i), i)
<1> DEFINE r == d.s[i]
           q == [r EXCEPT !.reset_by_peer = TRUE]
           e == [d EXCEPT !.s[i] = q]
<1>0. d \in Conn /\ ListsOK(d) /\ r \in Stream
    BY StreamAt
<1>1. PICK place \in Places : Place(d, i, place) /\ Good(d, i, r, place)
    BY StreamAt
<1>2. [d EXCEPT !.s[i].reset_by_peer = TRUE] = e
    OBVIOUS
<1>3. /\ q \in Stream /\ SameFrame(r, q) /\ q.st = r.st /\ q.proceed = r.proceed /\ q.entity = r.entity
      /\ q.more = r.more /\ q.blocked = r.blocked /\ q.body = r.body
    BY <1>0 DEF Stream, SameFrame
<1> HIDE DEF q
<1>4. Only(d, e, i, q)
    BY <1>0, <1>3, PutOnly DEF SameFrame
<1>5. Step(d, e, i, q, place)
    BY <1>0, <1>1, <1>4, OnlyStep
<1>6. Good(d, i, q, place)
    BY <1>1, <1>3
    DEF SameFrame, Good, FreshOK, BodyOK, QueueOK, SendOK, WriteOK, BlockedOK, EndOK, RunOK
<1>7. q.st # ABSENT
    BY <1>3
<1> HIDE DEF e
<1>8. Lands(d, stream_reset(e, i), i)
    BY <1>0, <1>1, <1>5, <1>6, <1>7, LandsResetGood DEF Place
<1> QED BY <1>2, <1>8

LEMMA LandsWindowUpdate ==
  ASSUME NEW d, NEW i \in Ids, ConnInv(d)
  PROVE  Lands(d, update_stream_output_window(d, i, TRUE), i)
<1>0. d \in Conn /\ ListsOK(d)
    BY StreamAt
<1>1. PICK q : \E place \in Places :
            /\ Place(d, i, place) /\ Only(d, update_stream_output_window(d, i, TRUE), i, q)
            /\ Good(d, i, q, place) /\ q.st = d.s[i].st /\ q.streamed = d.s[i].streamed
    BY LandsWindow
<1>2. PICK place \in Places :
            /\ Place(d, i, place) /\ Only(d, update_stream_output_window(d, i, TRUE), i, q)
            /\ Good(d, i, q, place) /\ q.st = d.s[i].st /\ q.streamed = d.s[i].streamed
    BY <1>1
<1>3. Step(d, update_stream_output_window(d, i, TRUE), i, q, place)
    BY <1>0, <1>2, OnlyStep
<1>4. Keeps(d, i, q, place)
    BY <1>2 DEF Keeps, Serves, Place
<1> QED BY <1>2, <1>3, <1>4, LandsStep

LEMMA StopSendingInv ==
  ASSUME NEW d, NEW i \in Ids, ConnInv(d), Served(d), d.s[i].proceed, d.s[i].write = "open",
         "stop_sending" \in d.features
  PROVE  LET e == ProceedError(Gone(d, i), i) IN ConnInv(e) /\ Served(e)
<1> DEFINE r == d.s[i]
           f == Gone(d, i)
           e == ProceedError(f, i)
<1>0. d \in Conn /\ ListsOK(d) /\ r \in Stream /\ r.st \in 0 .. 8 /\ d.state \in 0 .. 3
    BY StreamAt
<1>1. PICK place \in Places : Place(d, i, place) /\ Good(d, i, r, place)
    BY StreamAt
<1>2. r.st # ABSENT /\ d.state # FREED /\ r.streamed /\ r.body \in {OPEN, CLOSE_QUEUED}
      /\ (r.st >= SEND_HEADERS \/ r.st = RECV_BODY)
    BY <1>0, <1>1 DEF Good, FreshOK, BodyOK, WriteOK, QueueOK
<1>3. CASE r.st >= SEND_HEADERS \/ d.state >= IS_CLOSING
  <2>1. Lands(d, e, i)
      BY <1>3, LandsWriteError
  <2> QED BY <2>1, LandsInv
<1>4. CASE ~(r.st >= SEND_HEADERS \/ d.state >= IS_CLOSING)
  <2>1. r.st = RECV_BODY /\ d.state < IS_CLOSING
      BY <1>0, <1>2, <1>4
  <2>2. PICK p : \E place2 \in Places :
            /\ Step(d, f, i, p, place2) /\ Well(d, i, p, place2)
            /\ place2 = "pending" => i \in Elements(d.pending)
            /\ p.write = (IF d.s[i].write = "open" THEN "dead" ELSE d.s[i].write) /\ p.busy = FALSE
            /\ p.st = d.s[i].st /\ p.body = d.s[i].body /\ p.proceed = d.s[i].proceed
            /\ p.streamed = d.s[i].streamed /\ p.turn = d.s[i].turn /\ p.done = d.s[i].done
      BY <1>2, GoneWell
  <2>3. PICK place2 \in Places :
            /\ Step(d, f, i, p, place2) /\ p.st = r.st /\ p.body = r.body /\ p.streamed = r.streamed
      BY <2>2
  <2> HIDE DEF f
  <2>4. f \in Conn /\ f.s[i] = p /\ ListsOK(f) /\ Place(f, i, place2) /\ f.state = d.state
      BY <1>0, <2>3, StepAt
  <2>5. f.s[i].streamed /\ f.s[i].body < CLOSE_DELIVERED /\ f.s[i].st = RECV_BODY /\ f.state < IS_CLOSING
    <3>1. p.body < CLOSE_DELIVERED /\ p.st = RECV_BODY /\ f.state < IS_CLOSING
        BY <1>2, <2>1, <2>3, <2>4
    <3>2. p.streamed
        BY <1>2, <2>3, Zenon
    <3> QED BY <2>4, <3>1, <3>2
  <2>6. PICK l : LET h == RunUnlessClosing(l) IN
            /\ Step(f, l, i, NoStream, "none")
            /\ ProceedError(f, i) = Check(h, h.s[i].st # ABSENT, "request_freed")
      BY <2>4, <2>5, FreedFacts
  <2> DEFINE h == RunUnlessClosing(l)
  <2>7. Step(d, l, i, NoStream, "none")
      BY <1>0, <2>3, <2>6, StepAgain
  <2>8. Lands(d, h, i)
      BY <2>7, LandsFreed
  <2>9. e = Check(h, h.s[i].st # ABSENT, "request_freed")
      BY <2>6
  <2> HIDE DEF h, e
  <2>10. ConnInv(h) /\ Served(h) /\ Rest(d, h)
      BY <2>8, LandsInv
  <2>11. "request_freed" \in Allowed(h) /\ h.state # FREED
    <3>1. "stop_sending" \in h.features /\ h.state # FREED
        BY <1>2, <2>10 DEF Rest
    <3> QED BY <3>1 DEF Allowed
  <2>12. e = h \/ e = [h EXCEPT !.fail = h.fail \cup {"request_freed"}]
      BY <2>9 DEF Check
  <2>13. ConnInv(e) /\ Served(e)
      BY <2>10, <2>11, <2>12, ContextInv
  <2> QED BY <2>13 DEF e, f
<1> QED BY <1>3, <1>4

-----------------------------------------------------------------------------
(* The inductive invariant *)
StreamsIndInv == ConnInv(c) /\ Served(c)

(* The frames of the client *)

LEMMA SendErrorSame ==
  ASSUME NEW d, d.state < IS_CLOSING
  PROVE  stream_send_error(d) = d
BY CheckTrue DEF stream_send_error

LEMMA ErrorResetInv ==
  ASSUME NEW i \in Ids, StreamsIndInv, c.s[i].st # ABSENT, c.state < IS_CLOSING, c' = SendErrorAndReset(c, i)
  PROVE  StreamsIndInv'
<1>1. c' = stream_reset(c, i)
    BY SendErrorSame DEF SendErrorAndReset
<1>2. Lands(c, c', i)
    BY <1>1, LandsResetNow DEF StreamsIndInv
<1> QED BY <1>2, LandsInv DEF StreamsIndInv

(* What the place of a stream says of the frames that may come. *)
LEMMA ReadAt ==
  ASSUME NEW i \in Ids, StreamsIndInv
  PROVE  /\ c \in Conn /\ c.s[i].st \in 0 .. 8 /\ c.state \in 0 .. 3
         /\ c.s[i].body # NONE => c.s[i].st # ABSENT
         /\ c.s[i].st = RECV_BODY /\ c.state < IS_CLOSING => c.s[i].body \in {BEFORE_FIRST_FRAME, OPEN}
         /\ c.s[i].body \in {BEFORE_FIRST_FRAME, OPEN} /\ c.s[i].streamed /\ ~c.s[i].tunnel => c.s[i].entity # "empty"
         /\ c.s[i].turn => ~c.s[i].done
         /\ c.s[i].done => c.s[i].st >= SEND_HEADERS
<1>1. c \in Conn /\ c.s[i].st \in 0 .. 8 /\ c.state \in 0 .. 3 /\ c.s[i].body \in 0 .. 4
    BY StreamAt DEF StreamsIndInv
<1>2. PICK place \in Places : Good(c, i, c.s[i], place)
    BY StreamAt DEF StreamsIndInv
<1> QED BY <1>1, <1>2 DEF Good, FreshOK, BodyOK, SendOK, WriteOK

LEMMA DataInv ==
  ASSUME NEW i \in Ids, StreamsIndInv, NEW len \in BOOLEAN, NEW end \in BOOLEAN, NEW streamable \in BOOLEAN,
         NEW valid \in BOOLEAN, len \/ end, MayEnd(i, end),
         handle_data_frame(i, len, end, streamable, valid)
  PROVE  StreamsIndInv'
<1>0. c.state < IS_CLOSING
    BY DEF handle_data_frame, Reading
<1>1. c' = IF ~Present(i) THEN stream_send_error(c)
           ELSE IF c.s[i].body \notin {BEFORE_FIRST_FRAME, OPEN} THEN SendErrorAndReset(c, i)
           ELSE handle_request_body_chunk(c, i, len, end, streamable, valid)
    BY Zenon DEF handle_data_frame
<1>2. CASE ~Present(i)
  <2>1. c' = c
      BY <1>0, <1>1, <1>2, SendErrorSame
  <2> QED BY <2>1 DEF StreamsIndInv
<1>3. CASE Present(i) /\ c.s[i].body \notin {BEFORE_FIRST_FRAME, OPEN}
  <2>1. c' = SendErrorAndReset(c, i) /\ c.s[i].st # ABSENT
      BY <1>1, <1>3, Zenon DEF Present
  <2> QED BY <1>0, <2>1, ErrorResetInv
<1>4. CASE Present(i) /\ c.s[i].body \in {BEFORE_FIRST_FRAME, OPEN}
  <2>1. c' = handle_request_body_chunk(c, i, len, end, streamable, valid)
      BY <1>1, <1>4, Zenon
  <2>2. end => Endable(c, i)
      BY DEF MayEnd, On, Endable
  <2>3. Lands(c, c', i)
      BY <1>0, <1>4, <2>1, <2>2, LandsChunk DEF StreamsIndInv
  <2> QED BY <2>3, LandsInv DEF StreamsIndInv
<1> QED BY <1>2, <1>3, <1>4

LEMMA HeadersInv ==
  ASSUME NEW i \in Ids, StreamsIndInv, NEW end \in BOOLEAN, NEW end_headers \in BOOLEAN, NEW kind \in Kinds,
         NEW window \in BOOLEAN, MaySendHeaders(i), handle_headers_frame(i, end, end_headers, kind, window)
  PROVE  StreamsIndInv'
<1> DEFINE d == IF Present(i) THEN c ELSE vhttp_http2_stream_open(c, i, window)
           e == prepare_for_request(d, i, window)
<1>0. c.state < IS_CLOSING /\ c.s[i].st \in 0 .. 8 /\ kind \in {"normal", "malformed", "invalid", "connect"}
    BY ReadAt DEF handle_headers_frame, Reading, Kinds
<1>1. c' = IF d.s[i].st # IDLE THEN Check(c, FALSE, "headers twice")
           ELSE IF end_headers THEN handle_incoming_request(e, i, end, kind)
           ELSE [e EXCEPT !.continuation = [id |-> i, end |-> end]]
    BY Zenon DEF handle_headers_frame
<1>2. ConnInv(d) /\ Served(d) /\ d.state = c.state /\ (d.s[i].st # IDLE => c.s[i].st > IDLE)
  <2>1. CASE Present(i)
    <3>1. d = c /\ c.s[i].st >= IDLE
        BY <1>0, <2>1 DEF Present
    <3> QED BY <1>0, <3>1 DEF StreamsIndInv
  <2>2. CASE ~Present(i)
    <3>1. d = vhttp_http2_stream_open(c, i, window) /\ c.s[i].st = ABSENT
        BY <2>2 DEF Present
    <3> HIDE DEF d
    <3> QED BY <1>0, <3>1, OpenedInv DEF StreamsIndInv
  <2> QED BY <2>1, <2>2
<1> HIDE DEF d
<1>6. CASE d.s[i].st # IDLE
  <2>1. "headers twice" \in Allowed(c)
    <3>1. "late_trailers" \in c.features
        BY <1>0, <1>2, <1>6 DEF MaySendHeaders, On
    <3> QED BY <3>1 DEF Allowed
  <2>2. c' = [c EXCEPT !.fail = c.fail \cup {"headers twice"}]
      BY <1>1, <1>6, Zenon DEF Check
  <2>3. c.state # FREED
      BY <1>0
  <2>4. ConnInv(c') /\ Served(c')
      BY <2>1, <2>2, <2>3, ContextInv DEF StreamsIndInv
  <2> QED BY <2>4 DEF StreamsIndInv
<1> SUFFICES ASSUME d.s[i].st = IDLE PROVE StreamsIndInv'
    BY <1>6
<1>3. ConnInv(e) /\ Served(e) /\ e.s[i].st = RECV_HEADERS /\ e.state = c.state
    BY <1>0, <1>2, PreparedInv
<1> HIDE DEF e
<1>4. CASE end_headers
  <2>1. c' = handle_incoming_request(e, i, end, kind)
      BY <1>1, <1>4, Zenon
  <2>2. Lands(e, c', i)
      BY <1>0, <1>3, <2>1, LandsIncoming
  <2> QED BY <1>3, <2>2, LandsInv DEF StreamsIndInv
<1>5. CASE ~end_headers
  <2> DEFINE x == [id |-> i, end |-> end]
  <2>1. x \in [id : 0 .. MaxId, end : BOOLEAN]
      BY IdsFinite DEF Ids
  <2>2. c' = [e EXCEPT !.continuation = x]
      BY <1>1, <1>5, Zenon
  <2>3. e.state # FREED
      BY <1>0, <1>3
  <2> HIDE DEF x
  <2>4. ConnInv(c') /\ Served(c')
      BY <1>3, <2>1, <2>2, <2>3, ContextInv
  <2> QED BY <2>4 DEF StreamsIndInv
<1> QED BY <1>4, <1>5

(* Trailers end a body. *)
LEMMA TrailersInv ==
  ASSUME NEW d, NEW i \in Ids, ConnInv(d), Served(d), d.state < IS_CLOSING,
         d.s[i].body \in {BEFORE_FIRST_FRAME, OPEN}, Endable(d, i)
  PROVE  ConnInv(handle_trailing_headers(d, i)) /\ Served(handle_trailing_headers(d, i))
<1>1. TRUE \in BOOLEAN /\ FALSE \in BOOLEAN
    OBVIOUS
<1>2. TRUE => Endable(d, i)
    OBVIOUS
<1>3. Lands(d, handle_request_body_chunk(d, i, FALSE, TRUE, FALSE, TRUE), i)
    BY <1>1, <1>2, LandsChunk
<1>4. Lands(d, handle_trailing_headers(d, i), i)
    BY <1>3 DEF handle_trailing_headers
<1> QED BY <1>4, LandsInv

LEMMA HandleTrailersInv ==
  ASSUME NEW i \in Ids, StreamsIndInv, NEW end_headers \in BOOLEAN, HandleTrailers(i, end_headers)
  PROVE  StreamsIndInv'
<1>0. /\ c.state < IS_CLOSING /\ c.s[i].body \in {BEFORE_FIRST_FRAME, OPEN} /\ ~c.s[i].tunnel
      /\ c' = IF end_headers THEN handle_trailing_headers(c, i)
              ELSE [c EXCEPT !.continuation = [id |-> i, end |-> TRUE]]
    BY Zenon DEF HandleTrailers, Reading
<1>1. CASE end_headers
  <2>1. c' = handle_trailing_headers(c, i)
      BY <1>0, <1>1, Zenon
  <2>2. Endable(c, i)
      BY <1>0, ReadAt DEF Endable
  <2>3. ConnInv(c) /\ Served(c) /\ c.state < IS_CLOSING /\ c.s[i].body \in {BEFORE_FIRST_FRAME, OPEN}
      BY <1>0 DEF StreamsIndInv
  <2>4. ConnInv(c') /\ Served(c')
      BY <2>1, <2>2, <2>3, TrailersInv
  <2> QED BY <2>4 DEF StreamsIndInv
<1>2. CASE ~end_headers
  <2> DEFINE x == [id |-> i, end |-> TRUE]
  <2>1. x \in [id : 0 .. MaxId, end : BOOLEAN]
      BY IdsFinite DEF Ids
  <2>2. c' = [c EXCEPT !.continuation = x]
      BY <1>0, <1>2, Zenon
  <2>3. c.state # FREED
      BY <1>0
  <2> HIDE DEF x
  <2>4. ConnInv(c') /\ Served(c')
      BY <2>1, <2>2, <2>3, ContextInv DEF StreamsIndInv
  <2> QED BY <2>4 DEF StreamsIndInv
<1> QED BY <1>1, <1>2

LEMMA ContinuationInv ==
  ASSUME NEW i \in Ids, StreamsIndInv, NEW kind \in Kinds, NEW too_large \in BOOLEAN, MayEnd(i, TRUE),
         expect_continuation_of_headers(i, kind, too_large)
  PROVE  StreamsIndInv'
<1> DEFINE d == [c EXCEPT !.continuation = NoContinuation]
<1>0. /\ c.state < IS_CLOSING /\ c.s[i].st \in {RECV_HEADERS, RECV_BODY}
      /\ c' = IF too_large THEN SendErrorAndReset(c, i)
              ELSE IF c.s[i].st = RECV_HEADERS
              THEN handle_incoming_request(d, i, c.continuation.end, kind)
              ELSE handle_trailing_headers(d, i)
    BY Zenon DEF expect_continuation_of_headers
<1>1. c \in Conn /\ c.continuation.end \in BOOLEAN /\ d.state = c.state /\ d.features = c.features
  <2>1. c \in Conn
      BY DEF StreamsIndInv, ConnInv
  <2> QED BY <2>1 DEF Conn
<1>2. NoContinuation \in [id : 0 .. MaxId, end : BOOLEAN]
    BY IdsFinite DEF NoContinuation
<1>3. ConnInv(d) /\ Served(d) /\ d.s = c.s
  <2>1. c.state # FREED
      BY <1>0
  <2> QED BY <1>2, <2>1, ContextInv DEF StreamsIndInv
<1> HIDE DEF d
<1>4. CASE too_large
  <2>1. c' = SendErrorAndReset(c, i)
      BY <1>0, <1>4, Zenon
  <2> QED BY <1>0, <2>1, ErrorResetInv
<1>5. CASE ~too_large /\ c.s[i].st = RECV_HEADERS
  <2>1. c' = handle_incoming_request(d, i, c.continuation.end, kind)
      BY <1>0, <1>5, Zenon
  <2>2. kind \in {"normal", "malformed", "invalid", "connect"}
      BY DEF Kinds
  <2>3. Lands(d, c', i)
      BY <1>0, <1>1, <1>3, <1>5, <2>1, <2>2, LandsIncoming
  <2> QED BY <1>3, <2>3, LandsInv DEF StreamsIndInv
<1>6. CASE ~too_large /\ c.s[i].st = RECV_BODY
  <2>1. c' = handle_trailing_headers(d, i)
      BY <1>0, <1>6
  <2>2. Endable(d, i) /\ c.s[i].body \in {BEFORE_FIRST_FRAME, OPEN}
      BY <1>0, <1>1, <1>3, <1>6, ReadAt DEF MayEnd, On, Endable
  <2>3. ConnInv(c') /\ Served(c')
      BY <1>0, <1>1, <1>3, <2>1, <2>2, TrailersInv
  <2> QED BY <2>3 DEF StreamsIndInv
<1> QED BY <1>0, <1>4, <1>5, <1>6

LEMMA PriorityInv ==
  ASSUME NEW i \in Ids, StreamsIndInv, handle_priority_frame(i)
  PROVE  StreamsIndInv'
<1>1. c.s[i].st = ABSENT /\ c.state < IS_CLOSING /\ c' = vhttp_http2_stream_open(c, i, TRUE)
    BY DEF handle_priority_frame, Reading, Present
<1>2. TRUE \in BOOLEAN
    OBVIOUS
<1>3. ConnInv(c') /\ Served(c')
    BY <1>1, <1>2, OpenedInv DEF StreamsIndInv
<1> QED BY <1>3 DEF StreamsIndInv

LEMMA RstInv ==
  ASSUME NEW i \in Ids, StreamsIndInv, handle_rst_stream_frame(i)
  PROVE  StreamsIndInv'
<1> DEFINE d == stream_reset([c EXCEPT !.s[i].reset_by_peer = TRUE], i)
<1>1. /\ c.state < IS_CLOSING /\ c.s[i].st # ABSENT
      /\ c' = IF d.budget = 0 /\ "dos" \in c.features THEN [d EXCEPT !.delay = TRUE] ELSE d
    BY Zenon DEF handle_rst_stream_frame, Reading, Present
<1>2. Lands(c, d, i)
    BY <1>1, LandsPeerReset DEF StreamsIndInv
<1> HIDE DEF d
<1>3. ConnInv(d) /\ Served(d) /\ d.state < IS_CLOSING
    BY <1>1, <1>2, LandsInv DEF StreamsIndInv, Rest
<1>4. c' = d \/ c' = [d EXCEPT !.delay = TRUE]
    BY <1>1, Zenon
<1>5. ConnInv(c') /\ Served(c')
  <2>1. d.state # FREED
      BY <1>3
  <2> QED BY <1>3, <1>4, <2>1, ContextInv
<1> QED BY <1>5 DEF StreamsIndInv

LEMMA WindowUpdateInv ==
  ASSUME NEW i \in Ids, StreamsIndInv, handle_window_update_frame(i)
  PROVE  StreamsIndInv'
<1>1. c' = update_stream_output_window(c, i, TRUE)
    BY DEF handle_window_update_frame
<1>2. Lands(c, c', i)
    BY <1>1, LandsWindowUpdate DEF StreamsIndInv
<1> QED BY <1>2, LandsInv DEF StreamsIndInv

LEMMA BadWindowUpdateInv ==
  ASSUME NEW i \in Ids, StreamsIndInv, HandleBadWindowUpdate(i)
  PROVE  StreamsIndInv'
<1> DEFINE d == stream_reset(c, i)
<1>1. c.state < IS_CLOSING /\ c.s[i].st # ABSENT /\ c' = stream_send_error(d)
    BY Zenon DEF HandleBadWindowUpdate, Reading, Present
<1>2. Lands(c, d, i)
    BY <1>1, LandsResetNow DEF StreamsIndInv
<1> HIDE DEF d
<1>3. ConnInv(d) /\ Served(d) /\ d.state < IS_CLOSING
    BY <1>1, <1>2, LandsInv DEF StreamsIndInv, Rest
<1>4. c' = d
    BY <1>1, <1>3, SendErrorSame
<1> QED BY <1>3, <1>4 DEF StreamsIndInv

LEMMA SettingsInv ==
  ASSUME StreamsIndInv, NEW up \in BOOLEAN, NEW changed \in SUBSET Ids, handle_settings_frame(up, changed)
  PROVE  StreamsIndInv'
<1>1. c' = UpdateWindows(up, changed)
    BY DEF handle_settings_frame
<1>2. ConnInv(UpdateWindows(up, changed)) /\ Served(UpdateWindows(up, changed))
    BY WindowsInv DEF StreamsIndInv
<1> QED BY <1>1, <1>2 DEF StreamsIndInv

(* The client may send any of these frames. *)
LEMMA FrameInv ==
  ASSUME NEW i \in Ids, StreamsIndInv, Frame(i)
  PROVE  StreamsIndInv'
<1>1. ASSUME NEW len \in BOOLEAN, NEW end \in BOOLEAN, NEW streamable \in BOOLEAN, NEW valid \in BOOLEAN,
             len \/ end, MayEnd(i, end), handle_data_frame(i, len, end, streamable, valid)
      PROVE  StreamsIndInv'
    BY <1>1, DataInv
<1>2. ASSUME NEW end \in BOOLEAN, NEW end_headers \in BOOLEAN, NEW window \in BOOLEAN, NEW kind \in Kinds,
             MaySendHeaders(i), handle_headers_frame(i, end, end_headers, kind, window)
      PROVE  StreamsIndInv'
    BY <1>2, HeadersInv
<1>3. ASSUME NEW end_headers \in BOOLEAN, HandleTrailers(i, end_headers) PROVE StreamsIndInv'
    BY <1>3, HandleTrailersInv
<1>4. ASSUME NEW kind \in Kinds, NEW too_large \in BOOLEAN, MayEnd(i, TRUE),
             expect_continuation_of_headers(i, kind, too_large)
      PROVE  StreamsIndInv'
    BY <1>4, ContinuationInv
<1> QED BY <1>1, <1>2, <1>3, <1>4, PriorityInv, RstInv, WindowUpdateInv, BadWindowUpdateInv, Zenon DEF Frame

-----------------------------------------------------------------------------
(* The handlers *)

(* The handler asks for more when it was given nothing: the process ends. *)
LEMMA MoreFails ==
  ASSUME NEW d, NEW i \in Ids, ConnInv(d), Served(d), d.s[i].body = CLOSE_QUEUED, d.s[i].entity # "some"
  PROVE  ConnInv(ProceedMore(d, i)) /\ Served(ProceedMore(d, i))
<1> DEFINE r == d.s[i]
<1>0. r \in Stream
    BY StreamAt
<1>1. PICK place \in Places : Good(d, i, r, place)
    BY StreamAt
<1>2. "written" \in Allowed(d) /\ d.state # FREED
  <2>1. r.entity = "empty" /\ "early_end" \in d.features
      BY <1>0, <1>1 DEF Good, WriteOK, Stream
  <2>2. r.st # ABSENT
      BY <1>1 DEF Good, FreshOK
  <2> QED BY <1>1, <2>1, <2>2 DEF Allowed, Good
<1>3. ProceedMore(d, i) = Check(d, FALSE, "written")
  <2>1. ~(d.s[i].body = OPEN) /\ ~(d.s[i].entity = "some")
      OBVIOUS
  <2> QED BY <2>1, Zenon DEF ProceedMore
<1>4. Check(d, FALSE, "written") = [d EXCEPT !.fail = d.fail \cup {"written"}]
    BY Zenon DEF Check
<1> QED BY <1>2, <1>3, <1>4, ContextInv

LEMMA HandlerInv ==
  ASSUME NEW i \in Ids, StreamsIndInv, Handler(i)
  PROVE  StreamsIndInv'
<1> DEFINE r == c.s[i]
<1>0. ConnInv(c) /\ Served(c)
    BY DEF StreamsIndInv
<1>1. CASE HandlerAccept(i)
  <2>1. r.turn /\ r.proceed /\ r.write = "none" /\ r.st < SEND_BODY
        /\ c' = [c EXCEPT !.s[i] = [@ EXCEPT !.write = "open", !.busy = TRUE]]
      BY <1>1, Zenon DEF HandlerAccept
  <2>2. Lands(c, c', i)
      BY <1>0, <2>1, LandsAccept
  <2> QED BY <1>0, <2>2, LandsInv DEF StreamsIndInv
<1>2. ASSUME NEW answer \in {"progress", "final", "error"}, NEW bufs \in BOOLEAN,
             r.proceed /\ ~r.done /\ r.st < SEND_BODY => (r.write = "none" => On("unaccepted")),
             HandlerSend(i, answer, bufs)
      PROVE  StreamsIndInv'
  <2>1. r.turn /\ ~r.done /\ c' = finalostream_send(c, i, answer, bufs)
      BY <1>2, ReadAt DEF HandlerSend
  <2>2. /\ answer \in {"progress", "final", "error", "too_early"} /\ answer # "too_early"
        /\ r.proceed /\ r.st < SEND_BODY /\ r.write = "none" => "unaccepted" \in c.features \/ answer = "too_early"
      BY <1>2, <2>1 DEF On
  <2>3. Lands(c, c', i)
      BY <1>0, <2>1, <2>2, LandsHandlerSend
  <2> QED BY <1>0, <2>3, LandsInv DEF StreamsIndInv
<1>3. CASE HandlerProceed(i)
  <2>1. r.proceed /\ r.busy /\ c' = ProceedMore(c, i)
      BY <1>3, Zenon DEF HandlerProceed
  <2>2. CASE r.body = CLOSE_QUEUED => r.entity = "some"
    <3>1. Lands(c, c', i)
        BY <1>0, <2>1, <2>2, LandsMore
    <3> QED BY <1>0, <3>1, LandsInv DEF StreamsIndInv
  <2>3. CASE r.body = CLOSE_QUEUED /\ r.entity # "some"
    <3>1. ConnInv(c') /\ Served(c')
        BY <1>0, <2>1, <2>3, MoreFails
    <3> QED BY <3>1 DEF StreamsIndInv
  <2> QED BY <2>2, <2>3
<1>4. CASE HandlerHeadError(i)
  <2> DEFINE d == finalostream_send(Gone(c, i), i, "final", TRUE)
  <2>1. r.turn /\ r.write = "open" /\ r.st <= SEND_HEADERS
        /\ c' = IF d.s[i].proceed THEN ProceedError(d, i) ELSE d
      BY <1>4, Zenon DEF HandlerHeadError
  <2>2. d.s[i].proceed /\ Lands(c, ProceedError(d, i), i)
      BY <1>0, <2>1, LandsHeadError
  <2> HIDE DEF d
  <2>3. Lands(c, c', i)
      BY <2>1, <2>2, Zenon
  <2> QED BY <1>0, <2>3, LandsInv DEF StreamsIndInv
<1>5. CASE HandlerBodyError(i)
  <2> DEFINE d == IF r.proceed THEN ProceedError(Gone(c, i), i) ELSE Gone(c, i)
  <2>1. r.write = "open" /\ r.st = SEND_BODY
        /\ c' = IF r.turn THEN finalostream_send(d, i, "error", FALSE) ELSE d
      BY <1>5, Zenon DEF HandlerBodyError
  <2>2. Lands(c, IF r.turn THEN finalostream_send(d, i, "error", FALSE) ELSE d, i)
      BY <1>0, <2>1, LandsBodyError
  <2> HIDE DEF d
  <2>3. Lands(c, c', i)
      BY <2>1, <2>2, Zenon
  <2> QED BY <1>0, <2>3, LandsInv DEF StreamsIndInv
<1>6. CASE HandlerWriteError(i)
  <2>1. r.proceed /\ r.write = "open" /\ r.done /\ c' = ProceedError(Gone(c, i), i)
      BY <1>6, Zenon DEF HandlerWriteError
  <2>2. r.st >= SEND_HEADERS
      BY <2>1, ReadAt
  <2>3. Lands(c, c', i)
      BY <1>0, <2>1, <2>2, LandsWriteError
  <2> QED BY <1>0, <2>3, LandsInv DEF StreamsIndInv
<1>7. CASE On("stop_sending") /\ HandlerStopSending(i)
  <2>1. /\ r.proceed /\ r.write = "open" /\ "stop_sending" \in c.features
        /\ c' = ProceedError(Gone(c, i), i)
      BY <1>7, Zenon DEF HandlerStopSending, On
  <2> DEFINE d == ProceedError(Gone(c, i), i)
  <2>2. ConnInv(d) /\ Served(d)
      BY <1>0, <2>1, StopSendingInv
  <2> HIDE DEF d
  <2>3. c' = d
      BY <2>1 DEF d
  <2> QED BY <2>2, <2>3 DEF StreamsIndInv
<1>8. CASE On("refused") /\ HandlerRefused(i)
  <2>1. r.turn /\ r.st <= SEND_HEADERS /\ "refused" \in c.features
        /\ c' = finalostream_send(Gone(c, i), i, "refused", FALSE)
      BY <1>8, Zenon DEF HandlerRefused, On
  <2>2. Lands(c, c', i)
      BY <1>0, <2>1, LandsRefused
  <2> QED BY <1>0, <2>2, LandsInv DEF StreamsIndInv
<1>9. CASE On("tooearly") /\ HandlerTooEarly(i)
  <2>1. r.turn /\ r.st <= SEND_HEADERS /\ "tooearly" \in c.features
        /\ c' = finalostream_send(c, i, "too_early", FALSE)
      BY <1>9, Zenon DEF HandlerTooEarly, On
  <2>2. "too_early" \in {"progress", "final", "error", "too_early"} /\ FALSE \in BOOLEAN
      OBVIOUS
  <2>3. Lands(c, c', i)
      BY <1>0, <2>1, <2>2, LandsHandlerSend
  <2> QED BY <1>0, <2>3, LandsInv DEF StreamsIndInv
<1> QED BY <1>1, <1>2, <1>3, <1>4, <1>5, <1>6, <1>7, <1>8, <1>9, Zenon DEF Handler

-----------------------------------------------------------------------------
(* The events of the loop *)

LEMMA EmitInv ==
  ASSUME NEW i \in Ids, StreamsIndInv, NEW outcome \in {"all", "part", "error"}, NEW window \in BOOLEAN,
         outcome = "part" => c.s[i].data, EmitWrite(i, outcome, window)
  PROVE  StreamsIndInv'
<1>1. c.s[i].active /\ c' = emit_writereq_of_openref(c, i, outcome, window)
    BY Zenon DEF EmitWrite
<1>2. Lands(c, c', i)
    BY <1>1, LandsEmit DEF StreamsIndInv
<1> QED BY <1>2, LandsInv DEF StreamsIndInv

LEMMA WriteCompleteInv ==
  ASSUME StreamsIndInv, on_write_complete
  PROVE  StreamsIndInv'
<1> DEFINE d == ProceedEach(c)[Len(c.to_proceed)]
<1>1. ConnInv(d) /\ Served(d)
    BY ProceedAll DEF StreamsIndInv
<1>2. c' = d
    BY Zenon DEF on_write_complete
<1> HIDE DEF d
<1> QED BY <1>1, <1>2 DEF StreamsIndInv

LEMMA DelayInv ==
  ASSUME StreamsIndInv, on_dos_process_delay
  PROVE  StreamsIndInv'
<1> DEFINE d == [c EXCEPT !.delay = FALSE]
<1>0. c \in Conn /\ c.state \in 0 .. 3 /\ c.max_open \in 0 .. MaxId /\ MaxId \in Nat
  <2>1. c \in Conn
      BY DEF StreamsIndInv, ConnInv
  <2> QED BY <2>1, IdsFinite DEF Conn
<1>1. c.state < FREED /\ c' = run_pending_requests(d)
    BY Zenon DEF on_dos_process_delay
<1>2. d \in Conn
    BY <1>0 DEF Conn
<1>3. Onward(c, d) /\ FailOK(d)
  <2>1. FailOK(c)
      BY DEF StreamsIndInv, ConnInv
  <2>2. d.features = c.features /\ d.fail = c.fail
      BY <1>0 DEF Conn
  <2>3. FailOK(d)
      BY <2>1, <2>2 DEF FailOK, Allowed
  <2> QED BY <1>0, <1>1, <2>3 DEF Onward, SameLists, Conn
<1> HIDE DEF d
<1>4. ConnInv(d)
    BY <1>2, <1>3, OnwardInv DEF StreamsIndInv
<1>5. ConnInv(c') /\ Served(c')
    BY <1>1, <1>4, RunPending DEF Ran
<1> QED BY <1>5 DEF StreamsIndInv

LEMMA ReplayInv ==
  ASSUME StreamsIndInv, ReplayEarly
  PROVE  StreamsIndInv'
<1> DEFINE d == [c EXCEPT !.early_data = FALSE]
<1>0. c.early = d.early
  <2>1. c \in Conn
      BY DEF StreamsIndInv, ConnInv
  <2> QED BY <2>1 DEF Conn
<1>1. c.state < IS_CLOSING /\ c' = ReplayEach(d)[Len(c.early)]
    BY Zenon DEF ReplayEarly
<1>2. c.state # FREED
    BY <1>1
<1>3. ConnInv(d) /\ Served(d)
    BY <1>2, ContextInv DEF StreamsIndInv
<1> HIDE DEF d
<1> DEFINE e == ReplayEach(d)[Len(d.early)]
<1>4. ConnInv(e) /\ Served(e)
    BY <1>3, ReplayAll
<1>5. c' = e
    BY <1>0, <1>1
<1> HIDE DEF e
<1> QED BY <1>4, <1>5 DEF StreamsIndInv

(* The connection is told to go away, drained or broken. *)
LEMMA StateInv ==
  ASSUME StreamsIndInv, enqueue_goaway \/ CloseDrained \/ ProtocolError
  PROVE  StreamsIndInv'
<1>0. c.state \in 0 .. 3
  <2>1. c \in Conn
      BY DEF StreamsIndInv, ConnInv
  <2> QED BY <2>1 DEF Conn
<1>1. PICK x \in CONN_OPEN .. IS_CLOSING : c.state <= x /\ c' = [c EXCEPT !.state = x]
    BY <1>0 DEF enqueue_goaway, CloseDrained, ProtocolError, ConnectionError
<1>2. c.state # FREED
    BY <1>0, <1>1
<1>3. ConnInv(c') /\ Served(c')
    BY <1>1, <1>2, ContextInv DEF StreamsIndInv
<1> QED BY <1>3 DEF StreamsIndInv

LEMMA CloseNowInv ==
  ASSUME StreamsIndInv, close_connection_now
  PROVE  StreamsIndInv'
<1> DEFINE d == CloseEach(c)[MaxId]
           cond == /\ d.open = 0 /\ d.half_closed = 0 /\ d.send_body = 0
                   /\ d.priority_open = 0 /\ d.blocked = 0 /\ d.streaming = 0 /\ d.tunnel = 0
                   /\ d.pending = <<>> /\ d.to_proceed = <<>>
           e == Check(d, cond, "close_connection_now")
<1>1. c.state = IS_CLOSING /\ c' = [e EXCEPT !.state = FREED, !.delay = FALSE, !.max_open = 0,
                                             !.continuation = NoContinuation]
    BY Zenon DEF close_connection_now
<1>2. ConnInv(d) /\ \A j \in Ids : d.s[j].st = ABSENT
    BY <1>1, CloseAll DEF StreamsIndInv
<1> HIDE DEF d
<1>3. cond
    BY <1>2, NoneLeft
<1> HIDE DEF cond
<1>4. e = d
    BY <1>3, CheckTrue
<1> HIDE DEF e
<1>5. c' = [d EXCEPT !.state = FREED, !.delay = FALSE, !.max_open = 0, !.continuation = NoContinuation]
    BY <1>1, <1>4
<1>6. ConnInv(c') /\ Served(c')
    BY <1>2, <1>5, FreedInv
<1> QED BY <1>6 DEF StreamsIndInv

LEMMA NextInv ==
  ASSUME StreamsIndInv, Next
  PROVE  StreamsIndInv'
<1>1. ASSUME NEW i \in Ids, NEW outcome \in {"all", "part", "error"}, NEW window \in BOOLEAN,
             outcome = "part" => c.s[i].data, EmitWrite(i, outcome, window)
      PROVE  StreamsIndInv'
    BY <1>1, EmitInv
<1>2. ASSUME NEW up \in BOOLEAN, NEW changed \in SUBSET Ids, handle_settings_frame(up, changed)
      PROVE  StreamsIndInv'
    BY <1>2, SettingsInv
<1> QED BY <1>1, <1>2, FrameInv, HandlerInv, WriteCompleteInv, DelayInv, ReplayInv, StateInv, CloseNowInv, Zenon
    DEF Next

-----------------------------------------------------------------------------
(* The connection is accepted: it has no streams. *)
LEMMA InitInv ==
  ASSUME Init
  PROVE  StreamsIndInv
<1>1. PICK features \in Scenarios :
        c = [features |-> features, s |-> [i \in Ids |-> NoStream], state |-> CONN_OPEN, max_open |-> 0,
             continuation |-> NoContinuation, early_data |-> "tooearly" \in features,
             pending |-> <<>>, to_proceed |-> <<>>, early |-> <<>>,
             priority_open |-> 0, open |-> 0, half_closed |-> 0, send_body |-> 0,
             blocked |-> 0, streaming |-> 0, tunnel |-> 0,
             budget |-> MaxConcurrent, delay |-> FALSE, fail |-> {}]
    BY Zenon DEF Init
<1>2. /\ c.s = [i \in Ids |-> NoStream] /\ c.state = 0 /\ c.pending = <<>> /\ c.to_proceed = <<>>
      /\ c.early = <<>> /\ c.priority_open = 0 /\ c.open = 0 /\ c.half_closed = 0 /\ c.send_body = 0
      /\ c.blocked = 0 /\ c.streaming = 0 /\ c.tunnel = 0 /\ c.fail = {}
    BY <1>1
<1>3. c \in Conn
  <2>0. MaxConcurrent \in Nat /\ Scenarios \subseteq SUBSET STRING
      BY H2StreamsAssumption
  <2>1. features \in SUBSET STRING /\ MaxConcurrent \in 0 .. MaxConcurrent /\ 0 \in 0 .. MaxId
    <3>1. features \in SUBSET STRING
        BY <2>0, Zenon
    <3>2. MaxConcurrent \in 0 .. MaxConcurrent /\ 0 \in 0 .. MaxId
        BY <2>0, IdsFinite
    <3> QED BY <3>1, <3>2, Zenon
  <2>2. NoContinuation \in [id : 0 .. MaxId, end : BOOLEAN]
      BY <2>1 DEF NoContinuation
  <2>3. [i \in Ids |-> NoStream] \in [Ids -> Stream]
      BY NoStreamGood
  <2>4. ("tooearly" \in features) \in BOOLEAN
      OBVIOUS
  <2> DEFINE ed == "tooearly" \in features
             s == [i \in Ids |-> NoStream]
  <2> HIDE DEF ed, s
  <2>5. c = [features |-> features, s |-> s, state |-> CONN_OPEN, max_open |-> 0,
             continuation |-> NoContinuation, early_data |-> ed,
             pending |-> <<>>, to_proceed |-> <<>>, early |-> <<>>,
             priority_open |-> 0, open |-> 0, half_closed |-> 0, send_body |-> 0,
             blocked |-> 0, streaming |-> 0, tunnel |-> 0,
             budget |-> MaxConcurrent, delay |-> FALSE, fail |-> {}]
      BY <1>1, Zenon DEF ed, s
  <2>6. ed \in BOOLEAN /\ s \in [Ids -> Stream]
      BY <2>3, <2>4 DEF ed, s
  <2> QED BY <2>1, <2>2, <2>5, <2>6 DEF Conn
<1> HIDE <1>1
<1>4. ListsOK(c) /\ FailOK(c)
    BY <1>2 DEF ListsOK, Distinct, FailOK, Allowed
<1>5. ASSUME NEW j \in Ids
      PROVE  c.s[j] = NoStream /\ Place(c, j, "none") /\ Good(c, j, c.s[j], "none")
  <2>1. c.s[j] = NoStream
      BY <1>2
  <2>2. Place(c, j, "none")
      BY <1>2 DEF Place, Elements
  <2> QED BY <2>1, <2>2, NoStreamGood
<1>6. StreamsGood(c)
    BY <1>5 DEF StreamsGood, Places
<1>7. Exact(c)
  <2>1. NoStream.st = ABSENT /\ ~NoStream.blocked /\ ~NoStream.streamed
      BY DEF NoStream
  <2>2. /\ IdleSet(c) = {} /\ OpenSet(c) = {} /\ HalfClosedSet(c) = {} /\ SendBodySet(c) = {}
        /\ BlockedSet(c) = {} /\ StreamingSet(c) = {} /\ TunnelSet(c) = {}
      BY <1>5, <2>1 DEF IdleSet, OpenSet, HalfClosedSet, SendBodySet, BlockedSet, StreamingSet, TunnelSet
  <2> QED BY <1>2, <2>2, FS_EmptySet DEF Exact
<1>8. Served(c)
    BY <1>2 DEF Served, Elements
<1> QED BY <1>3, <1>4, <1>6, <1>7, <1>8 DEF StreamsIndInv, ConnInv

LEMMA Inductive == Spec => []StreamsIndInv
<1>1. Init => StreamsIndInv
    BY InitInv
<1>2. StreamsIndInv /\ [Next]_c => StreamsIndInv'
  <2>1. ASSUME StreamsIndInv, Next PROVE StreamsIndInv'
      BY <2>1, NextInv
  <2>2. ASSUME StreamsIndInv, UNCHANGED c PROVE StreamsIndInv'
      BY <2>2 DEF StreamsIndInv
  <2> QED BY <2>1, <2>2
<1> QED BY <1>1, <1>2, PTL DEF Spec

(* The invariants, from the inductive one *)

LEMMA AssertionsFollow == StreamsIndInv => AssertionsHold
BY DEF StreamsIndInv, ConnInv, FailOK, Allowed, AssertionsHold, On

LEMMA CountersFollow == StreamsIndInv => CountersExact
<1> SUFFICES ASSUME StreamsIndInv PROVE CountersExact
    OBVIOUS
<1>1. Exact(c)
    BY DEF StreamsIndInv, ConnInv
<1> QED BY <1>1, Zenon DEF Exact, CountersExact, Streams, IdleSet, OpenSet, HalfClosedSet, SendBodySet,
    BlockedSet, StreamingSet, TunnelSet

LEMMA TypeFollows == StreamsIndInv => TypeOK
<1> SUFFICES ASSUME StreamsIndInv PROVE TypeOK
    OBVIOUS
<1>1. c \in Conn /\ ListsOK(c) /\ Exact(c)
    BY DEF StreamsIndInv, ConnInv
<1>2. ASSUME NEW T \in SUBSET Ids PROVE Cardinality(T) \in 0 .. MaxId
  <2>1. Cardinality(T) \in Nat /\ Cardinality(T) <= Cardinality(Ids)
      BY IdsFinite, FS_Subset, FS_CardinalityType
  <2>2. Cardinality(Ids) = MaxId
    <3>1. 1 \in Int /\ MaxId \in Int /\ (1 > MaxId => MaxId = 0)
        BY IdsFinite
    <3> QED BY <3>1, IdsFinite, FS_Interval DEF Ids
  <2> QED BY <2>1, <2>2, IdsFinite
<1>3. /\ IdleSet(c) \in SUBSET Ids /\ OpenSet(c) \in SUBSET Ids /\ HalfClosedSet(c) \in SUBSET Ids
      /\ SendBodySet(c) \in SUBSET Ids /\ BlockedSet(c) \in SUBSET Ids
      /\ StreamingSet(c) \in SUBSET Ids /\ TunnelSet(c) \in SUBSET Ids
    BY DEF IdleSet, OpenSet, HalfClosedSet, SendBodySet, BlockedSet, StreamingSet, TunnelSet
<1>4. {c.priority_open, c.open, c.half_closed, c.send_body, c.blocked, c.streaming, c.tunnel}
          \subseteq 0 .. MaxId
  <2>1. /\ c.priority_open \in 0 .. MaxId /\ c.open \in 0 .. MaxId /\ c.half_closed \in 0 .. MaxId
        /\ c.send_body \in 0 .. MaxId /\ c.blocked \in 0 .. MaxId /\ c.streaming \in 0 .. MaxId
        /\ c.tunnel \in 0 .. MaxId
      BY <1>1, <1>2, <1>3 DEF Exact
  <2> QED BY <2>1
<1>5. ASSUME NEW list \in {c.pending, c.to_proceed, c.early}
      PROVE  Distinct(list) /\ Elements(list) \subseteq {i \in Ids : c.s[i].st # ABSENT}
  <2>1. Distinct(list) /\ list \in Seq(Ids)
      BY <1>1, <1>5 DEF ListsOK, Conn
  <2>2. ASSUME NEW i \in Elements(list) PROVE i \in Ids /\ c.s[i].st # ABSENT
    <3>1. i \in Ids
        BY <2>1, <2>2, ElementsIn
    <3>2. PICK place \in Places : Place(c, i, place) /\ Good(c, i, c.s[i], place)
        BY <3>1, StreamAt DEF StreamsIndInv
    <3>3. place # "none"
        BY <1>5, <2>2, <3>2 DEF Place
    <3> QED BY <3>1, <3>2, <3>3 DEF Good, FreshOK
  <2> QED BY <2>1, <2>2
<1> QED BY <1>1, <1>4, <1>5 DEF TypeOK

LEMMA IdleFollows == StreamsIndInv => IdleTimeoutOff
<1> SUFFICES ASSUME StreamsIndInv, Lacking({"tooearly"}), c.state < IS_CLOSING, NEW i \in Ids,
                    c.s[i].turn, c.s[i].st # END_STREAM,
                    c.s[i].body \in {NONE, CLOSE_QUEUED, CLOSE_DELIVERED}
             PROVE  c.s[i].blocked
    BY DEF IdleTimeoutOff
<1>1. PICK place \in Places : Place(c, i, place) /\ Good(c, i, c.s[i], place)
    BY StreamAt DEF StreamsIndInv
<1>2. "tooearly" \notin c.features
    BY DEF Lacking
<1> QED BY <1>1, <1>2 DEF Good, BlockedOK

LEMMA StallFollows == StreamsIndInv => NoStall
<1> SUFFICES ASSUME StreamsIndInv, NEW i \in Ids
             PROVE  /\ (c.s[i].data \/ c.s[i].st = SEND_BODY_IS_FINAL) /\ c.s[i].window => c.s[i].active
                    /\ c.s[i].active => ~Linked(c, i)
    BY DEF NoStall
<1>1. PICK place \in Places : Place(c, i, place) /\ Good(c, i, c.s[i], place)
    BY StreamAt DEF StreamsIndInv
<1> QED BY <1>1 DEF Good, SendOK, Linked, Place

LEMMA PendingFollows == StreamsIndInv => PendingServed
<1> SUFFICES ASSUME StreamsIndInv, c.pending # <<>>, c.state < IS_CLOSING, ~c.delay
             PROVE  \E i \in Ids \ Elements(c.pending) : c.s[i].st >= SEND_HEADERS \/ c.s[i].streamed
    BY DEF PendingServed
<1>1. c.pending \in Seq(Ids)
    BY DEF StreamsIndInv, ConnInv, Conn
<1>2. Elements(c.pending) # {}
  <2>1. 1 \in DOMAIN c.pending
      BY <1>1
  <2> QED BY <2>1 DEF Elements
<1>3. PICK i \in Ids : Serves(c.s[i])
    BY <1>2 DEF StreamsIndInv, Served
<1>4. c.s[i].st \in 0 .. 8
    BY StreamAt DEF StreamsIndInv
<1>5. PICK place \in Places : Place(c, i, place) /\ Good(c, i, c.s[i], place)
    BY StreamAt DEF StreamsIndInv
<1>6. i \notin Elements(c.pending)
    BY <1>3, <1>4, <1>5 DEF Serves, Place, Good, QueueOK, BodyOK
<1> QED BY <1>3, <1>6 DEF Serves

LEMMA ZombieFollows == StreamsIndInv => NoZombie
<1> SUFFICES ASSUME StreamsIndInv, Lacking({"unaccepted", "refused", "tooearly"}), NEW i \in Ids, Zombie(i)
             PROVE  FALSE
    BY DEF NoZombie, EndedIsClosed
<1>1. PICK place \in Places : Place(c, i, place) /\ Good(c, i, c.s[i], place)
    BY StreamAt DEF StreamsIndInv
<1>2. place = "none"
    BY <1>1 DEF Place, Places, Zombie, Linked
<1>3. c.features \cap {"unaccepted", "refused", "tooearly"} = {}
    BY DEF Lacking
<1>4. c.s[i].proceed /\ c.s[i].write = "open"
    BY <1>1, <1>2, <1>3 DEF Good, EndOK, Zombie
<1> QED BY <1>1, <1>4 DEF Good, BodyOK, WriteOK, Zombie

LEMMA DisregardedFollows == StreamsIndInv => DisregardedNotRun
<1> SUFFICES ASSUME StreamsIndInv, NEW i \in Ids, i > c.max_open, c.s[i].called PROVE c.s[i].tunnel
    BY DEF DisregardedNotRun
<1>1. PICK place \in Places : Place(c, i, place) /\ Good(c, i, c.s[i], place)
    BY StreamAt DEF StreamsIndInv
<1>2. ~(i <= c.max_open)
  <2>1. c.max_open \in 0 .. MaxId
      BY DEF StreamsIndInv, ConnInv, Conn
  <2> QED BY <2>1, IdsFinite DEF Ids
<1> QED BY <1>1, <1>2 DEF Good, RunOK

(* For every number of streams, every limit and every set of scenarios: no    *)
(* assertion of connection.c, stream.c and http2_internal.h fails and no      *)
(* switch meets a state that it does not expect, but for the one of           *)
(* proceed_request (connection.c:944) where the client may half-close a       *)
(* tunnel before its response, and the one that headers come once             *)
(* (http2_internal.h:337) where it may send HEADERS again on a stream opened  *)
(* after GOAWAY; and proceed_request frees the request under its caller only  *)
(* where the upstream stops the request body before its response.             *)
THEOREM AssertionsTheorem == Spec => []AssertionsHold
BY Inductive, AssertionsFollow, PTL

(* The types; the counters of num_streams, which decide on the limits and     *)
(* when the connection may close, are exact; and the idle timeout is off      *)
(* while a handler works on a request that was received.                      *)
THEOREM StreamsTheorem == Spec => []StreamsInv
<1>1. StreamsIndInv => StreamsInv
    BY TypeFollows, CountersFollow, IdleFollows DEF StreamsInv
<1> QED BY <1>1, Inductive, PTL

(* A stream that can send is in the scheduler and on no list, and a pending   *)
(* request has somebody who runs it (run_pending_requests).                   *)
THEOREM StuckTheorem == Spec => []NothingStuck
<1>1. StreamsIndInv => NothingStuck
    BY StallFollows, PendingFollows DEF NothingStuck
<1> QED BY <1>1, Inductive, PTL

(* A stream that has ended is closed by the completion of a write or by who   *)
(* is done with its request body, if handlers accept what they are given and  *)
(* upstreams neither refuse nor answer 425.                                   *)
THEOREM ZombieTheorem == Spec => []NoZombie
BY Inductive, ZombieFollows, PTL

(* A request of a stream opened after GOAWAY is not run, unless it is a       *)
(* CONNECT (reset_stream_if_disregarded).                                     *)
THEOREM DisregardedTheorem == Spec => []DisregardedNotRun
BY Inductive, DisregardedFollows, PTL
==============================================================================
