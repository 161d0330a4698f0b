----------------------------- MODULE HttpServer -----------------------------
(***************************************************************************)
(* The dispatch thread (DispatchServerMain in src/src/dispatch.cpp): it    *)
(* accepts one connection at a time, reads a request into the static       *)
(* pkt_buf, parses it with phr_parse_request (src/src/http.c), routes it,  *)
(* writes the response into the same buffer and sends it.  What the SDK    *)
(* endpoints do is in Accounts; the threads around this one in Lifecycle.  *)
(*                                                                         *)
(* The buffer is a row of cells.  A method with its space, the rest of the *)
(* request line, a header line, an empty line ("end") and a body (JSON     *)
(* over several lines) are one cell each; "bad" is a zero byte, "cr" a     *)
(* carriage return that no line feed follows, "proto" and "code" are the   *)
(* two halves of the status line and headers of a response.  A cell is     *)
(* received whole, which leaves out requests cut inside a word.            *)
(***************************************************************************)
EXTENDS Integers, Sequences, FiniteSets

CONSTANTS
  Request,   \* the requests clients may send, sequences of cells
  BufLen,    \* buf_len, in cells
  MaxHdrs,   \* _hdr_cnt: the header lines the parser takes
  MaxConns,  \* bound: connections accepted
  NULL

Methods == {"GET", "POST", "HEAD", "OPTIONS", "PUT"}
Targets == {"/", "/gen_204", "endpoint", "/unknown", "opaque"}
Cell == Methods \union Targets
          \union {"hdr", "end", "body", "bad", "cr", "proto", "code"}

\* Cells that end a line, and cells that begin with a token and a space.
LineEnds == Targets \union {"hdr", "end", "code"}
TokenFirst == Methods \union {"opaque", "code"}

ASSUME HttpAssumption ==
  /\ BufLen \in Nat /\ BufLen >= 5
  /\ MaxHdrs \in Nat
  /\ MaxConns \in Nat
  /\ Request \subseteq Seq(Cell) \ {<<>>}

VARIABLES
  ds,                     \* where the dispatch thread is
  DispatchServerSignal,   \* asks the dispatch thread to stop
  GameserverSignal,       \* asks the gameserver thread to stop
  pkt_buf, actual_len, pret, status, body,  \* its variables
  meth,                   \* the cell meth points to, 0 for NULL, -1 without value
  left,                   \* prev_len while the response is sent
  req, stream,            \* the client's request and what of it is not received
  gone,                   \* whether the client has left: "no", "closed", "reset"
  got,                    \* the sizes of the pieces received on this connection
  past,                   \* history: the byte behind pkt_buf was written
  conns

conn == <<req, stream, gone, got, past, conns>>
local == <<pkt_buf, actual_len, pret, status, body, meth, left>>
httpVars == <<ds, DispatchServerSignal, GameserverSignal, local, conn>>

HttpInit ==
  /\ ds = "none"
  /\ DispatchServerSignal = FALSE /\ GameserverSignal = FALSE
  /\ pkt_buf = [i \in 1..BufLen |-> "bad"]
  /\ actual_len = 0 /\ pret = 0 /\ status = 200 /\ body = NULL /\ left = 0
  /\ meth = -1
  /\ req = <<>> /\ stream = <<>> /\ gone = "no" /\ got = <<>> /\ past = FALSE /\ conns = 0

\* The connection is closed; nothing of it is left to tell.
Closed ==
  /\ req' = <<>> /\ stream' = <<>> /\ gone' = "no" /\ got' = <<>> /\ past' = FALSE
  /\ UNCHANGED conns

-----------------------------------------------------------------------------
(***************************************************************************)
(* The parser.                                                             *)
(***************************************************************************)

\* An empty line before the request line is skipped.
Skip(buf) == IF buf[1] = "end" THEN 1 ELSE 0

\* The header lines begin behind the request line; where they end.
Headers(buf) == Skip(buf) + 3
HeadersEnd(buf) ==
  CHOOSE i \in Headers(buf)..(BufLen + 1) :
    /\ i <= BufLen => buf[i] # "hdr"
    /\ \A j \in Headers(buf)..(i - 1) : buf[j] = "hdr"

(***************************************************************************)
(* parse_request over the first len cells.  The results are the value      *)
(* returned and the pointer meth, which is set once a method was read.     *)
(***************************************************************************)
parse_request(buf, len, received) ==
  LET m == Skip(buf) + 1
      i == HeadersEnd(buf)
  IN CASE buf[m] \notin TokenFirst -> {<<-1, 0>>}
       [] buf[m] \in TokenFirst \ Methods -> {<<-1, m>>}
       [] buf[m] \in Methods /\ buf[m + 1] \notin Targets -> {<<-1, m>>}
       [] buf[m] \in Methods /\ buf[m + 1] \in Targets ->
            IF i - Headers(buf) > MaxHdrs THEN {<<-1, m>>}
            ELSE IF i > len THEN {<<-2, m>>}
            ELSE IF buf[i] # "end" THEN {<<-1, m>>}
            \* headers that an earlier response left may be cut anywhere
            ELSE IF i > received THEN {<<i, m>>, <<-1, m>>}
            ELSE {<<i, m>>}

\* is_complete: whether an empty line ends the headers behind cell last_len;
\* a carriage return alone before it is an error.
Ends(buf, i) == i > 1 /\ buf[i] = "end" /\ buf[i - 1] \in LineEnds
is_complete(buf, len, last_len) ==
  LET new == (last_len + 1)..len
      stops == {i \in new : buf[i] = "cr" \/ Ends(buf, i)}
  IN IF stops = {} THEN -2
     ELSE IF buf[CHOOSE i \in stops : \A j \in stops : i <= j] = "cr" THEN -1
     ELSE 0

\* phr_parse_request: what was there before (last_len) is not parsed again
\* before an end of the headers has come after it.
phr_parse_request(buf, len, received, last_len) ==
  IF last_len > 0 /\ is_complete(buf, len, last_len) < 0
  THEN {<<is_complete(buf, len, last_len), 0>>}
  ELSE parse_request(buf, len, received)

\* Which response a request gets; the endpoints answer with 200.
RouteStatus(m, t) ==
  CASE m = "OPTIONS" -> 204
    [] m \notin {"OPTIONS", "GET", "POST", "HEAD"} -> 405
    [] m \in {"GET", "POST", "HEAD"} ->
         CASE t = "/" -> IF m = "POST" THEN 403 ELSE 200
           [] t = "/gen_204" -> 204
           [] t = "endpoint" -> 200
           [] t = "/unknown" -> 404
           [] OTHER -> 400

\* The C string that starts after cell n.
StringAfter(buf, n) ==
  LET ends == {i \in (n + 1)..BufLen : buf[i] = "bad"}
      last == IF ends = {} THEN BufLen
              ELSE (CHOOSE i \in ends : \A j \in ends : i <= j) - 1
  IN SubSeq(buf, n + 1, last)

\* The response to a request with method m; its headers are in "code".
Response(m, st) ==
  <<"proto", "code", "end">>
    \o (IF m = "HEAD" \/ st = 204 THEN <<>> ELSE <<"body">>)

\* A string written to the start of the buffer; what was behind it stays.
Overlay(buf, at, s) ==
  [i \in 1..BufLen |-> IF i - at \in 1..Len(s) THEN s[i - at] ELSE buf[i]]

-----------------------------------------------------------------------------
(***************************************************************************)
(* The dispatch thread.                                                    *)
(***************************************************************************)

\* The socket is made, bound and listened on, or one of these fails.
DsStart ==
  /\ ds = "start"
  /\ \/ ds' = "loop" /\ UNCHANGED GameserverSignal
     \/ ds' = "done" /\ GameserverSignal' = TRUE
  /\ UNCHANGED <<DispatchServerSignal, local, conn>>

\* Mutant: the length of the last response is taken for bytes received.
DsLoopKeepsLength ==
  /\ ds = "loop"
  /\ IF DispatchServerSignal
     THEN ds' = "done" /\ GameserverSignal' = TRUE /\ UNCHANGED pret
     ELSE ds' = "select" /\ pret' = 0 /\ UNCHANGED GameserverSignal
  /\ UNCHANGED <<DispatchServerSignal, pkt_buf, actual_len, status, body, meth, left, conn>>

\* Mutant: the outer loop does not look at the signal.
DsLoopForever ==
  /\ ds = "loop"
  /\ ds' = "select" /\ pret' = 0 /\ actual_len' = 0
  /\ UNCHANGED <<DispatchServerSignal, GameserverSignal,
                 pkt_buf, status, body, meth, left, conn>>

\* The head of the outer loop.
DsLoop ==
  /\ ds = "loop"
  /\ IF DispatchServerSignal
     THEN ds' = "done" /\ GameserverSignal' = TRUE /\ UNCHANGED <<pret, actual_len>>
     ELSE ds' = "select" /\ pret' = 0 /\ actual_len' = 0 /\ UNCHANGED GameserverSignal
  /\ UNCHANGED <<DispatchServerSignal, pkt_buf, status, body, meth, left, conn>>

\* select times out or fails, or accept fails.
DsNoConn ==
  /\ ds = "select"
  /\ ds' = "loop"
  /\ UNCHANGED <<DispatchServerSignal, GameserverSignal, local, conn>>

DsAccept ==
  /\ ds = "select"
  /\ conns < MaxConns
  /\ \E r \in Request : req' = r /\ stream' = r
  /\ conns' = conns + 1 /\ gone' = "no" /\ got' = <<>> /\ past' = FALSE
  /\ ds' = "inner"
  /\ UNCHANGED <<DispatchServerSignal, GameserverSignal, local>>

\* The head of the reading loop.
DsInner ==
  /\ ds = "inner"
  /\ ds' = IF DispatchServerSignal THEN "after" ELSE "recv"
  /\ UNCHANGED <<DispatchServerSignal, GameserverSignal, local, conn>>

\* Mutant: recv is given the size of the buffer and not what is left of it.
DsRecvOverruns ==
  /\ ds = "recv"
  /\ \E n \in 1..Len(stream) :
       /\ stream' = SubSeq(stream, n + 1, Len(stream))
       /\ got' = Append(got, n)
       /\ pkt_buf' = Overlay(pkt_buf, actual_len, SubSeq(stream, 1, n))
       /\ actual_len' = actual_len + n
  /\ \E p \in phr_parse_request(pkt_buf', BufLen, actual_len', actual_len) :
       pret' = p[1] /\ meth' = p[2]
  /\ IF pret' >= -1 THEN ds' = "after" /\ UNCHANGED status
     ELSE IF actual_len' >= BufLen THEN ds' = "reply" /\ status' = 413
     ELSE ds' = "inner" /\ UNCHANGED status
  /\ UNCHANGED <<DispatchServerSignal, GameserverSignal, body, left, req, gone, past,
                 conns>>

(***************************************************************************)
(* recv returns some of what the client sends.  The parser is given the    *)
(* whole buffer (buf_len and not actual_len).                              *)
(***************************************************************************)
DsRecv ==
  /\ ds = "recv"
  /\ \E n \in 1..Len(stream) :
       /\ actual_len + n <= BufLen
       /\ stream' = SubSeq(stream, n + 1, Len(stream))
       /\ got' = Append(got, n)
       /\ pkt_buf' = Overlay(pkt_buf, actual_len, SubSeq(stream, 1, n))
       /\ actual_len' = actual_len + n
  /\ \E p \in phr_parse_request(pkt_buf', BufLen, actual_len', actual_len) :
       pret' = p[1] /\ meth' = p[2]
  /\ IF pret' >= -1 THEN ds' = "after" /\ UNCHANGED status
     ELSE IF actual_len' >= BufLen THEN ds' = "reply" /\ status' = 413
     ELSE ds' = "inner" /\ UNCHANGED status
  /\ UNCHANGED <<DispatchServerSignal, GameserverSignal, body, left, req, gone, past,
                 conns>>

\* recv returns 0: the connection is closed and the next one waited for.
DsRecvEnd ==
  /\ ds = "recv" /\ stream = <<>> /\ gone = "closed"
  /\ ds' = "loop" /\ Closed
  /\ UNCHANGED <<DispatchServerSignal, GameserverSignal, local>>

\* Mutant: an error of recv leaves the reading loop.
DsRecvFailsBreaks ==
  /\ ds = "recv" /\ stream = <<>> /\ gone = "reset"
  /\ gone' = "closed"
  /\ ds' = "after"
  /\ UNCHANGED <<DispatchServerSignal, GameserverSignal, local, req, stream, got, past,
                 conns>>

\* recv reports a reset once, and then the end of the stream.
DsRecvFails ==
  /\ ds = "recv" /\ stream = <<>> /\ gone = "reset"
  /\ gone' = "closed"
  /\ ds' = "inner"
  /\ UNCHANGED <<DispatchServerSignal, GameserverSignal, local, req, stream, got, past,
                 conns>>

\* Mutant: the request is not terminated in the buffer.
DsAfterUnterminated ==
  /\ ds = "after"
  /\ IF pret < 0
     THEN /\ status' = 400 /\ ds' = "reply"
          /\ UNCHANGED <<pkt_buf, body, past>>
     ELSE /\ UNCHANGED <<pkt_buf, past>>
          /\ \/ meth <= 0 /\ ds' = "dead" /\ UNCHANGED <<status, body>>
             \/ meth = -1 /\ ds' = "reply"
                /\ status' \in {200, 204, 400, 403, 404, 405} /\ body' \in {NULL, <<>>}
             \/ /\ meth > 0 /\ ds' = "reply"
                /\ status' = RouteStatus(pkt_buf'[meth], pkt_buf'[meth + 1])
                /\ body' = IF pkt_buf'[meth] = "POST" THEN StringAfter(pkt_buf', pret) ELSE NULL
  /\ UNCHANGED <<DispatchServerSignal, GameserverSignal, actual_len, pret, meth, left,
                 req, stream, gone, got, conns>>

(***************************************************************************)
(* After the reading loop: a refusal, or the request is terminated and     *)
(* routed.  A request that fills the buffer is terminated in the byte      *)
(* behind it, which may end the process.  meth is followed here, also when *)
(* the loop was left before anything was parsed.                           *)
(***************************************************************************)
DsAfter ==
  /\ ds = "after"
  /\ IF pret < 0
     THEN /\ status' = 400 /\ ds' = "reply"
          /\ UNCHANGED <<pkt_buf, body, past>>
     ELSE /\ past' = (actual_len = BufLen)
          /\ pkt_buf' = [i \in 1..BufLen |-> IF i = actual_len + 1 THEN "bad" ELSE pkt_buf[i]]
          /\ \/ (meth <= 0 \/ past') /\ ds' = "dead" /\ UNCHANGED <<status, body>>
             \/ meth = -1 /\ ds' = "reply"
                /\ status' \in {200, 204, 400, 403, 404, 405} /\ body' \in {NULL, <<>>}
             \/ /\ meth > 0 /\ ds' = "reply"
                /\ status' = RouteStatus(pkt_buf'[meth], pkt_buf'[meth + 1])
                /\ body' = IF pkt_buf'[meth] = "POST" THEN StringAfter(pkt_buf', pret) ELSE NULL
  /\ UNCHANGED <<DispatchServerSignal, GameserverSignal, actual_len, pret, meth, left,
                 req, stream, gone, got, conns>>

\* An SDK endpoint is served now, between the route and the response.
EndpointRuns == ds = "reply" /\ status = 200 /\ meth > 0 /\ pkt_buf[meth + 1] = "endpoint"

\* The response is written over the request.  The method is looked at again.
DsReply ==
  /\ ds = "reply"
  /\ \/ /\ meth <= 0
        /\ ds' = "dead"
        /\ UNCHANGED <<pkt_buf, actual_len, left>>
     \/ /\ meth # 0
        /\ \E m \in IF meth > 0 THEN {pkt_buf[meth]} ELSE {"GET", "HEAD"} :
           LET rsp == Response(m, status) IN
             /\ pkt_buf' = Overlay(pkt_buf, 0, Append(rsp, "bad"))
             /\ left' = Len(rsp)
        /\ actual_len' = 0
        /\ ds' = "send"
  /\ UNCHANGED <<DispatchServerSignal, GameserverSignal, pret, status, body, meth, conn>>

\* send takes some of it; after the last byte the connection is closed.
DsSend ==
  /\ ds = "send"
  /\ \E n \in {1, left} : left' = left - n /\ actual_len' = actual_len + n
  /\ IF left' = 0 THEN ds' = "loop" /\ Closed ELSE UNCHANGED <<ds, conn>>
  /\ UNCHANGED <<DispatchServerSignal, GameserverSignal, pkt_buf, pret, status, body, meth>>

\* send fails: SIGPIPE ends the process, or the loop closes the connection
\* and goes on with a descriptor that can never be written to.
DsSendFails ==
  /\ ds = "send" /\ gone # "no"
  /\ ds' \in {"dead", "spin"}
  /\ UNCHANGED <<DispatchServerSignal, GameserverSignal, local, conn>>

\* A signal handler that ran in this thread: recv and send return EINTR.
Interrupted(at) ==
  CASE at = "recv" -> "inner" [] at = "send" -> "spin" [] OTHER -> at

\* The client leaves, which only these two calls notice; what it had not
\* sent is never sent.
ClientLeaves ==
  /\ ds \in {"recv", "send"} /\ gone = "no"
  /\ gone' \in {"closed", "reset"}
  /\ stream' = <<>>
  /\ UNCHANGED <<ds, DispatchServerSignal, GameserverSignal, local, req, got, past, conns>>

\* What the thread does by itself, whatever the client does.
DsStep ==
  DsStart \/ DsLoop \/ DsNoConn \/ DsInner \/ DsRecvEnd \/ DsRecvFails
    \/ DsAfter \/ DsReply \/ DsSend

HttpNext == DsStep \/ DsAccept \/ DsRecv \/ DsSendFails \/ ClientLeaves

-----------------------------------------------------------------------------
DsLabels == {"none", "start", "loop", "select", "inner", "recv", "after",
             "reply", "send", "spin", "done", "dead"}

HttpTypeOK ==
  /\ ds \in DsLabels
  /\ DispatchServerSignal \in BOOLEAN /\ GameserverSignal \in BOOLEAN
  /\ pkt_buf \in [1..BufLen -> Cell]
  /\ actual_len \in 0..BufLen
  /\ pret \in -2..BufLen
  /\ status \in {200, 204, 400, 403, 404, 405, 413}
  /\ body = NULL \/ body \in Seq(Cell)
  /\ meth \in -1..2
  /\ left \in 0..BufLen
  /\ req \in Seq(Cell) /\ stream \in Seq(Cell)
  /\ gone \in {"no", "closed", "reset"}
  /\ got \in Seq(1..BufLen) /\ past \in BOOLEAN
  /\ conns \in 0..MaxConns

\* A request the parser takes, whose headers end with cell i, without a zero
\* byte behind them.
WellFormed(r, i) ==
  /\ r[Skip(r) + 1] \in Methods /\ r[Skip(r) + 2] \in Targets
  /\ i \in Headers(r)..(Headers(r) + MaxHdrs) /\ r[i] = "end"
  /\ \A j \in Headers(r)..(i - 1) : r[j] = "hdr"
  /\ \A j \in (i + 1)..Len(r) : r[j] # "bad"

\* One recv returned the whole request.
ReceivedWhole == got = <<Len(req)>>

\* The status is that of the request and the body what follows cell i of it.
Answered(i) ==
  LET m == Skip(req) + 1 IN
  /\ status = RouteStatus(req[m], req[m + 1])
  /\ body = IF req[m] = "POST" THEN SubSeq(req, i + 1, Len(req)) ELSE NULL

(***************************************************************************)
(* A request that one recv returns whole is answered for what it is: the   *)
(* status is that of its method and path and a POST handler reads exactly  *)
(* the body that came with it, whatever earlier requests and responses     *)
(* left in the static buffer, up to a request that fills the buffer to the *)
(* last byte (DispatchServerMain, recv to write_rsp).                      *)
(***************************************************************************)
AnswersOwnRequest ==
  ds = "send" /\ ReceivedWhole =>
    \A i \in 3..Len(req) : WellFormed(req, i) => Answered(i)

(***************************************************************************)
(* A request shorter than the buffer has room in it, in however many       *)
(* pieces it comes and whatever was read and sent before: it is never      *)
(* refused as too large, and its terminator is written inside pkt_buf.     *)
(* (dispatch.cpp:1475 writes pkt_buf[actual_len] without a test, so a      *)
(* request of exactly buf_len bytes is terminated outside of the array.)   *)
(***************************************************************************)
ShortRequestsFit ==
  ds \in {"reply", "send"} /\ Len(req) < BufLen => status # 413 /\ ~past

(***************************************************************************)
(* Until a stop is requested the route is taken only for what the parser   *)
(* accepted on this connection.  (When the signal ends the reading loop    *)
(* early, pret is still 0 and DispatchServerMain follows meth and path of  *)
(* an earlier connection, or pointers that were never set.)                *)
(***************************************************************************)
RoutedWasParsed ==
  ds = "after" /\ pret >= 0 /\ ~DispatchServerSignal => got # <<>> /\ meth > 0

(***************************************************************************)
(* dispatch.cpp:1459: "-1 means parse error, this is tested for outside    *)
(* the read loop in order to send a 400 response to the client".  The      *)
(* thread does not end the process over a request that was refused, while  *)
(* the client waits for the answer.                                        *)
(***************************************************************************)
RefusedIsAnswered == pret = -1 /\ gone = "no" => ds # "dead"
=============================================================================
