-------------------------------- MODULE Kcp ---------------------------------
(***************************************************************************)
(* The reliable transport under a session: src/src/kcp.c as KcpSession     *)
(* configures it (src/src/kcpsession.cpp: no stream mode, nodelay 1,       *)
(* congestion window off).  Both ends of the connection run the protocol;  *)
(* the client's end is the same code.  Each call of ikcp_send, ikcp_recv,  *)
(* ikcp_input and ikcp_flush is one step.                                  *)
(*                                                                         *)
(* Abstractions.  A queue ordered by sequence number (snd_buf, rcv_buf) is *)
(* a set of segments, and the acklist a set of numbers.  Every segment     *)
(* travels in a datagram of its own: ikcp_input treats a datagram of       *)
(* several as it treats them one after the other.  Time is not kept: which *)
(* segments ikcp_flush sends again (their RTO expired, or later ones were  *)
(* acknowledged often enough) and whether a window probe is due are free   *)
(* choices.  A session sends fewer than 2^31 segments, so that the         *)
(* comparisons of _itimediff are those of the integers.                    *)
(***************************************************************************)
EXTENDS Naturals, Sequences, FiniteSets

CONSTANTS
  ServerMsgs, ClientMsgs, \* bound: messages each end sends
  MaxFrags,               \* bound: fragments of the longest message tried
  WndRcv,                 \* IKCP_WND_RCV
  SndWnd, RcvWnd,         \* kcp->snd_wnd, kcp->rcv_wnd
  RecvBuf,                \* the buffer ikcp_recv is given, in fragments
  MaxFaults,              \* bound: datagrams lost or duplicated
  MaxNet                  \* bound: fewer in flight to the peer when flushing

Node == {"server", "client"}
Peer(n) == IF n = "server" THEN "client" ELSE "server"
MaxSent(n) == IF n = "server" THEN ServerMsgs ELSE ClientMsgs

\* ikcp_wndsize never makes rcv_wnd smaller than IKCP_WND_RCV.
ASSUME KcpAssumption ==
  /\ ServerMsgs \in Nat /\ ClientMsgs \in Nat /\ MaxFaults \in Nat
  /\ MaxNet \in Nat \ {0}
  /\ MaxFrags \in Nat \ {0} /\ RecvBuf \in Nat \ {0}
  /\ WndRcv \in Nat \ {0} /\ SndWnd \in Nat \ {0}
  /\ RcvWnd \in Nat /\ RcvWnd >= WndRcv

VARIABLES
  sndQueue, sndBuf, sndUna, sndNxt, \* the sending side of each end
  rcvQueue, rcvBuf, rcvNxt,         \* its receiving side
  acklist,                          \* numbers to acknowledge
  rmtWnd,                           \* the last window the other end told
  probe, probeWait,                 \* window probing
  net, faults,                      \* datagrams in flight; losses and copies
  sent, got                         \* history: messages sent and received

sndVars == <<sndQueue, sndBuf, sndUna, sndNxt, rmtWnd>>
rcvVars == <<rcvQueue, rcvBuf, rcvNxt, acklist>>
hisVars == <<sent, got>>
vars == <<sndVars, rcvVars, probe, probeWait, net, faults, hisVars>>

\* The i-th fragment of the k-th message that an end sends.
Payload == [msg : Nat, part : Nat]
Fragment == [frg : Nat, data : Payload]
Segment == [sn : Nat, frg : Nat, data : Payload]
Commands == {"ACK", "PUSH", "WASK", "WINS"}
NoSegment == [sn |-> 0, frg |-> 0, data |-> [msg |-> 0, part |-> 0]]
Datagram == [to : Node, cmd : Commands, wnd : 0..RcvWnd, una : Nat, seg : Segment]

\* Every variable stays within its declared shape.
TypeOK ==
  /\ sndQueue \in [Node -> Seq(Fragment)]
  /\ sndBuf \in [Node -> SUBSET Segment]
  /\ sndUna \in [Node -> Nat]
  /\ sndNxt \in [Node -> Nat]
  /\ rcvQueue \in [Node -> Seq(Fragment)]
  /\ rcvBuf \in [Node -> SUBSET Segment]
  /\ rcvNxt \in [Node -> Nat]
  /\ acklist \in [Node -> SUBSET Nat]
  /\ rmtWnd \in [Node -> 0..RcvWnd]
  /\ probe \in [Node -> SUBSET {"ASK_SEND", "ASK_TELL"}]
  /\ probeWait \in [Node -> BOOLEAN]
  /\ net \subseteq Datagram
  /\ faults \in 0..MaxFaults
  /\ sent \in [Node -> Seq(Seq(Payload))]
  /\ got \in [Node -> Seq(Seq(Payload))]

\* ikcp_create
Init ==
  /\ sndQueue = [n \in Node |-> <<>>]
  /\ sndBuf = [n \in Node |-> {}]
  /\ sndUna = [n \in Node |-> 0]
  /\ sndNxt = [n \in Node |-> 0]
  /\ rcvQueue = [n \in Node |-> <<>>]
  /\ rcvBuf = [n \in Node |-> {}]
  /\ rcvNxt = [n \in Node |-> 0]
  /\ acklist = [n \in Node |-> {}]
  /\ rmtWnd = [n \in Node |-> WndRcv]
  /\ probe = [n \in Node |-> {}]
  /\ probeWait = [n \in Node |-> FALSE]
  /\ net = {}
  /\ faults = 0
  /\ sent = [n \in Node |-> <<>>]
  /\ got = [n \in Node |-> <<>>]

-----------------------------------------------------------------------------
\* ikcp_send: cut message k into c fragments numbered c-1 down to 0.
Content(k, c) == [i \in 1..c |-> [msg |-> k, part |-> i]]
Fragments(k, c) == [i \in 1..c |-> [frg |-> c - i, data |-> [msg |-> k, part |-> i]]]

\* A message of IKCP_WND_RCV fragments or more is refused.
SendFits(c) == c < WndRcv

Send(n, c) ==
  /\ Len(sent[n]) < MaxSent(n)
  /\ SendFits(c)
  /\ LET k == Len(sent[n]) + 1 IN
       /\ sndQueue' = [sndQueue EXCEPT ![n] = @ \o Fragments(k, c)]
       /\ sent' = [sent EXCEPT ![n] = Append(@, Content(k, c))]
  /\ UNCHANGED <<sndBuf, sndUna, sndNxt, rmtWnd, rcvVars, probe, probeWait,
                 net, faults, got>>

-----------------------------------------------------------------------------
(***************************************************************************)
(* The receiving side.  Both ikcp_parse_data and ikcp_recv end by moving   *)
(* segments from rcv_buf to rcv_queue while the next number is there and   *)
(* the queue has room.                                                     *)
(***************************************************************************)
Numbers(buf) == {s.sn : s \in buf}
WithSn(buf, sn) == CHOOSE s \in buf : s.sn = sn
AsFragment(s) == [frg |-> s.frg, data |-> s.data]

\* How many segments move to a queue of length len.
Movable(len, buf, nxt) ==
  CHOOSE k \in 0..(RcvWnd - len) :
    /\ \A j \in 0..(k - 1) : nxt + j \in Numbers(buf)
    /\ k = RcvWnd - len \/ nxt + k \notin Numbers(buf)

\* End n continues with this rcv_queue and rcv_buf, after the move.
Move(n, queue, buf) ==
  LET nxt == rcvNxt[n]
      k == Movable(Len(queue), buf, nxt) IN
    /\ rcvQueue' = [rcvQueue EXCEPT
         ![n] = queue \o [j \in 1..k |-> AsFragment(WithSn(buf, nxt + j - 1))]]
    /\ rcvBuf' = [rcvBuf EXCEPT ![n] = {s \in buf : s.sn \notin nxt..(nxt + k - 1)}]
    /\ rcvNxt' = [rcvNxt EXCEPT ![n] = @ + k]

\* Mutant: a message is returned before its last fragment is there.
CompleteNow(n) == rcvQueue[n] # <<>>

\* ikcp_peeksize: how many fragments the message at the head of the queue
\* has; it is there as a whole when the queue holds that many.
HeadFrags(n) == rcvQueue[n][1].frg + 1
Complete(n) == rcvQueue[n] # <<>> /\ Len(rcvQueue[n]) >= HeadFrags(n)

\* The fragments up to the first one numbered 0.
HeadLength(n) ==
  CHOOSE k \in 1..Len(rcvQueue[n]) :
    /\ rcvQueue[n][k].frg = 0 \/ k = Len(rcvQueue[n])
    /\ \A j \in 1..(k - 1) : rcvQueue[n][j].frg # 0

\* ikcp_recv: take a whole message that fits the buffer.
Recv(n) ==
  /\ Complete(n) /\ HeadFrags(n) <= RecvBuf
  /\ LET k == HeadLength(n)
         recover == Len(rcvQueue[n]) >= RcvWnd IN
       /\ got' = [got EXCEPT ![n] = Append(@, [i \in 1..k |-> rcvQueue[n][i].data])]
       /\ Move(n, SubSeq(rcvQueue[n], k + 1, Len(rcvQueue[n])), rcvBuf[n])
       /\ probe' = [probe EXCEPT
            ![n] = IF recover /\ Len(rcvQueue'[n]) < RcvWnd
                   THEN @ \cup {"ASK_TELL"} ELSE @]
  /\ UNCHANGED <<sndVars, acklist, probeWait, net, faults, sent>>

-----------------------------------------------------------------------------
(***************************************************************************)
(* ikcp_input.  The network delivers datagram d; when it keeps a copy, d   *)
(* will arrive again.                                                      *)
(***************************************************************************)
Arrive(d) ==
  /\ d \in net
  /\ \/ net' = net \ {d} /\ faults' = faults
     \/ net' = net /\ faults < MaxFaults /\ faults' = faults + 1

\* ikcp_shrink_buf: the number of the oldest segment still unacknowledged.
Unacked(buf, nxt) ==
  IF buf = {} THEN nxt ELSE (CHOOSE s \in buf : \A t \in buf : s.sn <= t.sn).sn

\* The fields every segment has: window, una (ikcp_parse_una) and, in an
\* ACK, the numbers of acked (ikcp_parse_ack).
Acknowledge(n, d, acked) ==
  LET buf == {s \in sndBuf[n] : s.sn >= d.una /\ s.sn \notin acked} IN
    /\ rmtWnd' = [rmtWnd EXCEPT ![n] = d.wnd]
    /\ sndBuf' = [sndBuf EXCEPT ![n] = buf]
    /\ sndUna' = [sndUna EXCEPT ![n] = Unacked(buf, sndNxt[n])]
    /\ UNCHANGED <<sndQueue, sndNxt>>

InputAck(d) ==
  /\ d.cmd = "ACK" /\ Arrive(d)
  /\ Acknowledge(d.to, d, {d.seg.sn})
  /\ UNCHANGED <<rcvVars, probe, probeWait, hisVars>>

\* Segments behind the window are acknowledged again, those beyond it not.
Acked(n, sn) == sn < rcvNxt[n] + RcvWnd

\* Mutant: segments that were received before are stored again.
StoredAgain(n, sn) == sn < rcvNxt[n] + RcvWnd

\* Mutant: a segment that is not the next one is acknowledged and dropped.
StoredInOrder(n, sn) == sn = rcvNxt[n]

\* ikcp_parse_data stores the segments of the window.
Stored(n, sn) == rcvNxt[n] <= sn /\ sn < rcvNxt[n] + RcvWnd

InputPush(d) ==
  /\ d.cmd = "PUSH" /\ Arrive(d)
  /\ Acknowledge(d.to, d, {})
  /\ LET n == d.to
         sn == d.seg.sn IN
       /\ acklist' = [acklist EXCEPT ![n] = IF Acked(n, sn) THEN @ \cup {sn} ELSE @]
       /\ \/ /\ Stored(n, sn)
             /\ Move(n, rcvQueue[n],
                     IF sn \in Numbers(rcvBuf[n]) THEN rcvBuf[n]
                     ELSE rcvBuf[n] \cup {d.seg})
          \/ ~Stored(n, sn) /\ UNCHANGED <<rcvQueue, rcvBuf, rcvNxt>>
  /\ UNCHANGED <<probe, probeWait, hisVars>>

InputWask(d) ==
  /\ d.cmd = "WASK" /\ Arrive(d)
  /\ Acknowledge(d.to, d, {})
  /\ probe' = [probe EXCEPT ![d.to] = @ \cup {"ASK_TELL"}]
  /\ UNCHANGED <<rcvVars, probeWait, hisVars>>

InputWins(d) ==
  /\ d.cmd = "WINS" /\ Arrive(d)
  /\ Acknowledge(d.to, d, {})
  /\ UNCHANGED <<rcvVars, probe, probeWait, hisVars>>

Input(d) == InputAck(d) \/ InputPush(d) \/ InputWask(d) \/ InputWins(d)

-----------------------------------------------------------------------------
\* Mutant: one segment too many is offered.
WndOver(n) == RcvWnd + 1 - Len(rcvQueue[n])

\* ikcp_wnd_unused
WndUnused(n) == IF Len(rcvQueue[n]) < RcvWnd THEN RcvWnd - Len(rcvQueue[n]) ELSE 0

\* A segment as ikcp_flush of end n encodes it.
Encode(n, cmd, s) ==
  [to |-> Peer(n), cmd |-> cmd, wnd |-> WndUnused(n), una |-> rcvNxt[n], seg |-> s]

\* Mutant: the zero window is never probed.
ProbeNever(n, due) == {}

\* A probe is sent when the remote window is still zero and the wait is over.
AskSend(n, due) ==
  IF rmtWnd[n] = 0 /\ probeWait[n] /\ due THEN {"ASK_SEND"} ELSE {}

\* How many segments move from snd_queue to snd_buf.
Sendable(n) ==
  LET cwnd == IF SndWnd < rmtWnd[n] THEN SndWnd ELSE rmtWnd[n]
      room == IF sndNxt[n] < sndUna[n] + cwnd THEN sndUna[n] + cwnd - sndNxt[n] ELSE 0
  IN IF room < Len(sndQueue[n]) THEN room ELSE Len(sndQueue[n])

\* ikcp_flush: acknowledgements, probes, new segments, and again the
\* segments of snd_buf numbered in `again'.
Flush(n, again, due) ==
  /\ again \subseteq Numbers(sndBuf[n])
  /\ Cardinality({d \in net : d.to = Peer(n)}) < MaxNet
  /\ LET k == Sendable(n)
         probes == probe[n] \cup AskSend(n, due)
         new == {[sn |-> sndNxt[n] + i - 1, frg |-> sndQueue[n][i].frg,
                  data |-> sndQueue[n][i].data] : i \in 1..k}
         old == {s \in sndBuf[n] : s.sn \in again} IN
       /\ net' = net
            \cup {Encode(n, "ACK", [NoSegment EXCEPT !.sn = sn]) : sn \in acklist[n]}
            \cup (IF "ASK_SEND" \in probes THEN {Encode(n, "WASK", NoSegment)} ELSE {})
            \cup (IF "ASK_TELL" \in probes THEN {Encode(n, "WINS", NoSegment)} ELSE {})
            \cup {Encode(n, "PUSH", s) : s \in new \cup old}
       /\ sndBuf' = [sndBuf EXCEPT ![n] = @ \cup new]
       /\ sndQueue' = [sndQueue EXCEPT ![n] = SubSeq(@, k + 1, Len(@))]
       /\ sndNxt' = [sndNxt EXCEPT ![n] = @ + k]
  /\ acklist' = [acklist EXCEPT ![n] = {}]
  /\ probe' = [probe EXCEPT ![n] = {}]
  /\ probeWait' = [probeWait EXCEPT ![n] = (rmtWnd[n] = 0)]
  /\ UNCHANGED <<sndUna, rmtWnd, rcvQueue, rcvBuf, rcvNxt, faults, hisVars>>

\* The network loses a datagram.
Lose(d) ==
  /\ d \in net /\ faults < MaxFaults
  /\ net' = net \ {d}
  /\ faults' = faults + 1
  /\ UNCHANGED <<sndVars, rcvVars, probe, probeWait, hisVars>>

Next ==
  \/ \E n \in Node :
       \/ \E c \in 1..MaxFrags : Send(n, c)
       \/ Recv(n)
       \/ \E again \in SUBSET Numbers(sndBuf[n]), due \in BOOLEAN : Flush(n, again, due)
  \/ \E d \in net : Input(d) \/ Lose(d)

Spec == Init /\ [][Next]_vars

(***************************************************************************)
(* Fairness.  Both ends call ikcp_recv and ikcp_update periodically for    *)
(* ever (SessionMain does so every 50 ms), an RTO or a probe wait runs     *)
(* out, and datagrams that are not lost arrive.  At most MaxFaults         *)
(* datagrams are lost or duplicated.                                       *)
(***************************************************************************)
Max(a, b) == IF a < b THEN b ELSE a
SnBound == 0..(Max(ServerMsgs, ClientMsgs) * MaxFrags)
Resend(n, sn) ==
  \E again \in SUBSET Numbers(sndBuf[n]), due \in BOOLEAN :
    sn \in again /\ Flush(n, again, due)
FlushDue(n) == \E again \in SUBSET Numbers(sndBuf[n]) : Flush(n, again, TRUE)
Deliver(n, cmd, sn) ==
  \E d \in net : d.to = n /\ d.cmd = cmd /\ d.seg.sn = sn /\ Input(d)

Fairness ==
  \A n \in Node :
    /\ WF_vars(Recv(n))
    /\ WF_vars(FlushDue(n))
    /\ \A sn \in SnBound :
         /\ WF_vars(Resend(n, sn))
         /\ \A cmd \in Commands : WF_vars(Deliver(n, cmd, sn))

FairSpec == Spec /\ Fairness

-----------------------------------------------------------------------------
(***************************************************************************)
(* KCP implements the channel: the messages ikcp_recv returns are, one by  *)
(* one, the whole messages the other end gave to ikcp_send, in that order, *)
(* whatever was lost, duplicated or reordered on the way.                  *)
(***************************************************************************)
Messages ==
  {Content(k, c) : k \in 1..Max(ServerMsgs, ClientMsgs), c \in 1..MaxFrags}
Chan == INSTANCE Channel WITH Message <- Messages
ImplementsChannel == Chan!Spec

(***************************************************************************)
(* Memory is bounded by the windows: rcv_queue and rcv_buf never hold more *)
(* than rcv_wnd segments, rcv_buf holds only segments of the current       *)
(* window (none that was handed on already), and no more than snd_wnd      *)
(* numbers are in flight, however the peer's window shrinks meanwhile.     *)
(***************************************************************************)
WindowsRespected ==
  \A n \in Node :
    /\ Len(rcvQueue[n]) <= RcvWnd
    /\ \A s \in rcvBuf[n] : rcvNxt[n] <= s.sn /\ s.sn < rcvNxt[n] + RcvWnd
    /\ \A s, t \in rcvBuf[n] : s.sn = t.sn => s = t
    /\ sndNxt[n] <= sndUna[n] + SndWnd

(***************************************************************************)
(* A segment leaves snd_buf only when the other end has it for good: one   *)
(* that was sent and is no longer kept for retransmission is in the peer's *)
(* rcv_buf or behind its rcv_nxt (ikcp_parse_ack, ikcp_parse_una against   *)
(* what ikcp_input acknowledges).                                          *)
(***************************************************************************)
AckedIsKept ==
  \A n \in Node : \A sn \in 0..(sndNxt[n] - 1) :
    \/ sn \in Numbers(sndBuf[n])
    \/ sn < rcvNxt[Peer(n)]
    \/ sn \in Numbers(rcvBuf[Peer(n)])

(***************************************************************************)
(* Every message gets through: once sent it is received, as long as no     *)
(* message before it is too long for the buffer ikcp_recv is given, also   *)
(* when the receive window fills up, closes, and the datagram that tells   *)
(* of its reopening is lost (ikcp_flush: retransmission and probing).      *)
(***************************************************************************)
EveryMessageArrives ==
  \A n \in Node : \A k \in 1..Max(ServerMsgs, ClientMsgs) :
    (Len(sent[n]) >= k /\ \A i \in 1..k : Len(sent[n][i]) <= RecvBuf)
      ~> (Len(got[Peer(n)]) >= k)
=============================================================================
