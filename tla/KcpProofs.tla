----------------------------- MODULE KcpProofs ------------------------------
(***************************************************************************)
(* The safety properties of Kcp and that it implements Channel, proved for *)
(* every window, any number and length of messages, any number of losses   *)
(* and duplicates, and datagrams that arrive in any order.                 *)
(***************************************************************************)
EXTENDS Kcp, Induction, SequenceTheorems

\* The shapes of the sending side, the receiving side and the network.
SndType ==
  /\ sndQueue \in [Node -> Seq(Fragment)]
  /\ sndBuf \in [Node -> SUBSET Segment]
  /\ sndUna \in [Node -> Nat]
  /\ sndNxt \in [Node -> Nat]
  /\ rmtWnd \in [Node -> 0..RcvWnd]

RcvType ==
  /\ rcvQueue \in [Node -> Seq(Fragment)]
  /\ rcvBuf \in [Node -> SUBSET Segment]
  /\ rcvNxt \in [Node -> Nat]

NetType ==
  /\ acklist \in [Node -> SUBSET Nat]
  /\ probe \in [Node -> SUBSET {"ASK_SEND", "ASK_TELL"}]
  /\ probeWait \in [Node -> BOOLEAN]
  /\ net \subseteq Datagram
  /\ faults \in 0..MaxFaults

HisType ==
  /\ sent \in [Node -> Seq(Seq(Payload))]
  /\ got \in [Node -> Seq(Seq(Payload))]

\* The numbers of snd_buf lie between snd_una and snd_nxt, not further apart
\* than snd_wnd.
SndOK(n) ==
  /\ sndUna[n] <= sndNxt[n]
  /\ sndNxt[n] <= sndUna[n] + SndWnd
  /\ \A s \in sndBuf[n] : sndUna[n] <= s.sn /\ s.sn < sndNxt[n]

\* Segments of the window that starts at nxt, each number once.
Window(buf, nxt) ==
  /\ \A s \in buf : nxt <= s.sn /\ s.sn < nxt + RcvWnd
  /\ \A s, t \in buf : s.sn = t.sn => s = t

RcvOK(n) ==
  /\ Len(rcvQueue[n]) <= RcvWnd
  /\ Window(rcvBuf[n], rcvNxt[n])

WinInv == TypeOK /\ \A n \in Node : SndOK(n) /\ RcvOK(n)

\* End n has segment sn, and will not receive it again.
HasSegment(n, sn) == sn < rcvNxt[n] \/ sn \in Numbers(rcvBuf[n])

\* What an end acknowledges, and what is said in its name on the network, it
\* has.
AcksOK ==
  /\ \A n \in Node : \A sn \in acklist[n] : HasSegment(n, sn)
  /\ \A d \in net :
       /\ d.una <= rcvNxt[Peer(d.to)]
       /\ d.cmd = "ACK" => HasSegment(Peer(d.to), d.seg.sn)

KeepInv == AcksOK /\ AckedIsKept

\* Messages ms, cut into fragments, are the stream st; the k-th begins behind
\* at[k] fragments.
Layout(ms, st, at) ==
  /\ at[1] = 0
  /\ at[Len(ms) + 1] = Len(st)
  /\ \A k \in 1..Len(ms) :
       /\ ms[k] = Content(k, Len(ms[k]))
       /\ Len(ms[k]) > 0
       /\ at[k + 1] = at[k] + Len(ms[k])
       /\ \A i \in 1..Len(ms[k]) :
            /\ at[k] + i <= Len(st)
            /\ st[at[k] + i] = [frg |-> Len(ms[k]) - i, data |-> [msg |-> k, part |-> i]]

\* Segment s is the one of the stream that has its number.
InStream(s, st, nxt) == s.sn < nxt /\ AsFragment(s) = st[s.sn + 1]

\* All that end n sends its peer is on its way as the stream st: not yet
\* numbered, kept, in flight, stored, queued, or received as whole messages.
Direction(n, st, at) ==
  /\ Layout(sent[n], st, at)
  /\ Len(st) = sndNxt[n] + Len(sndQueue[n])
  /\ \A i \in 1..Len(sndQueue[n]) : sndQueue[n][i] = st[sndNxt[n] + i]
  /\ \A s \in sndBuf[n] : InStream(s, st, sndNxt[n])
  /\ \A d \in net : d.to = Peer(n) /\ d.cmd = "PUSH" => InStream(d.seg, st, sndNxt[n])
  /\ \A s \in rcvBuf[Peer(n)] : InStream(s, st, sndNxt[n])
  /\ Len(got[Peer(n)]) <= Len(sent[n])
  /\ rcvNxt[Peer(n)] <= sndNxt[n]
  /\ rcvNxt[Peer(n)] = at[Len(got[Peer(n)]) + 1] + Len(rcvQueue[Peer(n)])
  /\ \A i \in 1..Len(rcvQueue[Peer(n)]) :
       rcvQueue[Peer(n)][i] = st[at[Len(got[Peer(n)]) + 1] + i]

StreamInv ==
  \A n \in Node :
    \E st \in Seq(Fragment) : \E at \in [1..(Len(sent[n]) + 1) -> Nat] : Direction(n, st, at)

-----------------------------------------------------------------------------
(***************************************************************************)
(* The operators of the module.                                            *)
(***************************************************************************)
\* Each end is the peer of the other one.
LEMMA Peers == \A n \in Node : Peer(n) \in Node /\ Peer(n) # n /\ Peer(Peer(n)) = n
               /\ \A m \in Node : m = n \/ m = Peer(n)
BY DEF Node, Peer

\* A number that is in a buffer is found there.
LEMMA WithSnFinds ==
  ASSUME NEW buf, NEW sn \in Numbers(buf)
  PROVE  WithSn(buf, sn) \in buf /\ WithSn(buf, sn).sn = sn
<1>1. \E s \in buf : s.sn = sn
  BY DEF Numbers
<1> QED
  BY <1>1 DEF WithSn

\* The loop that moves segments ends, and moves a run without a gap that
\* fits the queue.
LEMMA MovableRun ==
  ASSUME NEW len \in 0..RcvWnd, NEW buf, NEW nxt \in Nat
  PROVE  /\ Movable(len, buf, nxt) \in 0..(RcvWnd - len)
         /\ \A j \in 0..(Movable(len, buf, nxt) - 1) : nxt + j \in Numbers(buf)
<1> USE KcpAssumption
<1> DEFINE room == RcvWnd - len
           End(k) == k = room \/ nxt + k \notin Numbers(buf)
           T == {k \in 0..room : End(k)}
<1>1. room \in Nat /\ room \in T
  OBVIOUS
<1>2. T \in SUBSET Nat /\ T # {}
  <2>1. T # {}
    BY <1>1
  <2>2. \A k \in T : k \in Nat
    BY <1>1
  <2> QED
    BY <2>1, <2>2
<1>3. PICK m \in T : \A k \in T : m <= k
  BY <1>2, LeastElement
<1>4. \A j \in 0..(m - 1) : nxt + j \in Numbers(buf)
  <2> SUFFICES ASSUME NEW j \in 0..(m - 1), nxt + j \notin Numbers(buf)
               PROVE  FALSE
    OBVIOUS
  <2>1. j \in T
    BY <1>1, <1>3
  <2> QED
    BY <1>1, <1>3, <2>1
<1>5. \E k \in 0..room : /\ \A j \in 0..(k - 1) : nxt + j \in Numbers(buf)
                         /\ End(k)
  BY <1>3, <1>4
<1> QED
  BY <1>5 DEF Movable

\* An index with no successor in the range is its end.
LEMMA LastIndex ==
  ASSUME NEW l \in Nat, NEW j \in 0..l, ~(j + 1 <= l)
  PROVE  j = l
OBVIOUS

\* r is s1 with s2, of c elements, added to its end.
Added(r, s1, s2, c) ==
  /\ r \in Seq(Fragment)
  /\ Len(r) = Len(s1) + c
  /\ \A i \in 1..(Len(s1) + c) : r[i] = IF i <= Len(s1) THEN s1[i] ELSE s2[i - Len(s1)]

\* That is what concatenation makes.
LEMMA AddLast ==
  ASSUME NEW s1 \in Seq(Fragment), NEW s2 \in Seq(Fragment), NEW c, Len(s2) = c
  PROVE  Added(s1 \o s2, s1, s2, c)
BY ConcatProperties, Zenon DEF Added

\* The first k elements of a sequence are taken off.
LEMMA DropFirst ==
  ASSUME NEW S, NEW q \in Seq(S), NEW k \in 0..Len(q)
  PROVE  /\ SubSeq(q, k + 1, Len(q)) \in Seq(S)
         /\ Len(SubSeq(q, k + 1, Len(q))) = Len(q) - k
         /\ \A i \in 1..(Len(q) - k) : SubSeq(q, k + 1, Len(q))[i] = q[k + i]
<1>1. Len(q) \in Nat /\ q \in [1..Len(q) -> S]
  BY LenProperties
<1>2. \A i \in (k + 1)..Len(q) : q[i] \in S
  BY <1>1
<1>3. k + 1 \in Int /\ Len(q) \in Int
  BY <1>1
<1> DEFINE r == SubSeq(q, k + 1, Len(q))
<1>4. /\ r \in Seq(S)
      /\ Len(r) = IF k + 1 <= Len(q) THEN Len(q) - (k + 1) + 1 ELSE 0
      /\ \A i \in 1..(Len(q) - (k + 1) + 1) : r[i] = q[(k + 1) + i - 1]
  BY <1>2, <1>3, SubSeqProperties
<1> HIDE DEF r
<1>5. Len(r) = Len(q) - k
  <2>1. CASE k + 1 <= Len(q)
    BY <1>1, <1>4, <2>1
  <2>2. CASE ~(k + 1 <= Len(q))
    <3>1. Len(r) = 0
      BY <1>4, <2>2
    <3>3. k = Len(q)
      BY <1>1, <2>2, LastIndex, Zenon
    <3> QED
      BY <1>1, <3>1, <3>3
  <2> QED
    BY <2>1, <2>2
<1>6. ASSUME NEW i \in 1..(Len(q) - k)
      PROVE  r[i] = q[k + i]
  <2>1. i \in 1..(Len(q) - (k + 1) + 1) /\ (k + 1) + i - 1 = k + i
    BY <1>1
  <2> QED
    BY <1>4, <2>1
<1> QED
  BY <1>4, <1>5, <1>6 DEF r

\* Moving leaves queue q: k segments, which follow what was handed on without
\* a gap, leave the buffer for the queue, and rcv_nxt counts them.
Moved(n, queue, buf, k, q) ==
  /\ rcvQueue' = [rcvQueue EXCEPT ![n] = q]
  /\ rcvBuf' = [rcvBuf EXCEPT ![n] = {s \in buf : s.sn \notin rcvNxt[n]..(rcvNxt[n] + k - 1)}]
  /\ rcvNxt' = [rcvNxt EXCEPT ![n] = @ + k]
  /\ Len(q) = Len(queue) + k
  /\ \A i \in 1..Len(queue) : q[i] = queue[i]
  /\ \A j \in 1..k : \E s \in buf :
       s.sn = rcvNxt[n] + j - 1 /\ q[Len(queue) + j] = AsFragment(s)

\* This is what ikcp_parse_data and ikcp_recv do when they move segments.
LEMMA Moves ==
  ASSUME TypeOK, NEW n \in Node, NEW queue \in Seq(Fragment), Len(queue) <= RcvWnd,
         NEW buf \in SUBSET Segment, Move(n, queue, buf)
  PROVE  \E k \in 0..(RcvWnd - Len(queue)), q \in Seq(Fragment) : Moved(n, queue, buf, k, q)
<1> USE KcpAssumption
<1> DEFINE nxt == rcvNxt[n]
           k == Movable(Len(queue), buf, nxt)
           tail == [j \in 1..k |-> AsFragment(WithSn(buf, nxt + j - 1))]
           q == queue \o tail
<1>1. nxt \in Nat /\ Len(queue) \in Nat /\ Len(queue) \in 0..RcvWnd
  BY LenProperties DEF TypeOK
<1>2. k \in 0..(RcvWnd - Len(queue)) /\ \A j \in 0..(k - 1) : nxt + j \in Numbers(buf)
  BY <1>1, MovableRun
<1>3. /\ rcvQueue' = [rcvQueue EXCEPT ![n] = q]
      /\ rcvBuf' = [rcvBuf EXCEPT ![n] = {s \in buf : s.sn \notin nxt..(nxt + k - 1)}]
      /\ rcvNxt' = [rcvNxt EXCEPT ![n] = @ + k]
  BY DEF Move
<1> HIDE DEF k
<1>4. ASSUME NEW j \in 1..k
      PROVE  \E s \in buf : s.sn = nxt + j - 1 /\ AsFragment(WithSn(buf, nxt + j - 1)) = AsFragment(s)
  <2>1. j - 1 \in 0..(k - 1) /\ nxt + (j - 1) = nxt + j - 1
    BY <1>1, <1>2
  <2>2. nxt + j - 1 \in Numbers(buf)
    BY <1>2, <2>1
  <2> QED
    BY <2>2, WithSnFinds
<1>5. \A s \in Segment : AsFragment(s) \in Fragment
  BY DEF AsFragment, Segment, Fragment
<1>6. \A j \in 1..k : AsFragment(WithSn(buf, nxt + j - 1)) \in Fragment
  BY <1>4, <1>5
<1>7. tail \in Seq(Fragment) /\ Len(tail) = k
  <2>1. k \in Nat /\ tail \in [1..k -> Fragment]
    BY <1>1, <1>2, <1>6
  <2> QED
    BY <2>1, SeqDef
<1> HIDE DEF tail
<1>8. /\ q \in Seq(Fragment)
      /\ Len(q) = Len(queue) + k
      /\ \A i \in 1..(Len(queue) + k) : q[i] = IF i <= Len(queue) THEN queue[i] ELSE tail[i - Len(queue)]
  BY <1>7, ConcatProperties, ZenonT(60)
<1>9. \A i \in 1..Len(queue) : q[i] = queue[i]
  BY <1>1, <1>2, <1>8
<1>10. \A j \in 1..k : q[Len(queue) + j] = tail[j]
  BY <1>1, <1>2, <1>8
<1> HIDE DEF q
<1>11. \A j \in 1..k : \E s \in buf : s.sn = nxt + j - 1 /\ q[Len(queue) + j] = AsFragment(s)
  BY <1>4, <1>10 DEF tail
<1> QED
  BY <1>2, <1>3, <1>8, <1>9, <1>11 DEF Moved

\* Taking the oldest unacknowledged number from snd_buf never moves snd_una
\* back and keeps it within what was sent.
LEMMA UnackedBetween ==
  ASSUME NEW buf \in SUBSET Segment, NEW una \in Nat, NEW nxt \in Nat, una <= nxt,
         \A s \in buf : una <= s.sn /\ s.sn < nxt
  PROVE  /\ Unacked(buf, nxt) \in Nat
         /\ una <= Unacked(buf, nxt) /\ Unacked(buf, nxt) <= nxt
         /\ \A s \in buf : Unacked(buf, nxt) <= s.sn
<1>1. CASE buf = {}
  BY <1>1 DEF Unacked
<1>2. CASE buf # {}
  <2>1. Numbers(buf) \in SUBSET Nat /\ Numbers(buf) # {}
    BY <1>2 DEF Numbers, Segment
  <2>2. PICK m \in Numbers(buf) : \A k \in Numbers(buf) : m <= k
    BY <2>1, LeastElement
  <2>3. \E s \in buf : \A t \in buf : s.sn <= t.sn
    BY <2>2 DEF Numbers
  <2> DEFINE o == CHOOSE s \in buf : \A t \in buf : s.sn <= t.sn
  <2>4. o \in buf /\ \A t \in buf : o.sn <= t.sn
    BY <2>3
  <2>5. Unacked(buf, nxt) = o.sn
    BY <1>2 DEF Unacked
  <2> HIDE DEF o
  <2>6. o.sn \in Nat /\ una <= o.sn /\ o.sn < nxt
    BY <2>4 DEF Segment
  <2> QED
    BY <2>4, <2>5, <2>6
<1> QED
  BY <1>1, <1>2

-----------------------------------------------------------------------------
(***************************************************************************)
(* Types and windows.                                                      *)
(***************************************************************************)
\* The type invariant by its parts.
LEMMA TypeParts == TypeOK <=> SndType /\ RcvType /\ NetType /\ HisType
BY DEF TypeOK, SndType, RcvType, NetType, HisType

\* The same after a step.
LEMMA TypePartsNext == SndType' /\ RcvType' /\ NetType' /\ HisType' => TypeOK'
BY DEF TypeOK, SndType, RcvType, NetType, HisType

\* ikcp_create.
LEMMA WinInit == Init => WinInv
<1> SUFFICES ASSUME Init
             PROVE  WinInv
  OBVIOUS
<1> USE KcpAssumption
<1>1. <<>> \in Seq(Fragment) /\ Len(<<>>) = 0 /\ <<>> \in Seq(Seq(Payload))
  BY EmptySeq
<1>2. SndType /\ \A n \in Node : SndOK(n)
  BY <1>1 DEF Init, SndType, SndOK
<1>3. RcvType /\ \A n \in Node : RcvOK(n)
  BY <1>1 DEF Init, RcvType, RcvOK, Window
<1>4. NetType
  BY DEF Init, NetType
<1>5. HisType
  BY <1>1 DEF Init, HisType
<1> QED
  BY <1>2, <1>3, <1>4, <1>5, TypeParts DEF WinInv

\* Moving keeps the receive window: the queue does not outgrow it and nothing
\* that was handed on stays in the buffer.
LEMMA WinMove ==
  ASSUME WinInv, NEW n \in Node, NEW queue \in Seq(Fragment), Len(queue) <= RcvWnd,
         NEW buf \in SUBSET Segment, Window(buf, rcvNxt[n]), Move(n, queue, buf)
  PROVE  RcvType' /\ \A m \in Node : RcvOK(m)'
<1> USE KcpAssumption
<1>1. TypeOK /\ RcvType
  BY TypeParts DEF WinInv
<1>a. PICK k \in 0..(RcvWnd - Len(queue)), q \in Seq(Fragment) : Moved(n, queue, buf, k, q)
  BY <1>1, Moves
<1> DEFINE nxt == rcvNxt[n]
           rest == {s \in buf : s.sn \notin nxt..(nxt + k - 1)}
<1>2. /\ rcvQueue' = [rcvQueue EXCEPT ![n] = q]
      /\ rcvBuf' = [rcvBuf EXCEPT ![n] = rest]
      /\ rcvNxt' = [rcvNxt EXCEPT ![n] = @ + k]
      /\ Len(q) = Len(queue) + k
  BY <1>a DEF Moved
<1>3. nxt \in Nat /\ Len(queue) \in Nat /\ k \in Nat
  BY <1>1, LenProperties DEF RcvType
<1>4. rest \in SUBSET Segment
  OBVIOUS
<1>5. RcvType'
  BY <1>1, <1>2, <1>3, <1>4 DEF RcvType
<1>6. Window(rest, nxt + k)
  <2>1. ASSUME NEW s \in rest
        PROVE  nxt + k <= s.sn /\ s.sn < nxt + k + RcvWnd
    <3>1. s.sn \in Nat /\ nxt <= s.sn /\ s.sn < nxt + RcvWnd /\ ~(nxt <= s.sn /\ s.sn <= nxt + k - 1)
      BY <1>3, <2>1 DEF Window, Segment
    <3> QED
      BY <1>3, <3>1, SMTT(60)
  <2> QED
    BY <2>1 DEF Window
<1>7. ASSUME NEW m \in Node
      PROVE  RcvOK(m)'
  <2>1. CASE m = n
    <3>1. rcvQueue'[m] = q /\ rcvBuf'[m] = rest /\ rcvNxt'[m] = nxt + k
      BY <1>1, <1>2, <2>1 DEF RcvType
    <3>2. Len(q) <= RcvWnd
      BY <1>2, <1>3
    <3> QED
      BY <1>6, <3>1, <3>2 DEF RcvOK
  <2>2. CASE m # n
    <3>1. rcvQueue'[m] = rcvQueue[m] /\ rcvBuf'[m] = rcvBuf[m] /\ rcvNxt'[m] = rcvNxt[m]
      BY <1>1, <1>2, <2>2 DEF RcvType
    <3> QED
      BY <3>1 DEF WinInv, RcvOK
  <2> QED
    BY <2>1, <2>2
<1> QED
  BY <1>5, <1>7

\* ikcp_parse_una, ikcp_parse_ack and ikcp_shrink_buf keep the send window.
LEMMA WinAcknowledge ==
  ASSUME WinInv, NEW d \in net, NEW acked, Acknowledge(d.to, d, acked)
  PROVE  SndType' /\ \A m \in Node : SndOK(m)'
<1> USE KcpAssumption
<1> DEFINE n == d.to
           buf == {s \in sndBuf[n] : s.sn >= d.una /\ s.sn \notin acked}
           una == Unacked(buf, sndNxt[n])
<1>1. SndType /\ NetType /\ d \in Datagram
  BY TypeParts DEF WinInv, NetType
<1>2. n \in Node /\ d.wnd \in 0..RcvWnd
  BY <1>1 DEF Datagram
<1>3. sndBuf[n] \in SUBSET Segment /\ sndUna[n] \in Nat /\ sndNxt[n] \in Nat
  BY <1>1, <1>2 DEF SndType
<1>4. SndOK(n)
  BY <1>2 DEF WinInv
<1>5. buf \in SUBSET Segment /\ buf \subseteq sndBuf[n]
  BY <1>3
<1>6. /\ una \in Nat /\ sndUna[n] <= una /\ una <= sndNxt[n]
      /\ \A s \in buf : una <= s.sn
  BY <1>3, <1>4, <1>5, UnackedBetween DEF SndOK
<1>7. /\ rmtWnd' = [rmtWnd EXCEPT ![n] = d.wnd]
      /\ sndBuf' = [sndBuf EXCEPT ![n] = buf]
      /\ sndUna' = [sndUna EXCEPT ![n] = una]
      /\ sndQueue' = sndQueue /\ sndNxt' = sndNxt
  BY DEF Acknowledge
<1> HIDE DEF buf, una
<1>8. SndType'
  BY <1>1, <1>2, <1>5, <1>6, <1>7 DEF SndType
<1>9. ASSUME NEW m \in Node
      PROVE  SndOK(m)'
  <2>1. CASE m = n
    <3>1. sndBuf'[m] = buf /\ sndUna'[m] = una /\ sndNxt'[m] = sndNxt[n]
      BY <1>1, <1>2, <1>7, <2>1 DEF SndType
    <3>2. sndNxt[n] <= una + SndWnd
      BY <1>3, <1>4, <1>6 DEF SndOK
    <3> QED
      BY <1>4, <1>5, <1>6, <3>1, <3>2 DEF SndOK
  <2>2. CASE m # n
    <3>1. sndBuf'[m] = sndBuf[m] /\ sndUna'[m] = sndUna[m] /\ sndNxt'[m] = sndNxt[m]
      BY <1>1, <1>2, <1>7, <2>2 DEF SndType
    <3> QED
      BY <3>1 DEF WinInv, SndOK
  <2> QED
    BY <2>1, <2>2
<1> QED
  BY <1>8, <1>9

\* The network delivers or keeps what was in it.
LEMMA WinArrive ==
  ASSUME WinInv, NEW d \in net, Arrive(d)
  PROVE  net' \subseteq net /\ faults' \in 0..MaxFaults
<1>1. faults \in 0..MaxFaults
  BY TypeParts DEF WinInv, NetType
<1> QED
  BY <1>1, KcpAssumption DEF Arrive

\* ikcp_input of each kind of segment.
LEMMA WinInput ==
  ASSUME WinInv, NEW d \in net, Input(d)
  PROVE  WinInv'
<1> USE KcpAssumption
<1> DEFINE n == d.to
<1>1. SndType /\ RcvType /\ NetType /\ HisType /\ d \in Datagram
  BY TypeParts DEF WinInv, NetType
<1>2. n \in Node /\ d.seg \in Segment /\ d.seg.sn \in Nat
  BY <1>1 DEF Datagram, Segment
<1>3. SndType' /\ \A m \in Node : SndOK(m)'
  BY WinAcknowledge DEF Input, InputAck, InputPush, InputWask, InputWins
<1>4. net' \subseteq Datagram /\ faults' \in 0..MaxFaults
  BY <1>1, WinArrive DEF Input, InputAck, InputPush, InputWask, InputWins, NetType
<1>5. HisType'
  BY <1>1 DEF Input, InputAck, InputPush, InputWask, InputWins, HisType, hisVars
<1>6. ASSUME UNCHANGED rcvVars
      PROVE  RcvType' /\ \A m \in Node : RcvOK(m)'
  BY <1>1, <1>6 DEF rcvVars, RcvType, RcvOK, WinInv
<1>7. CASE InputAck(d) \/ InputWins(d)
  <2>1. UNCHANGED <<rcvVars, probe, probeWait, acklist>>
    BY <1>7 DEF InputAck, InputWins, rcvVars
  <2>2. NetType'
    BY <1>1, <1>4, <2>1 DEF NetType
  <2> QED
    BY <1>3, <1>5, <1>6, <2>1, <2>2, TypePartsNext DEF WinInv
<1>8. CASE InputWask(d)
  <2>1. UNCHANGED <<rcvVars, probeWait, acklist>>
        /\ probe' = [probe EXCEPT ![n] = @ \cup {"ASK_TELL"}]
    BY <1>8 DEF InputWask, rcvVars
  <2>2. NetType'
    BY <1>1, <1>2, <1>4, <2>1 DEF NetType
  <2> QED
    BY <1>3, <1>5, <1>6, <2>1, <2>2, TypePartsNext DEF WinInv
<1>9. CASE InputPush(d)
  <2> DEFINE sn == d.seg.sn
             buf == IF sn \in Numbers(rcvBuf[n]) THEN rcvBuf[n] ELSE rcvBuf[n] \cup {d.seg}
  <2>1. /\ acklist' = [acklist EXCEPT ![n] = IF Acked(n, sn) THEN @ \cup {sn} ELSE @]
        /\ UNCHANGED <<probe, probeWait>>
    BY <1>9 DEF InputPush
  <2>2. NetType'
    BY <1>1, <1>2, <1>4, <2>1 DEF NetType
  <2>3. CASE ~Stored(n, sn) /\ UNCHANGED <<rcvQueue, rcvBuf, rcvNxt>>
    <3>1. RcvType' /\ \A m \in Node : RcvOK(m)'
      BY <1>1, <2>3 DEF RcvType, RcvOK, WinInv
    <3> QED
      BY <1>3, <1>5, <2>2, <3>1, TypePartsNext DEF WinInv
  <2>4. CASE Stored(n, sn) /\ Move(n, rcvQueue[n], buf)
    <3>1. rcvQueue[n] \in Seq(Fragment) /\ Len(rcvQueue[n]) <= RcvWnd /\ buf \in SUBSET Segment
      BY <1>1, <1>2 DEF RcvType, WinInv, RcvOK
    <3>2. Window(buf, rcvNxt[n])
      <4>1. Window(rcvBuf[n], rcvNxt[n])
        BY <1>2 DEF WinInv, RcvOK
      <4>2. rcvNxt[n] <= sn /\ sn < rcvNxt[n] + RcvWnd
        BY <2>4 DEF Stored
      <4> QED
        BY <4>1, <4>2 DEF Window, Numbers
    <3> HIDE DEF buf
    <3>3. RcvType' /\ \A m \in Node : RcvOK(m)'
      BY <1>2, <2>4, <3>1, <3>2, WinMove
    <3> QED
      BY <1>3, <1>5, <2>2, <3>3, TypePartsNext DEF WinInv
  <2> QED
    BY <1>9, <2>3, <2>4 DEF InputPush
<1> QED
  BY <1>7, <1>8, <1>9 DEF Input

\* The fragments ikcp_send makes of a message.
LEMMA FragmentsShape ==
  ASSUME NEW k \in Nat, NEW c \in Nat
  PROVE  /\ Fragments(k, c) \in Seq(Fragment) /\ Len(Fragments(k, c)) = c
         /\ Content(k, c) \in Seq(Payload) /\ Len(Content(k, c)) = c
<1>1. Fragments(k, c) \in [1..c -> Fragment]
  BY DEF Fragments, Fragment, Payload
<1>2. Content(k, c) \in [1..c -> Payload]
  BY DEF Content, Payload
<1>3. Fragments(k, c) \in Seq(Fragment) /\ Content(k, c) \in Seq(Payload)
  BY <1>1, <1>2, SeqDef
<1> QED
  BY <1>1, <1>2, <1>3, LenProperties DEF Fragments, Content

\* ikcp_send.
LEMMA WinSend ==
  ASSUME WinInv, NEW n \in Node, NEW c \in 1..MaxFrags, Send(n, c)
  PROVE  WinInv'
<1> USE KcpAssumption
<1>1. SndType /\ RcvType /\ NetType /\ HisType
  BY TypeParts DEF WinInv
<1> DEFINE k == Len(sent[n]) + 1
<1>2. k \in Nat /\ c \in Nat
  BY <1>1, LenProperties DEF HisType
<1>3. /\ sndQueue' = [sndQueue EXCEPT ![n] = @ \o Fragments(k, c)]
      /\ sent' = [sent EXCEPT ![n] = Append(@, Content(k, c))]
      /\ UNCHANGED <<sndBuf, sndUna, sndNxt, rmtWnd, rcvVars, probe, probeWait, net, faults, got>>
  BY DEF Send
<1> HIDE DEF k
<1>4. SndType'
  <2>1. sndQueue[n] \o Fragments(k, c) \in Seq(Fragment)
    BY <1>1, <1>2, FragmentsShape, ConcatProperties DEF SndType
  <2> QED
    BY <1>1, <1>3, <2>1 DEF SndType
<1>5. HisType'
  <2>1. Append(sent[n], Content(k, c)) \in Seq(Seq(Payload))
    BY <1>1, <1>2, FragmentsShape DEF HisType
  <2> QED
    BY <1>1, <1>3, <2>1 DEF HisType
<1>6. RcvType' /\ NetType'
  BY <1>1, <1>3 DEF RcvType, NetType, rcvVars
<1>7. \A m \in Node : SndOK(m)' /\ RcvOK(m)'
  BY <1>3 DEF WinInv, SndOK, RcvOK, rcvVars
<1> QED
  BY <1>4, <1>5, <1>6, <1>7, TypePartsNext DEF WinInv

\* The length of the message at the head of the queue.
LEMMA HeadLengthRange ==
  ASSUME TypeOK, NEW n \in Node, rcvQueue[n] # <<>>
  PROVE  /\ HeadLength(n) \in 1..Len(rcvQueue[n])
         /\ rcvQueue[n][HeadLength(n)].frg = 0 \/ HeadLength(n) = Len(rcvQueue[n])
         /\ \A j \in 1..(HeadLength(n) - 1) : rcvQueue[n][j].frg # 0
<1> DEFINE q == rcvQueue[n]
           T == {k \in 1..Len(q) : q[k].frg = 0 \/ k = Len(q)}
<1>1. q \in Seq(Fragment) /\ Len(q) \in Nat \ {0}
  BY EmptySeq DEF TypeOK
<1>2. T \in SUBSET Nat /\ T # {}
  <2>1. Len(q) \in T
    BY <1>1
  <2> QED
    BY <1>1, <2>1
<1>3. PICK m \in T : \A k \in T : m <= k
  BY <1>2, LeastElement
<1>4. ASSUME NEW j \in 1..(m - 1), q[j].frg = 0
      PROVE  FALSE
  <2>1. j \in T /\ j < m
    BY <1>1, <1>3, <1>4
  <2> QED
    BY <1>1, <1>3, <2>1
<1>5. \E k \in 1..Len(q) : /\ q[k].frg = 0 \/ k = Len(q)
                           /\ \A j \in 1..(k - 1) : q[j].frg # 0
  BY <1>3, <1>4
<1> QED
  BY <1>5 DEF HeadLength

\* ikcp_recv.
LEMMA WinRecv ==
  ASSUME WinInv, NEW n \in Node, Recv(n)
  PROVE  WinInv'
<1> USE KcpAssumption
<1>1. SndType /\ RcvType /\ NetType /\ HisType /\ TypeOK
  BY TypeParts DEF WinInv
<1> DEFINE k == HeadLength(n)
           q == rcvQueue[n]
           rest == SubSeq(q, k + 1, Len(q))
           msg == [i \in 1..k |-> q[i].data]
<1>2. q \in Seq(Fragment) /\ Len(q) \in Nat /\ q \in [1..Len(q) -> Fragment]
  BY <1>1, LenProperties DEF RcvType
<1>3. k \in 1..Len(q) /\ k \in 0..Len(q) /\ k \in Nat
  BY <1>1, <1>2, HeadLengthRange DEF Recv, Complete
<1>4. /\ got' = [got EXCEPT ![n] = Append(@, msg)]
      /\ Move(n, rest, rcvBuf[n])
      /\ UNCHANGED <<sndVars, acklist, probeWait, net, faults, sent>>
      /\ probe' \in [Node -> SUBSET {"ASK_SEND", "ASK_TELL"}]
  <2>1. probe' \in [Node -> SUBSET {"ASK_SEND", "ASK_TELL"}]
    BY <1>1 DEF Recv, NetType
  <2> QED
    BY <2>1 DEF Recv
<1> HIDE DEF k
<1>5. rest \in Seq(Fragment) /\ Len(rest) <= RcvWnd
  <2>1. rest \in Seq(Fragment) /\ Len(rest) = Len(q) - k
    BY <1>2, <1>3, DropFirst
  <2>2. Len(q) <= RcvWnd
    BY DEF WinInv, RcvOK
  <2> QED
    BY <1>2, <1>3, <2>1, <2>2
<1>6. msg \in Seq(Payload)
  <2>1. ASSUME NEW i \in 1..k
        PROVE  q[i].data \in Payload
    <3>1. i \in 1..Len(q)
      BY <1>2, <1>3
    <3>2. q[i] \in Fragment
      BY <1>2, <3>1
    <3> QED
      BY <3>2 DEF Fragment
  <2>2. msg \in [1..k -> Payload]
    BY <2>1
  <2> QED
    BY <1>3, <2>2, SeqDef
<1> HIDE DEF rest, msg
<1>7. RcvType' /\ \A m \in Node : RcvOK(m)'
  <2>1. rcvBuf[n] \in SUBSET Segment /\ Window(rcvBuf[n], rcvNxt[n])
    BY <1>1 DEF RcvType, WinInv, RcvOK
  <2> QED
    BY <1>4, <1>5, <2>1, WinMove
<1>8. HisType'
  <2>1. Append(got[n], msg) \in Seq(Seq(Payload))
    BY <1>1, <1>6 DEF HisType
  <2> QED
    BY <1>1, <1>4, <2>1 DEF HisType
<1>9. SndType' /\ \A m \in Node : SndOK(m)'
  BY <1>1, <1>4 DEF SndType, SndOK, sndVars, WinInv
<1>10. NetType'
  BY <1>1, <1>4 DEF NetType
<1> QED
  BY <1>7, <1>8, <1>9, <1>10, TypePartsNext DEF WinInv

\* What ikcp_flush takes from snd_queue is there, and stays within the window.
LEMMA SendableRange ==
  ASSUME WinInv, NEW n \in Node
  PROVE  /\ Sendable(n) \in 0..Len(sndQueue[n])
         /\ sndNxt[n] + Sendable(n) <= sndUna[n] + SndWnd
<1> USE KcpAssumption
<1>1. SndType
  BY TypeParts DEF WinInv
<1>2. rmtWnd[n] \in Nat /\ sndNxt[n] \in Nat /\ sndUna[n] \in Nat /\ Len(sndQueue[n]) \in Nat
  BY <1>1, LenProperties DEF SndType
<1>3. sndNxt[n] <= sndUna[n] + SndWnd
  BY DEF WinInv, SndOK
<1> DEFINE cwnd == IF SndWnd < rmtWnd[n] THEN SndWnd ELSE rmtWnd[n]
           room == IF sndNxt[n] < sndUna[n] + cwnd THEN sndUna[n] + cwnd - sndNxt[n] ELSE 0
<1>4. cwnd \in Nat /\ cwnd <= SndWnd
  BY <1>2
<1> HIDE DEF cwnd
<1>5. room \in Nat /\ sndNxt[n] + room <= sndUna[n] + SndWnd
  BY <1>2, <1>3, <1>4, SMTT(60)
<1>6. Sendable(n) = IF room < Len(sndQueue[n]) THEN room ELSE Len(sndQueue[n])
  BY DEF Sendable, cwnd
<1> HIDE DEF room
<1> QED
  BY <1>2, <1>5, <1>6, SMTT(60)

\* The segments ikcp_flush makes of the first k fragments of snd_queue.
NewSegments(n, k) ==
  {[sn |-> sndNxt[n] + i - 1, frg |-> sndQueue[n][i].frg, data |-> sndQueue[n][i].data] : i \in 1..k}

\* Their shape and numbers.
LEMMA NewSegmentsShape ==
  ASSUME WinInv, NEW n \in Node, NEW k \in 0..Len(sndQueue[n])
  PROVE  /\ NewSegments(n, k) \in SUBSET Segment
         /\ \A s \in NewSegments(n, k) : sndNxt[n] <= s.sn /\ s.sn < sndNxt[n] + k
         /\ \A s \in NewSegments(n, k) : s.sn + 1 - sndNxt[n] \in 1..k
              /\ AsFragment(s) = sndQueue[n][s.sn + 1 - sndNxt[n]]
         /\ \A i \in 1..k : sndNxt[n] + i - 1 \in Numbers(NewSegments(n, k))
<1>1. SndType
  BY TypeParts DEF WinInv
<1>2. sndNxt[n] \in Nat /\ Len(sndQueue[n]) \in Nat /\ k \in Nat
      /\ \A i \in 1..Len(sndQueue[n]) : sndQueue[n][i] \in Fragment
  BY <1>1, LenProperties, ElementOfSeq DEF SndType
<1>3. ASSUME NEW i \in 1..k
      PROVE  sndQueue[n][i] \in Fragment /\ sndNxt[n] + i - 1 \in Nat
             /\ sndQueue[n][i].frg \in Nat /\ sndQueue[n][i].data \in Payload
             /\ sndQueue[n][i] = [frg |-> sndQueue[n][i].frg, data |-> sndQueue[n][i].data]
  <2>1. sndQueue[n][i] \in Fragment
    BY <1>2
  <2> QED
    BY <1>2, <2>1 DEF Fragment
<1>4. ASSUME NEW s \in NewSegments(n, k)
      PROVE  /\ s \in Segment /\ sndNxt[n] <= s.sn /\ s.sn < sndNxt[n] + k
             /\ s.sn + 1 - sndNxt[n] \in 1..k
             /\ AsFragment(s) = sndQueue[n][s.sn + 1 - sndNxt[n]]
  <2>1. PICK i \in 1..k : s = [sn |-> sndNxt[n] + i - 1, frg |-> sndQueue[n][i].frg,
                               data |-> sndQueue[n][i].data]
    BY DEF NewSegments
  <2>2. s \in Segment
    BY <1>3, <2>1 DEF Segment
  <2>3. s.sn = sndNxt[n] + i - 1
    BY <2>1
  <2>4. s.sn + 1 - sndNxt[n] = i
    BY <1>2, <2>3
  <2>5. AsFragment(s) = sndQueue[n][i]
    BY <1>3, <2>1 DEF AsFragment
  <2> QED
    BY <1>2, <2>2, <2>3, <2>4, <2>5, SMTT(60)
<1>5. \A i \in 1..k : sndNxt[n] + i - 1 \in Numbers(NewSegments(n, k))
  <2> TAKE i \in 1..k
  <2> DEFINE s == [sn |-> sndNxt[n] + i - 1, frg |-> sndQueue[n][i].frg, data |-> sndQueue[n][i].data]
  <2>1. s \in NewSegments(n, k)
    BY DEF NewSegments
  <2>2. s.sn = sndNxt[n] + i - 1
    OBVIOUS
  <2> HIDE DEF s
  <2> QED
    BY <2>1, <2>2 DEF Numbers
<1> QED
  BY <1>4, <1>5

\* What ikcp_flush does: the effect of Flush, its new datagrams by kind.
LEMMA Flushes ==
  ASSUME NEW n \in Node, NEW again, NEW due, Flush(n, again, due)
  PROVE  LET k == Sendable(n) IN
         /\ sndBuf' = [sndBuf EXCEPT ![n] = @ \cup NewSegments(n, k)]
         /\ sndQueue' = [sndQueue EXCEPT ![n] = SubSeq(@, k + 1, Len(@))]
         /\ sndNxt' = [sndNxt EXCEPT ![n] = @ + k]
         /\ acklist' = [acklist EXCEPT ![n] = {}]
         /\ probe' = [probe EXCEPT ![n] = {}]
         /\ probeWait' = [probeWait EXCEPT ![n] = (rmtWnd[n] = 0)]
         /\ UNCHANGED <<sndUna, rmtWnd, rcvQueue, rcvBuf, rcvNxt, faults, hisVars>>
         /\ \A d \in net' :
              \/ d \in net
              \/ \E sn \in acklist[n] : d = Encode(n, "ACK", [NoSegment EXCEPT !.sn = sn])
              \/ \E cmd \in {"WASK", "WINS"} : d = Encode(n, cmd, NoSegment)
              \/ \E s \in NewSegments(n, k) \cup sndBuf[n] : d = Encode(n, "PUSH", s)
<1> DEFINE k == Sendable(n)
           probes == probe[n] \cup AskSend(n, due)
           new == NewSegments(n, k)
           old == {s \in sndBuf[n] : s.sn \in again}
<1>1. net' = net
            \cup {Encode(n, "ACK", [NoSegment EXCEPT !.sn = sn]) : sn \in acklist[n]}
            \cup (IF "ASK_SEND" \in probes THEN {Encode(n, "WASK", NoSegment)} ELSE {})
            \cup (IF "ASK_TELL" \in probes THEN {Encode(n, "WINS", NoSegment)} ELSE {})
            \cup {Encode(n, "PUSH", s) : s \in new \cup old}
  BY DEF Flush, NewSegments
<1>2. /\ sndBuf' = [sndBuf EXCEPT ![n] = @ \cup NewSegments(n, k)]
      /\ sndQueue' = [sndQueue EXCEPT ![n] = SubSeq(@, k + 1, Len(@))]
      /\ sndNxt' = [sndNxt EXCEPT ![n] = @ + k]
      /\ acklist' = [acklist EXCEPT ![n] = {}]
      /\ probe' = [probe EXCEPT ![n] = {}]
      /\ probeWait' = [probeWait EXCEPT ![n] = (rmtWnd[n] = 0)]
      /\ UNCHANGED <<sndUna, rmtWnd, rcvQueue, rcvBuf, rcvNxt, faults, hisVars>>
  BY DEF Flush, NewSegments
<1>3. \A d \in net' :
        \/ d \in net
        \/ \E sn \in acklist[n] : d = Encode(n, "ACK", [NoSegment EXCEPT !.sn = sn])
        \/ \E cmd \in {"WASK", "WINS"} : d = Encode(n, cmd, NoSegment)
        \/ \E s \in NewSegments(n, k) \cup sndBuf[n] : d = Encode(n, "PUSH", s)
  <2> HIDE DEF probes, k
  <2> QED
    BY <1>1
<1> QED
  BY <1>2, <1>3

\* ikcp_flush.
LEMMA WinFlush ==
  ASSUME WinInv, NEW n \in Node, NEW again, NEW due, Flush(n, again, due)
  PROVE  WinInv'
<1> USE KcpAssumption
<1>1. SndType /\ RcvType /\ NetType /\ HisType
  BY TypeParts DEF WinInv
<1> DEFINE k == Sendable(n)
           new == NewSegments(n, k)
<1>2. k \in 0..Len(sndQueue[n]) /\ sndNxt[n] + k <= sndUna[n] + SndWnd
  BY SendableRange
<1>3. /\ sndBuf' = [sndBuf EXCEPT ![n] = @ \cup new]
      /\ sndQueue' = [sndQueue EXCEPT ![n] = SubSeq(@, k + 1, Len(@))]
      /\ sndNxt' = [sndNxt EXCEPT ![n] = @ + k]
      /\ acklist' = [acklist EXCEPT ![n] = {}]
      /\ probe' = [probe EXCEPT ![n] = {}]
      /\ probeWait' = [probeWait EXCEPT ![n] = (rmtWnd[n] = 0)]
      /\ UNCHANGED <<sndUna, rmtWnd, rcvQueue, rcvBuf, rcvNxt, faults, hisVars>>
      /\ \A d \in net' :
           \/ d \in net
           \/ \E sn \in acklist[n] : d = Encode(n, "ACK", [NoSegment EXCEPT !.sn = sn])
           \/ \E cmd \in {"WASK", "WINS"} : d = Encode(n, cmd, NoSegment)
           \/ \E s \in new \cup sndBuf[n] : d = Encode(n, "PUSH", s)
  BY Flushes
<1>4. /\ new \in SUBSET Segment
      /\ \A s \in new : sndNxt[n] <= s.sn /\ s.sn < sndNxt[n] + k
  BY <1>2, NewSegmentsShape
<1> HIDE DEF k, new
<1>5. Len(sndQueue[n]) \in Nat /\ sndNxt[n] \in Nat /\ sndUna[n] \in Nat /\ k \in Nat
  BY <1>1, <1>2, LenProperties DEF SndType
<1>6. SndType'
  <2>1. SubSeq(sndQueue[n], k + 1, Len(sndQueue[n])) \in Seq(Fragment)
    BY <1>1, <1>2, DropFirst DEF SndType
  <2>2. sndQueue' \in [Node -> Seq(Fragment)]
    BY <1>1, <1>3, <2>1 DEF SndType
  <2>3. sndBuf' \in [Node -> SUBSET Segment]
    BY <1>1, <1>3, <1>4 DEF SndType
  <2>4. sndNxt' \in [Node -> Nat]
    BY <1>1, <1>3, <1>5, SMTT(60) DEF SndType
  <2> QED
    BY <1>1, <1>3, <2>2, <2>3, <2>4 DEF SndType
<1>7. ASSUME NEW m \in Node
      PROVE  SndOK(m)'
  <2>1. CASE m = n
    <3>1. sndBuf'[m] = sndBuf[n] \cup new /\ sndUna'[m] = sndUna[n] /\ sndNxt'[m] = sndNxt[n] + k
      BY <1>1, <1>3, <2>1 DEF SndType
    <3>2. SndOK(n)
      BY DEF WinInv
    <3>3. ASSUME NEW s \in sndBuf[n] \cup new
          PROVE  sndUna[n] <= s.sn /\ s.sn < sndNxt[n] + k
      <4>1. s.sn \in Nat
        BY <1>1, <1>4 DEF SndType, Segment
      <4> QED
        BY <1>4, <1>5, <3>2, <4>1 DEF SndOK
    <3> QED
      BY <1>2, <1>5, <3>1, <3>2, <3>3 DEF SndOK
  <2>2. CASE m # n
    <3>1. sndBuf'[m] = sndBuf[m] /\ sndUna'[m] = sndUna[m] /\ sndNxt'[m] = sndNxt[m]
      BY <1>1, <1>3, <2>2 DEF SndType
    <3> QED
      BY <3>1 DEF WinInv, SndOK
  <2> QED
    BY <2>1, <2>2
<1>8. RcvType' /\ HisType' /\ \A m \in Node : RcvOK(m)'
  BY <1>1, <1>3 DEF RcvType, HisType, RcvOK, hisVars, WinInv
<1>9. net' \subseteq Datagram
  <2>1. ASSUME NEW cmd \in Commands, NEW s \in Segment
        PROVE  Encode(n, cmd, s) \in Datagram
    <3>1. WndUnused(n) \in 0..RcvWnd /\ rcvNxt[n] \in Nat
      BY <1>1, LenProperties DEF WndUnused, RcvType
    <3> QED
      BY <3>1, Peers DEF Encode, Datagram
  <2>2. NoSegment \in Segment /\ \A sn \in Nat : [NoSegment EXCEPT !.sn = sn] \in Segment
    BY DEF NoSegment, Segment, Payload
  <2>3. {"ACK", "PUSH", "WASK", "WINS"} \subseteq Commands
    BY DEF Commands
  <2>4. acklist[n] \subseteq Nat /\ sndBuf[n] \subseteq Segment /\ net \subseteq Datagram
    BY <1>1 DEF NetType, SndType
  <2>5. ASSUME NEW d \in net'
        PROVE  d \in Datagram
    <3>1. CASE \E sn \in acklist[n] : d = Encode(n, "ACK", [NoSegment EXCEPT !.sn = sn])
      BY <2>1, <2>2, <2>3, <2>4, <3>1
    <3>2. CASE \E cmd \in {"WASK", "WINS"} : d = Encode(n, cmd, NoSegment)
      BY <2>1, <2>2, <2>3, <3>2
    <3>3. CASE \E s \in new \cup sndBuf[n] : d = Encode(n, "PUSH", s)
      BY <1>4, <2>1, <2>3, <2>4, <3>3
    <3> QED
      BY <1>3, <2>4, <3>1, <3>2, <3>3
  <2> QED
    BY <2>5
<1>10. NetType'
  BY <1>1, <1>3, <1>9 DEF NetType
<1> QED
  BY <1>6, <1>7, <1>8, <1>10, TypePartsNext DEF WinInv

\* Every step keeps the types and the windows.
LEMMA WinStep == WinInv /\ [Next]_vars => WinInv'
<1> SUFFICES ASSUME WinInv, [Next]_vars
             PROVE  WinInv'
  OBVIOUS
<1>1. ASSUME NEW d \in net, Lose(d)
      PROVE  WinInv'
  <2>1. SndType /\ RcvType /\ NetType /\ HisType
    BY TypeParts DEF WinInv
  <2>2. UNCHANGED <<sndVars, rcvVars, probe, probeWait, hisVars>> /\ net' \subseteq net
        /\ faults' \in 0..MaxFaults
    BY <1>1, <2>1, KcpAssumption DEF Lose, NetType
  <2>3. SndType' /\ RcvType' /\ HisType'
    BY <2>1, <2>2 DEF SndType, RcvType, HisType, sndVars, rcvVars, hisVars
  <2>4. NetType'
    BY <2>1, <2>2 DEF NetType, rcvVars
  <2>5. \A m \in Node : SndOK(m)' /\ RcvOK(m)'
    BY <2>2 DEF WinInv, SndOK, RcvOK, sndVars, rcvVars
  <2> QED
    BY <2>3, <2>4, <2>5, TypePartsNext DEF WinInv
<1>2. CASE UNCHANGED vars
  <2>1. TypeOK'
    BY <1>2 DEF WinInv, TypeOK, vars, sndVars, rcvVars, hisVars
  <2>2. \A m \in Node : SndOK(m)' /\ RcvOK(m)'
    BY <1>2 DEF WinInv, SndOK, RcvOK, vars, sndVars, rcvVars
  <2> QED
    BY <2>1, <2>2 DEF WinInv
<1> QED
  BY <1>1, <1>2, WinSend, WinRecv, WinFlush, WinInput DEF Next

\* The types and windows hold in every state.
LEMMA WinInvariant == Spec => []WinInv
BY WinInit, WinStep, PTL DEF Spec

(***************************************************************************)
(* Every variable of both ends and of the network stays within its shape;  *)
(* in particular the searches of ikcp_recv and ikcp_parse_data find what   *)
(* they look for.                                                          *)
(***************************************************************************)
THEOREM TypeCorrect == Spec => []TypeOK
<1>1. WinInv => TypeOK
  BY DEF WinInv
<1> QED
  BY <1>1, WinInvariant, PTL

(***************************************************************************)
(* rcv_queue and rcv_buf never outgrow the receive window, rcv_buf has     *)
(* nothing twice and nothing that was handed on, and no more than snd_wnd  *)
(* numbers are in flight (ikcp_parse_data, ikcp_flush, ikcp_shrink_buf).   *)
(***************************************************************************)
THEOREM WindowsHold == Spec => []WindowsRespected
<1>1. WinInv => WindowsRespected
  BY DEF WinInv, SndOK, RcvOK, Window, WindowsRespected
<1> QED
  BY <1>1, WinInvariant, PTL

-----------------------------------------------------------------------------
(***************************************************************************)
(* Acknowledgements.                                                       *)
(***************************************************************************)
\* Nothing that an end has is lost, and rcv_nxt does not move back.
Keeps ==
  \A m \in Node :
    /\ rcvNxt[m] <= rcvNxt'[m]
    /\ \A sn \in Nat : HasSegment(m, sn) => HasSegment(m, sn)'

\* When segments are moved, what was in the buffer is in it or behind rcv_nxt.
LEMMA MoveKeeps ==
  ASSUME WinInv, NEW n \in Node, NEW queue \in Seq(Fragment), Len(queue) <= RcvWnd,
         NEW buf \in SUBSET Segment, rcvBuf[n] \subseteq buf, Move(n, queue, buf)
  PROVE  Keeps /\ \A sn \in Numbers(buf) : HasSegment(n, sn)'
<1> USE KcpAssumption
<1>1. TypeOK /\ RcvType
  BY TypeParts DEF WinInv
<1>2. PICK k \in 0..(RcvWnd - Len(queue)), q \in Seq(Fragment) : Moved(n, queue, buf, k, q)
  BY <1>1, Moves
<1> DEFINE nxt == rcvNxt[n]
           rest == {s \in buf : s.sn \notin nxt..(nxt + k - 1)}
<1>3. rcvBuf' = [rcvBuf EXCEPT ![n] = rest] /\ rcvNxt' = [rcvNxt EXCEPT ![n] = @ + k]
  BY <1>2 DEF Moved
<1>4. nxt \in Nat /\ Len(queue) \in Nat /\ k \in Nat
  BY <1>1, LenProperties DEF RcvType
<1>5. rcvBuf'[n] = rest /\ rcvNxt'[n] = nxt + k
  BY <1>1, <1>3 DEF RcvType
<1>6. ASSUME NEW sn \in Numbers(buf)
      PROVE  HasSegment(n, sn)'
  <2>1. PICK s \in buf : s.sn = sn
    BY DEF Numbers
  <2>2. s.sn \in Nat
    BY DEF Segment
  <2>3. CASE s \in rest
    BY <1>5, <2>1, <2>3 DEF HasSegment, Numbers
  <2>4. CASE s \notin rest
    BY <1>4, <1>5, <2>1, <2>2, <2>4, SMTT(60) DEF HasSegment
  <2> QED
    BY <2>3, <2>4
<1>7. ASSUME NEW m \in Node
      PROVE  /\ rcvNxt[m] <= rcvNxt'[m]
             /\ \A sn \in Nat : HasSegment(m, sn) => HasSegment(m, sn)'
  <2>1. CASE m = n
    <3>1. rcvNxt[m] <= rcvNxt'[m]
      BY <1>4, <1>5, <2>1
    <3>2. ASSUME NEW sn \in Nat, HasSegment(m, sn)
          PROVE  HasSegment(m, sn)'
      <4>1. CASE sn < nxt
        BY <1>4, <1>5, <2>1, <4>1 DEF HasSegment
      <4>2. CASE sn \in Numbers(buf)
        BY <1>6, <2>1, <4>2
      <4> QED
        BY <2>1, <3>2, <4>1, <4>2 DEF HasSegment, Numbers
    <3> QED
      BY <3>1, <3>2
  <2>2. CASE m # n
    <3>1. rcvBuf'[m] = rcvBuf[m] /\ rcvNxt'[m] = rcvNxt[m] /\ rcvNxt[m] \in Nat
      BY <1>1, <1>3, <2>2 DEF RcvType
    <3> QED
      BY <3>1 DEF HasSegment
  <2> QED
    BY <2>1, <2>2
<1> QED
  BY <1>6, <1>7 DEF Keeps

\* A step that leaves rcv_buf and rcv_nxt alone.
LEMMA SameKeeps ==
  ASSUME WinInv, rcvBuf' = rcvBuf, rcvNxt' = rcvNxt
  PROVE  Keeps
<1>1. RcvType
  BY TypeParts DEF WinInv
<1> QED
  BY <1>1 DEF RcvType, Keeps, HasSegment

\* ikcp_input stores the pushed segments of the window, and acknowledges no
\* others than those and the ones before it.
LEMMA PushStores ==
  ASSUME WinInv, NEW d \in net, InputPush(d)
  PROVE  Keeps /\ (Acked(d.to, d.seg.sn) => HasSegment(d.to, d.seg.sn)')
<1> USE KcpAssumption
<1> DEFINE n == d.to
           sn == d.seg.sn
           buf == IF sn \in Numbers(rcvBuf[n]) THEN rcvBuf[n] ELSE rcvBuf[n] \cup {d.seg}
<1>1. RcvType /\ d \in Datagram
  BY TypeParts DEF WinInv, NetType
<1>2. n \in Node /\ d.seg \in Segment /\ sn \in Nat
  BY <1>1 DEF Datagram, Segment
<1>3. rcvNxt[n] \in Nat
  BY <1>1, <1>2 DEF RcvType
<1>4. CASE ~Stored(n, sn) /\ UNCHANGED <<rcvQueue, rcvBuf, rcvNxt>>
  <2>1. Acked(n, sn) => sn < rcvNxt[n]
    BY <1>2, <1>3, <1>4 DEF Acked, Stored
  <2>2. Acked(n, sn) => HasSegment(n, sn)'
    BY <1>4, <2>1 DEF HasSegment
  <2> QED
    BY <1>4, <2>2, SameKeeps
<1>5. CASE Stored(n, sn) /\ Move(n, rcvQueue[n], buf)
  <2>1. rcvQueue[n] \in Seq(Fragment) /\ Len(rcvQueue[n]) <= RcvWnd /\ buf \in SUBSET Segment
        /\ rcvBuf[n] \subseteq buf
    BY <1>1, <1>2 DEF RcvType, WinInv, RcvOK
  <2>2. sn \in Numbers(buf)
    BY DEF Numbers
  <2> HIDE DEF buf
  <2> QED
    BY <1>2, <1>5, <2>1, <2>2, MoveKeeps
<1> QED
  BY <1>4, <1>5 DEF InputPush

\* ikcp_recv loses nothing either.
LEMMA RecvKeeps ==
  ASSUME WinInv, NEW n \in Node, Recv(n)
  PROVE  Keeps
<1> USE KcpAssumption
<1> DEFINE k == HeadLength(n)
           q == rcvQueue[n]
           rest == SubSeq(q, k + 1, Len(q))
<1>1. TypeOK /\ RcvType
  BY TypeParts DEF WinInv
<1>2. q \in Seq(Fragment) /\ Len(q) \in Nat
  BY <1>1, LenProperties DEF RcvType
<1>3. k \in 1..Len(q) /\ k \in 0..Len(q)
  BY <1>1, <1>2, HeadLengthRange DEF Recv, Complete
<1>4. Move(n, rest, rcvBuf[n])
  BY DEF Recv
<1> HIDE DEF k
<1>5. rest \in Seq(Fragment) /\ Len(rest) <= RcvWnd
  <2>1. rest \in Seq(Fragment) /\ Len(rest) = Len(q) - k
    BY <1>2, <1>3, DropFirst
  <2>2. Len(q) <= RcvWnd
    BY DEF WinInv, RcvOK
  <2> QED
    BY <1>2, <1>3, <2>1, <2>2
<1>6. rcvBuf[n] \in SUBSET Segment
  BY <1>1 DEF RcvType
<1> HIDE DEF rest
<1> QED
  BY <1>4, <1>5, <1>6, MoveKeeps

\* What was acknowledged stays true in every step.
LEMMA StepKeeps ==
  ASSUME WinInv, [Next]_vars
  PROVE  Keeps
<1>1. ASSUME NEW n \in Node, Recv(n)
      PROVE  Keeps
  BY <1>1, RecvKeeps
<1>2. ASSUME NEW d \in net, InputPush(d)
      PROVE  Keeps
  BY <1>2, PushStores
<1>3. CASE rcvBuf' = rcvBuf /\ rcvNxt' = rcvNxt
  BY <1>3, SameKeeps
<1> QED
  BY <1>1, <1>2, <1>3, ZenonT(60) DEF Next, Send, Flush, Input, InputAck, InputWask, InputWins, Lose, vars,
                          rcvVars

\* Acknowledgements that were in the network or in an acklist stay true.
LEMMA AcksStay ==
  ASSUME WinInv, WinInv', KeepInv, Keeps
  PROVE  /\ \A n \in Node : \A sn \in acklist[n] : HasSegment(n, sn)'
         /\ \A d \in net :
              /\ d.una <= rcvNxt'[Peer(d.to)]
              /\ d.cmd = "ACK" => HasSegment(Peer(d.to), d.seg.sn)'
<1>1. RcvType /\ NetType
  BY TypeParts DEF WinInv
<1>2. ASSUME NEW n \in Node, NEW sn \in acklist[n]
      PROVE  HasSegment(n, sn)'
  <2>1. sn \in Nat
    BY <1>1 DEF NetType
  <2> QED
    BY <2>1 DEF KeepInv, AcksOK, Keeps
<1>3. ASSUME NEW d \in net
      PROVE  /\ d.una <= rcvNxt'[Peer(d.to)]
             /\ d.cmd = "ACK" => HasSegment(Peer(d.to), d.seg.sn)'
  <2>1. d.to \in Node /\ d.una \in Nat /\ d.seg.sn \in Nat
    BY <1>1 DEF NetType, Datagram, Segment
  <2>2. Peer(d.to) \in Node
    BY <2>1, Peers
  <2>3. d.una <= rcvNxt[Peer(d.to)] /\ (d.cmd = "ACK" => HasSegment(Peer(d.to), d.seg.sn))
    BY DEF KeepInv, AcksOK
  <2>4. rcvNxt[Peer(d.to)] <= rcvNxt'[Peer(d.to)]
    BY <2>2 DEF Keeps
  <2>5. rcvNxt[Peer(d.to)] \in Nat /\ rcvNxt'[Peer(d.to)] \in Nat
    BY <2>2 DEF WinInv, TypeOK
  <2>6. d.una <= rcvNxt'[Peer(d.to)]
    BY <2>1, <2>3, <2>4, <2>5
  <2> QED
    BY <2>1, <2>2, <2>3, <2>6 DEF Keeps
<1> QED
  BY <1>2, <1>3

\* A step that numbers nothing new, in which a segment leaves snd_buf only if
\* the peer has it.
LEMMA KeptIfHad ==
  ASSUME WinInv, KeepInv, Keeps, sndNxt' = sndNxt,
         \A n \in Node : \A s \in sndBuf[n] : s \in sndBuf'[n] \/ HasSegment(Peer(n), s.sn)'
  PROVE  AckedIsKept'
<1> SUFFICES ASSUME NEW n \in Node, NEW sn \in 0..(sndNxt[n] - 1)
             PROVE  sn \in Numbers(sndBuf'[n]) \/ HasSegment(Peer(n), sn)'
  BY DEF AckedIsKept, HasSegment
<1>1. Peer(n) \in Node
  BY Peers
<1>2. sn \in Nat
  OBVIOUS
<1>3. CASE sn \in Numbers(sndBuf[n])
  BY <1>3 DEF Numbers
<1>4. CASE HasSegment(Peer(n), sn)
  BY <1>1, <1>2, <1>4 DEF Keeps
<1> QED
  BY <1>3, <1>4 DEF KeepInv, AckedIsKept, HasSegment

\* ikcp_parse_una and ikcp_parse_ack take from snd_buf what the peer has.
LEMMA AcknowledgeKept ==
  ASSUME WinInv, KeepInv, Keeps, NEW d \in net, NEW acked, Acknowledge(d.to, d, acked),
         acked = {} \/ (acked = {d.seg.sn} /\ d.cmd = "ACK")
  PROVE  AckedIsKept'
<1> DEFINE n == d.to
           buf == {s \in sndBuf[n] : s.sn >= d.una /\ s.sn \notin acked}
<1>1. SndType /\ RcvType /\ d \in Datagram
  BY TypeParts DEF WinInv, NetType
<1>2. n \in Node /\ Peer(n) \in Node /\ d.una \in Nat
  BY <1>1, Peers DEF Datagram
<1>3. sndBuf' = [sndBuf EXCEPT ![n] = buf] /\ sndNxt' = sndNxt
  BY DEF Acknowledge
<1>4. ASSUME NEW m \in Node, NEW s \in sndBuf[m], s \notin sndBuf'[m]
      PROVE  HasSegment(Peer(m), s.sn)'
  <2>1. m = n /\ s \notin buf
    BY <1>1, <1>3, <1>4 DEF SndType
  <2>2. s.sn \in Nat /\ rcvNxt[Peer(n)] \in Nat
    BY <1>1, <1>2 DEF SndType, RcvType, Segment
  <2>3. s.sn < d.una \/ s.sn \in acked
    BY <1>2, <2>1, <2>2
  <2>4. d.una <= rcvNxt[Peer(n)] /\ (d.cmd = "ACK" => HasSegment(Peer(n), d.seg.sn))
    BY DEF KeepInv, AcksOK
  <2>5. HasSegment(Peer(n), s.sn)
    <3>1. CASE s.sn < d.una
      BY <1>2, <2>2, <2>4, <3>1 DEF HasSegment
    <3>2. CASE s.sn \in acked
      BY <2>4, <3>2
    <3> QED
      BY <2>3, <3>1, <3>2
  <2> QED
    BY <1>2, <2>1, <2>2, <2>5 DEF Keeps
<1> QED
  BY <1>3, <1>4, KeptIfHad

\* ikcp_input.
LEMMA KeepInput ==
  ASSUME WinInv, WinInv', KeepInv, Keeps, NEW d \in net, Input(d)
  PROVE  KeepInv'
<1>1. net' \subseteq net
  BY WinArrive DEF Input, InputAck, InputPush, InputWask, InputWins
<1>2. \E acked : /\ Acknowledge(d.to, d, acked)
                 /\ acked = {} \/ (acked = {d.seg.sn} /\ d.cmd = "ACK")
  BY DEF Input, InputAck, InputPush, InputWask, InputWins
<1>3. AckedIsKept'
  BY <1>2, AcknowledgeKept
<1>4. ASSUME NEW n \in Node, NEW sn \in acklist'[n]
      PROVE  HasSegment(n, sn)'
  <2>1. CASE sn \in acklist[n]
    BY <2>1, AcksStay
  <2>2. CASE sn \notin acklist[n]
    <3>1. InputPush(d)
      BY <1>4, <2>2 DEF Input, InputAck, InputWask, InputWins, rcvVars
    <3>2. acklist' = [acklist EXCEPT ![d.to] = IF Acked(d.to, d.seg.sn) THEN @ \cup {d.seg.sn} ELSE @]
      BY <3>1 DEF InputPush
    <3>3. acklist \in [Node -> SUBSET Nat]
      BY DEF WinInv, TypeOK
    <3>4. n = d.to /\ sn = d.seg.sn /\ Acked(d.to, d.seg.sn)
      BY <1>4, <2>2, <3>2, <3>3
    <3> QED
      BY <3>1, <3>4, PushStores
  <2> QED
    BY <2>1, <2>2
<1>5. AcksOK'
  BY <1>1, <1>4, AcksStay DEF AcksOK
<1> QED
  BY <1>3, <1>5 DEF KeepInv

\* ikcp_flush.
LEMMA KeepFlush ==
  ASSUME WinInv, WinInv', KeepInv, Keeps, NEW n \in Node, NEW again, NEW due, Flush(n, again, due)
  PROVE  KeepInv'
<1> USE KcpAssumption
<1> DEFINE k == Sendable(n)
           new == NewSegments(n, k)
<1>1. SndType /\ RcvType /\ NetType
  BY TypeParts DEF WinInv
<1>2. /\ sndBuf' = [sndBuf EXCEPT ![n] = @ \cup new]
      /\ sndNxt' = [sndNxt EXCEPT ![n] = @ + k]
      /\ acklist' = [acklist EXCEPT ![n] = {}]
      /\ UNCHANGED <<rcvBuf, rcvNxt>>
      /\ \A d \in net' :
           \/ d \in net
           \/ \E sn \in acklist[n] : d = Encode(n, "ACK", [NoSegment EXCEPT !.sn = sn])
           \/ \E cmd \in {"WASK", "WINS"} : d = Encode(n, cmd, NoSegment)
           \/ \E s \in new \cup sndBuf[n] : d = Encode(n, "PUSH", s)
  BY Flushes
<1>3. k \in 0..Len(sndQueue[n]) /\ k \in Nat /\ sndNxt[n] \in Nat /\ rcvNxt[n] \in Nat
  BY <1>1, SendableRange DEF SndType, RcvType
<1>4. \A i \in 1..k : sndNxt[n] + i - 1 \in Numbers(new)
  BY <1>3, NewSegmentsShape
<1> HIDE DEF k, new
<1>5. AckedIsKept'
  <2> SUFFICES ASSUME NEW m \in Node, NEW sn \in 0..(sndNxt'[m] - 1)
               PROVE  sn \in Numbers(sndBuf'[m]) \/ HasSegment(Peer(m), sn)
    BY <1>2 DEF AckedIsKept, HasSegment
  <2>1. CASE sn < sndNxt[m]
    <3>1. sn \in 0..(sndNxt[m] - 1)
      BY <1>1, <2>1 DEF SndType
    <3>2. sndBuf[m] \subseteq sndBuf'[m]
      BY <1>1, <1>2 DEF SndType
    <3> QED
      BY <3>1, <3>2 DEF KeepInv, AckedIsKept, HasSegment, Numbers
  <2>2. CASE ~(sn < sndNxt[m])
    <3>1. m = n /\ sndNxt'[n] = sndNxt[n] + k /\ sndBuf'[n] = sndBuf[n] \cup new
      BY <1>1, <1>2, <2>2, SMTT(60) DEF SndType
    <3>2. sn \in Nat /\ sn - sndNxt[n] + 1 \in 1..k /\ sndNxt[n] + (sn - sndNxt[n] + 1) - 1 = sn
      BY <1>3, <2>2, <3>1, SMTT(60)
    <3>3. sn \in Numbers(new)
      BY <1>4, <3>2
    <3> QED
      BY <3>1, <3>3 DEF Numbers
  <2> QED
    BY <2>1, <2>2
<1>6. ASSUME NEW m \in Node, NEW sn \in acklist'[m]
      PROVE  HasSegment(m, sn)'
  <2>1. sn \in acklist[m]
    BY <1>1, <1>2, <1>6 DEF NetType
  <2> QED
    BY <2>1, AcksStay
<1>7. ASSUME NEW d \in net'
      PROVE  /\ d.una <= rcvNxt'[Peer(d.to)]
             /\ d.cmd = "ACK" => HasSegment(Peer(d.to), d.seg.sn)'
  <2>1. CASE d \in net
    BY <2>1, AcksStay
  <2>2. ASSUME NEW cmd, NEW s, d = Encode(n, cmd, s)
        PROVE  /\ Peer(d.to) = n /\ d.cmd = cmd /\ d.seg = s
               /\ d.una <= rcvNxt'[Peer(d.to)]
    <3>1. d.to = Peer(n) /\ d.cmd = cmd /\ d.seg = s /\ d.una = rcvNxt[n]
      BY <2>2 DEF Encode
    <3> QED
      BY <1>2, <1>3, <3>1, Peers
  <2>3. ASSUME NEW sn \in acklist[n], d = Encode(n, "ACK", [NoSegment EXCEPT !.sn = sn])
        PROVE  /\ d.una <= rcvNxt'[Peer(d.to)]
               /\ HasSegment(Peer(d.to), d.seg.sn)'
    <3>1. d.seg.sn = sn /\ Peer(d.to) = n
      BY <2>2, <2>3 DEF NoSegment
    <3> QED
      BY <2>2, <2>3, <3>1, AcksStay
  <2>4. ASSUME NEW cmd \in {"WASK", "WINS", "PUSH"}, NEW s, d = Encode(n, cmd, s)
        PROVE  d.una <= rcvNxt'[Peer(d.to)] /\ d.cmd # "ACK"
    BY <2>2, <2>4
  <2> QED
    BY <1>2, <2>1, <2>3, <2>4
<1>8. AcksOK'
  BY <1>6, <1>7 DEF AcksOK
<1> QED
  BY <1>5, <1>8 DEF KeepInv

\* Every step keeps the acknowledgements true.
LEMMA KeepStep == WinInv /\ WinInv' /\ KeepInv /\ [Next]_vars => KeepInv'
<1> SUFFICES ASSUME WinInv, WinInv', KeepInv, [Next]_vars
             PROVE  KeepInv'
  OBVIOUS
<1>1. Keeps
  BY StepKeeps
<1>2. ASSUME NEW n \in Node, NEW again, NEW due, Flush(n, again, due)
      PROVE  KeepInv'
  BY <1>1, <1>2, KeepFlush
<1>3. ASSUME NEW d \in net, Input(d)
      PROVE  KeepInv'
  BY <1>1, <1>3, KeepInput
<1>4. ASSUME net' \subseteq net, acklist' = acklist, sndBuf' = sndBuf, sndNxt' = sndNxt
      PROVE  KeepInv'
  <2>1. AckedIsKept'
    BY <1>1, <1>4, KeptIfHad
  <2>2. AcksOK'
    BY <1>1, <1>4, AcksStay DEF AcksOK
  <2> QED
    BY <2>1, <2>2 DEF KeepInv
<1>5. ASSUME NEW n \in Node, (\E c \in 1..MaxFrags : Send(n, c)) \/ Recv(n)
      PROVE  KeepInv'
  BY <1>4, <1>5 DEF Send, Recv, sndVars, rcvVars
<1>6. CASE (\E d \in net : Lose(d)) \/ UNCHANGED vars
  BY <1>4, <1>6 DEF Lose, vars, sndVars, rcvVars
<1> QED
  BY <1>2, <1>3, <1>5, <1>6 DEF Next

\* The acknowledgements are true in every state.
LEMMA KeepInvariant == Spec => []KeepInv
<1>1. Init => KeepInv
  BY DEF Init, KeepInv, AcksOK, AckedIsKept
<1> QED
  BY <1>1, KeepStep, WinInvariant, PTL DEF Spec

(***************************************************************************)
(* A segment that is no longer kept for retransmission has arrived for     *)
(* good, whatever is lost, duplicated or reordered: what ikcp_input takes  *)
(* as acknowledged against what ikcp_flush of the other end acknowledges.  *)
(***************************************************************************)
THEOREM AcknowledgedArrived == Spec => []AckedIsKept
<1>1. KeepInv => AckedIsKept
  BY DEF KeepInv
<1> QED
  BY <1>1, KeepInvariant, PTL

-----------------------------------------------------------------------------
(***************************************************************************)
(* The stream.                                                             *)
(***************************************************************************)
\* The types of what a direction is about.
LEMMA DirTypes ==
  ASSUME WinInv, NEW n \in Node
  PROVE  /\ Peer(n) \in Node
         /\ sndNxt[n] \in Nat /\ Len(sndQueue[n]) \in Nat /\ Len(sent[n]) \in Nat
         /\ sndBuf[n] \in SUBSET Segment /\ rcvBuf[Peer(n)] \in SUBSET Segment
         /\ rcvNxt[Peer(n)] \in Nat /\ Len(rcvQueue[Peer(n)]) \in Nat
         /\ rcvQueue[Peer(n)] \in Seq(Fragment) /\ sndQueue[n] \in Seq(Fragment)
         /\ Len(got[Peer(n)]) \in Nat /\ Len(rcvQueue[Peer(n)]) <= RcvWnd
<1>1. Peer(n) \in Node
  BY Peers
<1>2. TypeOK /\ RcvOK(Peer(n))
  BY <1>1 DEF WinInv
<1> QED
  BY <1>1, <1>2, LenProperties DEF TypeOK, RcvOK

\* A step that only takes from snd_buf and the network.
LEMMA DirFrame ==
  ASSUME NEW n \in Node, NEW st, NEW at, Direction(n, st, at),
         sent'[n] = sent[n], sndNxt'[n] = sndNxt[n], sndQueue'[n] = sndQueue[n],
         sndBuf'[n] \subseteq sndBuf[n],
         \A d \in net' : d.to = Peer(n) /\ d.cmd = "PUSH" => d \in net,
         rcvBuf'[Peer(n)] = rcvBuf[Peer(n)], rcvNxt'[Peer(n)] = rcvNxt[Peer(n)],
         rcvQueue'[Peer(n)] = rcvQueue[Peer(n)], got'[Peer(n)] = got[Peer(n)]
  PROVE  Direction(n, st, at)'
BY DEF Direction

\* Moving segments of the stream to a queue that is a part of the stream.
LEMMA DirMove ==
  ASSUME WinInv, NEW n \in Node, NEW st, NEW base \in Nat,
         NEW queue \in Seq(Fragment), Len(queue) <= RcvWnd,
         NEW buf \in SUBSET Segment, \A s \in buf : InStream(s, st, sndNxt[n]),
         rcvNxt[Peer(n)] <= sndNxt[n],
         rcvNxt[Peer(n)] = base + Len(queue),
         \A i \in 1..Len(queue) : queue[i] = st[base + i],
         Move(Peer(n), queue, buf)
  PROVE  /\ rcvNxt'[Peer(n)] <= sndNxt[n]
         /\ rcvNxt'[Peer(n)] = base + Len(rcvQueue'[Peer(n)])
         /\ \A i \in 1..Len(rcvQueue'[Peer(n)]) : rcvQueue'[Peer(n)][i] = st[base + i]
         /\ \A s \in rcvBuf'[Peer(n)] : InStream(s, st, sndNxt[n])
<1> USE KcpAssumption
<1> DEFINE p == Peer(n)
<1>1. RcvType /\ TypeOK
  BY TypeParts DEF WinInv
<1>2. p \in Node /\ rcvNxt[p] \in Nat /\ sndNxt[n] \in Nat /\ Len(queue) \in Nat
  BY DirTypes, LenProperties
<1>3. PICK k \in 0..(RcvWnd - Len(queue)), q \in Seq(Fragment) : Moved(p, queue, buf, k, q)
  BY <1>1, <1>2, Moves
<1>4. k \in Nat
  BY <1>2
<1>5. /\ rcvQueue'[p] = q
      /\ rcvBuf'[p] \subseteq buf
      /\ rcvNxt'[p] = rcvNxt[p] + k
  BY <1>1, <1>2, <1>3 DEF Moved, RcvType
<1>6. /\ Len(q) = Len(queue) + k
      /\ \A i \in 1..Len(queue) : q[i] = queue[i]
      /\ \A j \in 1..k : \E s \in buf : s.sn = rcvNxt[p] + j - 1 /\ q[Len(queue) + j] = AsFragment(s)
  BY <1>3 DEF Moved
<1> HIDE DEF p
<1>7. ASSUME NEW j \in 1..k
      PROVE  rcvNxt[p] + j <= sndNxt[n] /\ q[Len(queue) + j] = st[rcvNxt[p] + j]
  <2>1. PICK s \in buf : s.sn = rcvNxt[p] + j - 1 /\ q[Len(queue) + j] = AsFragment(s)
    BY <1>6
  <2>2. s.sn < sndNxt[n] /\ AsFragment(s) = st[s.sn + 1]
    BY DEF InStream
  <2>3. s.sn + 1 = rcvNxt[p] + j
    BY <1>2, <1>4, <2>1
  <2>4. q[Len(queue) + j] = st[rcvNxt[p] + j]
    BY <2>1, <2>2, <2>3
  <2>5. rcvNxt[p] + j <= sndNxt[n]
    BY <1>2, <1>4, <2>1, <2>2, SMTT(60)
  <2> QED
    BY <2>4, <2>5
<1>8. rcvNxt[p] + k <= sndNxt[n]
  <2>1. CASE k = 0
    BY <1>2, <2>1 DEF p
  <2>2. CASE k # 0
    <3>1. k \in 1..k
      BY <1>4, <2>2
    <3> QED
      BY <1>7, <3>1
  <2> QED
    BY <2>1, <2>2
<1>9. ASSUME NEW i \in 1..Len(q)
      PROVE  q[i] = st[base + i]
  <2>1. CASE i <= Len(queue)
    BY <1>2, <1>4, <1>6, <2>1
  <2>2. CASE ~(i <= Len(queue))
    <3> DEFINE j == i - Len(queue)
    <3>1. j \in 1..k /\ Len(queue) + j = i
      BY <1>2, <1>4, <1>6, <2>2
    <3>2. rcvNxt[p] + j = base + i
      BY <1>2, <1>4, <1>6 DEF p
    <3> HIDE DEF j
    <3> QED
      BY <1>7, <3>1, <3>2
  <2> QED
    BY <2>1, <2>2
<1>10. rcvNxt'[p] = base + Len(q)
  BY <1>2, <1>4, <1>5, <1>6 DEF p
<1> QED
  BY <1>5, <1>8, <1>9, <1>10 DEF p

\* ikcp_send adds the message's fragments to the end of the stream.
LEMMA DirSend ==
  ASSUME WinInv, NEW n \in Node, NEW st \in Seq(Fragment),
         NEW at \in [1..(Len(sent[n]) + 1) -> Nat], Direction(n, st, at),
         NEW c \in 1..MaxFrags, Send(n, c)
  PROVE  \E st2 \in Seq(Fragment) : \E at2 \in [1..(Len(sent'[n]) + 1) -> Nat] :
           Direction(n, st2, at2)'
<1> USE KcpAssumption
<1> DEFINE ms == sent[n]
           k == Len(ms) + 1
           m == Content(k, c)
           ms2 == Append(ms, m)
           fs == Fragments(k, c)
           atN == [i \in 1..(k + 1) |-> IF i <= k THEN at[i] ELSE at[k] + c]
           q2 == sndQueue[n] \o fs
<1>1. TypeOK
  BY DEF WinInv
<1>2. Len(ms) \in Nat /\ ms \in Seq(Seq(Payload)) /\ k \in Nat /\ c \in Nat /\ c > 0
      /\ sndQueue[n] \in Seq(Fragment) /\ Len(sndQueue[n]) \in Nat /\ sndNxt[n] \in Nat
      /\ Len(st) \in Nat
  BY <1>1, LenProperties DEF TypeOK
<1>n. Len(ms) \in Nat /\ k \in Nat /\ k >= 1 /\ c \in Nat /\ c > 0 /\ Len(sndQueue[n]) \in Nat
      /\ sndNxt[n] \in Nat /\ Len(st) \in Nat
  BY <1>2
<1>3. fs \in Seq(Fragment) /\ Len(fs) = c /\ m \in Seq(Payload) /\ Len(m) = c
  BY <1>2, FragmentsShape
<1>4. Len(ms2) = k /\ ms2[k] = m /\ \A i \in 1..Len(ms) : ms2[i] = ms[i]
  BY <1>2, <1>3
<1>5. PICK st2 \in Seq(Fragment) :
        /\ Len(st2) = Len(st) + c
        /\ \A i \in 1..(Len(st) + c) : st2[i] = IF i <= Len(st) THEN st[i] ELSE fs[i - Len(st)]
  <2> HIDE DEF fs
  <2>1. Added(st \o fs, st, fs, c)
    BY <1>3, AddLast, Zenon
  <2> QED
    BY <2>1, Zenon DEF Added
<1>6. /\ Len(q2) = Len(sndQueue[n]) + c
      /\ \A i \in 1..(Len(sndQueue[n]) + c) :
           q2[i] = IF i <= Len(sndQueue[n]) THEN sndQueue[n][i] ELSE fs[i - Len(sndQueue[n])]
  <2> HIDE DEF fs
  <2>1. Added(q2, sndQueue[n], fs, c)
    BY <1>2, <1>3, AddLast, Zenon
  <2> HIDE DEF q2
  <2> QED
    BY <2>1, Zenon DEF Added
<1>7. /\ sndQueue'[n] = q2 /\ sent'[n] = ms2
      /\ UNCHANGED <<sndBuf, sndNxt, rcvQueue, rcvBuf, rcvNxt, net, got>>
  BY <1>1 DEF Send, TypeOK, rcvVars
<1>8. Layout(ms, st, at) /\ at[k] = Len(st)
  BY DEF Direction, Layout
<1>9. fs = [i \in 1..c |-> [frg |-> c - i, data |-> [msg |-> k, part |-> i]]]
  BY DEF Fragments
<1>10. PICK at2 \in [1..(k + 1) -> Nat] : at2[k + 1] = at[k] + c /\ \A i \in 1..k : at2[i] = at[i]
  <2>1. \A i \in 1..k : at[i] \in Nat
    OBVIOUS
  <2>2. k \in 1..k /\ at[k] \in Nat
    <3>1. k \in 1..k
      BY <1>n
    <3> QED
      BY <2>1, <3>1
  <2>3. ASSUME NEW i \in 1..(k + 1)
        PROVE  (IF i <= k THEN at[i] ELSE at[k] + c) \in Nat
    <3>1. CASE i <= k
      <4>1. i \in 1..k
        BY <1>n, <3>1
      <4> QED
        BY <2>1, <3>1, <4>1, Zenon
    <3>2. CASE ~(i <= k)
      <4>1. at[k] + c \in Nat
        BY <1>n, <2>2, SMTT(60)
      <4> QED
        BY <3>2, <4>1, Zenon
    <3> QED
      BY <3>1, <3>2, Zenon
  <2>4. atN \in [1..(k + 1) -> Nat] /\ atN[k + 1] = at[k] + c /\ \A i \in 1..k : atN[i] = at[i]
    BY <1>2, <2>3, SMTT(60)
  <2> HIDE DEF atN
  <2> QED
    BY <2>4
<1> HIDE DEF atN, fs, m, ms2, k, q2, ms
<1>11. Layout(ms2, st2, at2)
  <2>1. at2[1] = 0 /\ at2[Len(ms2) + 1] = Len(st2)
    <3>1. 1 \in 1..k
      BY <1>2 DEF k
    <3> QED
      BY <1>4, <1>5, <1>8, <1>10, <3>1 DEF Layout
  <2>2. ASSUME NEW j \in 1..Len(ms2)
        PROVE  /\ ms2[j] = Content(j, Len(ms2[j]))
               /\ Len(ms2[j]) > 0
               /\ at2[j + 1] = at2[j] + Len(ms2[j])
               /\ \A i \in 1..Len(ms2[j]) :
                    /\ at2[j] + i <= Len(st2)
                    /\ st2[at2[j] + i] = [frg |-> Len(ms2[j]) - i, data |-> [msg |-> j, part |-> i]]
    <3>1. CASE j = k
      <4>1. ms2[j] = m /\ Len(m) = c /\ m = Content(k, c)
        BY <1>3, <1>4, <3>1 DEF m
      <4>2. at2[j] = Len(st) /\ at2[j + 1] = Len(st) + c
        BY <1>2, <1>8, <1>10, <3>1
      <4>3. ASSUME NEW i \in 1..c
            PROVE  /\ at2[j] + i <= Len(st2)
                   /\ st2[at2[j] + i] = [frg |-> c - i, data |-> [msg |-> k, part |-> i]]
        <5>1. Len(st) + i \in 1..(Len(st) + c) /\ ~(Len(st) + i <= Len(st))
              /\ (Len(st) + i) - Len(st) = i
          BY <1>2
        <5>2. st2[Len(st) + i] = fs[i]
          BY <1>5, <5>1
        <5>3. Len(st) + i <= Len(st2)
          BY <1>2, <1>5
        <5> QED
          BY <1>9, <4>2, <5>2, <5>3
      <4> QED
        BY <1>2, <3>1, <4>1, <4>2, <4>3
    <3>2. CASE j # k
      <4>1. j \in 1..Len(ms) /\ ms2[j] = ms[j] /\ j \in 1..k /\ j + 1 \in 1..k
        <5>1. Len(ms2) = Len(ms) + 1 /\ k = Len(ms) + 1
          BY <1>4 DEF k
        <5>2. j \in 1..Len(ms) /\ j \in 1..k /\ j + 1 \in 1..k
          BY <1>2, <3>2, <5>1
        <5> QED
          BY <1>4, <5>2
      <4>2. at2[j] = at[j] /\ at2[j + 1] = at[j + 1] /\ at[j] \in Nat
        BY <1>10, <4>1 DEF k, ms
      <4>3. /\ ms[j] = Content(j, Len(ms[j]))
            /\ Len(ms[j]) > 0
            /\ at[j + 1] = at[j] + Len(ms[j])
            /\ \A i \in 1..Len(ms[j]) :
                 /\ at[j] + i <= Len(st)
                 /\ st[at[j] + i] = [frg |-> Len(ms[j]) - i, data |-> [msg |-> j, part |-> i]]
        BY <1>8, <4>1 DEF Layout
      <4>4. ASSUME NEW i \in 1..Len(ms[j])
            PROVE  at[j] + i <= Len(st2) /\ st2[at[j] + i] = st[at[j] + i]
        <5>1. at[j] + i <= Len(st) /\ at[j] + i \in Nat /\ at[j] + i >= 1
          <6>1. Len(ms[j]) \in Nat
            BY <1>2, <4>1, LenProperties
          <6>2. at[j] + i <= Len(st)
            BY <4>3
          <6> QED
            BY <4>2, <6>1, <6>2, SMTT(60)
        <5>2. at[j] + i \in 1..(Len(st) + c)
          BY <1>2, <5>1, SMTT(60)
        <5>3. at[j] + i <= Len(st2)
          BY <1>2, <1>5, <5>1
        <5> QED
          BY <1>5, <5>1, <5>2, <5>3
      <4> QED
        BY <4>1, <4>2, <4>3, <4>4, SMTT(60)
    <3> QED
      BY <3>1, <3>2
  <2> QED
    BY <2>1, <2>2 DEF Layout
<1>12. /\ Len(st) = sndNxt[n] + Len(sndQueue[n])
       /\ \A i \in 1..Len(sndQueue[n]) : sndQueue[n][i] = st[sndNxt[n] + i]
  BY DEF Direction
<1>m. Len(st) = sndNxt[n] + Len(sndQueue[n]) /\ Len(q2) = Len(sndQueue[n]) + c
  BY <1>6, <1>12
<1>13. \A s : s.sn \in Nat /\ InStream(s, st, sndNxt[n]) => InStream(s, st2, sndNxt[n])
  <2> SUFFICES ASSUME NEW s, s.sn \in Nat, InStream(s, st, sndNxt[n])
               PROVE  st2[s.sn + 1] = st[s.sn + 1]
    BY DEF InStream
  <2>1. s.sn + 1 \in 1..(Len(st) + c) /\ s.sn + 1 <= Len(st)
    BY <1>2, <1>12, SMTT(60) DEF InStream
  <2> QED
    BY <1>5, <2>1
<1>14. Len(st2) = sndNxt[n] + Len(q2)
  BY <1>2, <1>5, <1>6, <1>12, SMTT(60)
<1>15. ASSUME NEW i \in 1..Len(q2)
       PROVE  q2[i] = st2[sndNxt[n] + i]
  <2>1. i \in 1..(Len(sndQueue[n]) + c) /\ sndNxt[n] + i \in 1..(Len(st) + c)
    BY <1>n, <1>m, SMTT(60)
  <2>2. CASE i <= Len(sndQueue[n])
    <3>1. sndNxt[n] + i <= Len(st)
      BY <1>n, <1>m, <2>2, SMTT(60)
    <3> QED
      BY <1>5, <1>6, <1>12, <2>1, <2>2, <3>1
  <2>3. CASE ~(i <= Len(sndQueue[n]))
    <3>1. ~(sndNxt[n] + i <= Len(st)) /\ (sndNxt[n] + i) - Len(st) = i - Len(sndQueue[n])
      <4>1. \A nn, ll, x \in Nat : ~(x <= ll) => ~(nn + x <= nn + ll) /\ (nn + x) - (nn + ll) = x - ll
        OBVIOUS
      <4>2. i \in Nat
        BY <1>n, <1>m
      <4> QED
        BY <1>n, <1>m, <2>3, <4>1, <4>2, SMTT(60)
    <3> QED
      BY <1>5, <1>6, <2>1, <2>3, <3>1
  <2> QED
    BY <2>2, <2>3
<1>16. Direction(n, st2, at2)'
  <2> DEFINE p == Peer(n)
             g == Len(got[p])
  <2>1. /\ sndBuf[n] \in SUBSET Segment /\ rcvBuf[p] \in SUBSET Segment /\ net \subseteq Datagram
        /\ g \in Nat /\ rcvNxt[p] \in Nat /\ Len(rcvQueue[p]) \in Nat
    BY DirTypes DEF WinInv, TypeOK
  <2>2. /\ \A s \in sndBuf[n] : InStream(s, st2, sndNxt[n])
        /\ \A s \in rcvBuf[p] : InStream(s, st2, sndNxt[n])
    BY <1>13, <2>1, SMTT(60) DEF Direction, Segment
  <2>3. \A d \in net : d.to = p /\ d.cmd = "PUSH" => InStream(d.seg, st2, sndNxt[n])
    BY <1>13, <2>1 DEF Direction, Segment, Datagram
  <2>4. g <= Len(ms) /\ rcvNxt[p] <= sndNxt[n] /\ rcvNxt[p] = at[g + 1] + Len(rcvQueue[p])
        /\ \A i \in 1..Len(rcvQueue[p]) : rcvQueue[p][i] = st[at[g + 1] + i]
    BY DEF Direction, ms
  <2>5. g <= Len(ms2) /\ at2[g + 1] = at[g + 1] /\ at[g + 1] \in Nat
    <3>1. g + 1 \in 1..k
      BY <1>2, <2>1, <2>4, SMTT(60) DEF k
    <3> QED
      BY <1>2, <1>4, <1>10, <2>1, <2>4, <3>1, SMTT(60) DEF k, ms
  <2> HIDE DEF p, g
  <2>6. ASSUME NEW i \in 1..Len(rcvQueue[p])
        PROVE  rcvQueue[p][i] = st2[at2[g + 1] + i]
    <3>1. at[g + 1] + i \in 1..(Len(st) + c) /\ at[g + 1] + i <= Len(st)
      <4>1. rcvNxt[p] = at[g + 1] + Len(rcvQueue[p]) /\ rcvNxt[p] <= sndNxt[n]
        BY <2>4
      <4>2. at[g + 1] \in Nat /\ Len(rcvQueue[p]) \in Nat
        BY <2>1, <2>5
      <4>3. \A a, l, x, y, cc \in Nat : \A j \in 1..l :
              a + l <= x => a + j \in 1..((x + y) + cc) /\ a + j <= x + y
        OBVIOUS
      <4>4. at[g + 1] + Len(rcvQueue[p]) <= sndNxt[n]
        BY <4>1
      <4>5. at[g + 1] + i \in 1..((sndNxt[n] + Len(sndQueue[n])) + c)
            /\ at[g + 1] + i <= sndNxt[n] + Len(sndQueue[n])
        BY <1>n, <4>2, <4>3, <4>4
      <4> QED
        BY <1>m, <4>5
    <3> QED
      BY <1>5, <2>4, <2>5, <3>1
  <2>7. /\ Layout(ms2, st2, at2)
        /\ Len(st2) = sndNxt[n] + Len(q2)
        /\ \A i \in 1..Len(q2) : q2[i] = st2[sndNxt[n] + i]
        /\ g <= Len(ms2) /\ rcvNxt[p] <= sndNxt[n] /\ rcvNxt[p] = at2[g + 1] + Len(rcvQueue[p])
    BY <1>11, <1>14, <1>15, <2>4, <2>5
  <2> QED
    BY <1>7, <2>2, <2>3, <2>6, <2>7 DEF Direction, p, g
<1>17. at2 \in [1..(Len(sent'[n]) + 1) -> Nat]
  BY <1>4, <1>7, <1>10
<1> QED
  BY <1>5, <1>16, <1>17

\* ikcp_recv takes the next message of the stream, whole: the fragment
\* numbers count down to 0 at its end.
LEMMA RecvTakes ==
  ASSUME WinInv, NEW n \in Node, NEW st \in Seq(Fragment),
         NEW at \in [1..(Len(sent[n]) + 1) -> Nat], Direction(n, st, at), Recv(Peer(n))
  PROVE  LET p == Peer(n)
             g == Len(got[p]) IN
         /\ g < Len(sent[n])
         /\ HeadLength(p) = Len(sent[n][g + 1])
         /\ Len(sent[n][g + 1]) \in 1..Len(rcvQueue[p])
         /\ got' = [got EXCEPT ![p] = Append(@, sent[n][g + 1])]
<1> USE KcpAssumption
<1> DEFINE p == Peer(n)
           g == Len(got[p])
           q == rcvQueue[p]
           ms == sent[n]
           c == Len(ms[g + 1])
<1>1. TypeOK /\ p \in Node
  BY DirTypes DEF WinInv
<1>2. Len(ms) \in Nat /\ g \in Nat /\ Len(q) \in Nat /\ q \in Seq(Fragment) /\ Len(st) \in Nat
      /\ sndNxt[n] \in Nat /\ Len(sndQueue[n]) \in Nat /\ rcvNxt[p] \in Nat
  BY DirTypes, LenProperties
<1>3. q # <<>> /\ Len(q) >= q[1].frg + 1
  BY DEF Recv, Complete, HeadFrags
<1>4. Len(q) > 0
  BY <1>2, <1>3, EmptySeq
<1>5. /\ Layout(ms, st, at)
      /\ g <= Len(ms)
      /\ \A i \in 1..Len(q) : q[i] = st[at[g + 1] + i]
  BY DEF Direction
<1>6. /\ Len(st) = sndNxt[n] + Len(sndQueue[n])
      /\ rcvNxt[p] <= sndNxt[n]
      /\ rcvNxt[p] = at[g + 1] + Len(q)
  BY DEF Direction
<1>7. got' = [got EXCEPT ![p] = Append(@, [i \in 1..HeadLength(p) |-> q[i].data])]
  BY DEF Recv
<1>8. /\ HeadLength(p) \in 1..Len(q)
      /\ q[HeadLength(p)].frg = 0 \/ HeadLength(p) = Len(q)
      /\ \A j \in 1..(HeadLength(p) - 1) : q[j].frg # 0
  BY <1>1, <1>3, HeadLengthRange
<1>9. ms \in Seq(Seq(Payload))
  BY <1>1 DEF TypeOK
<1> HIDE DEF p, g, q, ms
<1>10. at[g + 1] \in Nat
  <2>1. g + 1 \in 1..(Len(ms) + 1)
    BY <1>2, <1>5
  <2> QED
    BY <2>1 DEF ms
<1>11. g < Len(ms)
  <2> SUFFICES ASSUME g = Len(ms)
               PROVE  FALSE
    BY <1>2, <1>5
  <2>1. at[g + 1] = Len(st)
    BY <1>5 DEF Layout
  <2> QED
    BY <1>2, <1>4, <1>6, <2>1
<1>12. g + 1 \in 1..Len(ms)
  BY <1>2, <1>11
<1>13. c \in Nat /\ c > 0 /\ ms[g + 1] = Content(g + 1, c)
  <2>1. ms[g + 1] \in Seq(Payload)
    BY <1>9, <1>12, ElementOfSeq
  <2> QED
    BY <1>5, <1>12, <2>1, LenProperties DEF Layout
<1>14. \A i \in 1..c : st[at[g + 1] + i] = [frg |-> c - i, data |-> [msg |-> g + 1, part |-> i]]
  BY <1>5, <1>12 DEF Layout
<1> HIDE DEF c
<1>15. c <= Len(q)
  <2>1. q[1] = [frg |-> c - 1, data |-> [msg |-> g + 1, part |-> 1]]
    <3>1. 1 \in 1..c /\ 1 \in 1..Len(q)
      BY <1>2, <1>4, <1>13
    <3> QED
      BY <1>5, <1>14, <3>1
  <2>2. q[1].frg = c - 1
    BY <2>1
  <2> QED
    BY <1>2, <1>3, <1>13, <2>2
<1>16. ASSUME NEW i \in 1..c
       PROVE  q[i].frg = c - i /\ q[i].data = [msg |-> g + 1, part |-> i]
  <2>1. i \in 1..Len(q)
    BY <1>2, <1>13, <1>15
  <2>2. q[i] = [frg |-> c - i, data |-> [msg |-> g + 1, part |-> i]]
    BY <1>5, <1>14, <2>1
  <2> QED
    BY <2>2
<1>17. HeadLength(p) = c
  <2> DEFINE k == HeadLength(p)
  <2>1. k \in Nat /\ k >= 1 /\ k <= Len(q)
    BY <1>2, <1>8
  <2>2. ~(k < c)
    <3> SUFFICES ASSUME k < c
                 PROVE  FALSE
      OBVIOUS
    <3>1. k \in 1..c
      BY <1>13, <2>1
    <3>2. q[k].frg = c - k
      BY <1>16, <3>1
    <3>3. c - k # 0 /\ k # Len(q)
      BY <1>2, <1>13, <1>15, <2>1
    <3> QED
      BY <1>8, <3>2, <3>3
  <2>3. ~(c < k)
    <3> SUFFICES ASSUME c < k
                 PROVE  FALSE
      OBVIOUS
    <3>1. c \in 1..(k - 1) /\ c \in 1..c /\ c - c = 0
      BY <1>13, <2>1
    <3> QED
      BY <1>8, <1>16, <3>1
  <2> HIDE DEF k
  <2>4. k = c
    BY <1>13, <2>1, <2>2, <2>3
  <2> QED
    BY <2>4 DEF k
<1>18. [i \in 1..c |-> q[i].data] = ms[g + 1]
  BY <1>13, <1>16 DEF Content
<1>19. got' = [got EXCEPT ![p] = Append(@, ms[g + 1])]
  BY <1>7, <1>17, <1>18
<1>20. c \in 1..Len(q)
  BY <1>2, <1>13, <1>15
<1> QED
  BY <1>11, <1>17, <1>19, <1>20 DEF p, g, q, ms, c

\* ikcp_recv moves the end of what was received over one message.
LEMMA DirRecv ==
  ASSUME WinInv, NEW n \in Node, NEW st \in Seq(Fragment),
         NEW at \in [1..(Len(sent[n]) + 1) -> Nat], Direction(n, st, at), Recv(Peer(n))
  PROVE  Direction(n, st, at)'
<1> USE KcpAssumption
<1> DEFINE p == Peer(n)
           g == Len(got[p])
           q == rcvQueue[p]
           ms == sent[n]
           c == Len(ms[g + 1])
           rest == SubSeq(q, c + 1, Len(q))
           base == at[g + 2]
<1>1. TypeOK /\ p \in Node
  BY DirTypes DEF WinInv
<1>2. Len(ms) \in Nat /\ g \in Nat /\ Len(q) \in Nat /\ q \in Seq(Fragment)
      /\ rcvNxt[p] \in Nat /\ Len(q) <= RcvWnd /\ rcvBuf[p] \in SUBSET Segment
  BY DirTypes
<1>3. /\ g < Len(ms) /\ c \in 1..Len(q) /\ c \in Nat
      /\ HeadLength(p) = c
      /\ got' = [got EXCEPT ![p] = Append(@, ms[g + 1])]
  BY RecvTakes, SMTT(60)
<1>4. Move(p, rest, rcvBuf[p]) /\ UNCHANGED <<sndVars, net, sent>>
  BY <1>3 DEF Recv
<1>5. /\ \A i \in 1..Len(q) : q[i] = st[at[g + 1] + i]
      /\ \A s \in rcvBuf[p] : InStream(s, st, sndNxt[n])
  BY DEF Direction
<1>6. rcvNxt[p] = at[g + 1] + Len(q) /\ rcvNxt[p] <= sndNxt[n]
  BY DEF Direction
<1>7. Len(got'[p]) = g + 1
  BY <1>1, <1>3 DEF TypeOK
<1>8. at[g + 2] = at[g + 1] + c
  <2>1. g + 1 \in 1..Len(ms) /\ (g + 1) + 1 = g + 2
    BY <1>2, <1>3, SMTT(60)
  <2> QED
    BY <2>1 DEF Direction, Layout
<1>9. at[g + 1] \in Nat /\ base \in Nat
  <2>1. g + 1 \in 1..(Len(ms) + 1) /\ g + 2 \in 1..(Len(ms) + 1)
    BY <1>2, <1>3, SMTT(60)
  <2> QED
    BY <2>1
<1> HIDE DEF p, g, q, ms, c
<1>10. /\ rest \in Seq(Fragment) /\ Len(rest) = Len(q) - c
       /\ \A i \in 1..(Len(q) - c) : rest[i] = q[c + i]
  <2>1. c \in 0..Len(q)
    BY <1>2, <1>3
  <2> QED
    BY <1>2, <2>1, DropFirst
<1> HIDE DEF rest, base
<1>11. base = at[g + 1] + c
  BY <1>8 DEF base
<1>12. Len(rest) <= RcvWnd /\ rcvNxt[p] = base + Len(rest)
  BY <1>2, <1>3, <1>6, <1>9, <1>10, <1>11, SMTT(60)
<1>13. ASSUME NEW i \in 1..Len(rest)
       PROVE  rest[i] = st[base + i]
  <2>1. i \in 1..(Len(q) - c) /\ c + i \in 1..Len(q)
    BY <1>2, <1>3, <1>10
  <2>2. at[g + 1] + (c + i) = base + i
    BY <1>2, <1>3, <1>9, <1>11, <2>1, SMTT(60)
  <2> QED
    BY <1>5, <1>10, <2>1, <2>2
<1>14. /\ rcvNxt'[p] <= sndNxt[n]
       /\ rcvNxt'[p] = base + Len(rcvQueue'[p])
       /\ \A i \in 1..Len(rcvQueue'[p]) : rcvQueue'[p][i] = st[base + i]
       /\ \A s \in rcvBuf'[p] : InStream(s, st, sndNxt[n])
  BY <1>2, <1>4, <1>5, <1>6, <1>9, <1>10, <1>12, <1>13, DirMove, ZenonT(60) DEF p
<1>15. base = at[Len(got'[p]) + 1] /\ Len(got'[p]) <= Len(ms)
  BY <1>2, <1>3, <1>7, SMTT(60) DEF base
<1> QED
  BY <1>4, <1>14, <1>15 DEF Direction, p, ms, sndVars

\* ikcp_input at the receiver: what it stores is of the stream.
LEMMA DirInput ==
  ASSUME WinInv, NEW n \in Node, NEW st \in Seq(Fragment),
         NEW at \in [1..(Len(sent[n]) + 1) -> Nat], Direction(n, st, at),
         NEW d \in net, Input(d)
  PROVE  Direction(n, st, at)'
<1> USE KcpAssumption
<1> DEFINE p == Peer(n)
<1>1. TypeOK /\ p \in Node /\ d \in Datagram /\ SndType /\ RcvType
  BY DirTypes, TypeParts DEF WinInv, NetType
<1>2. d.to \in Node /\ d.seg \in Segment
  BY <1>1 DEF Datagram
<1>3. net' \subseteq net /\ UNCHANGED hisVars /\ sndNxt' = sndNxt /\ sndQueue' = sndQueue
  BY WinArrive DEF Input, InputAck, InputPush, InputWask, InputWins, Acknowledge
<1>4. sndBuf'[n] \subseteq sndBuf[n]
  <2>1. PICK acked : Acknowledge(d.to, d, acked)
    BY DEF Input, InputAck, InputPush, InputWask, InputWins
  <2>2. sndBuf' = [sndBuf EXCEPT
          ![d.to] = {s \in sndBuf[d.to] : s.sn >= d.una /\ s.sn \notin acked}]
    BY <2>1 DEF Acknowledge
  <2> QED
    BY <1>1, <1>2, <2>2 DEF SndType
<1>5. CASE rcvBuf'[p] = rcvBuf[p] /\ rcvNxt'[p] = rcvNxt[p] /\ rcvQueue'[p] = rcvQueue[p]
  BY <1>3, <1>4, <1>5, DirFrame DEF hisVars
<1>6. CASE InputPush(d) /\ d.to = p
  <2> DEFINE sn == d.seg.sn
             buf == IF sn \in Numbers(rcvBuf[p]) THEN rcvBuf[p] ELSE rcvBuf[p] \cup {d.seg}
             base == at[Len(got[p]) + 1]
  <2>1. CASE UNCHANGED <<rcvQueue, rcvBuf, rcvNxt>>
    BY <1>5, <2>1
  <2>2. CASE Move(p, rcvQueue[p], buf)
    <3>1. /\ \A s \in rcvBuf[p] : InStream(s, st, sndNxt[n])
          /\ InStream(d.seg, st, sndNxt[n])
      BY <1>6 DEF Direction, InputPush
    <3>2. \A s \in buf : InStream(s, st, sndNxt[n])
      BY <3>1
    <3>3. buf \in SUBSET Segment
      BY <1>1, <1>2 DEF RcvType
    <3>4. base \in Nat /\ Len(got[p]) <= Len(sent[n])
      <4>1. Len(got[p]) <= Len(sent[n])
        BY DEF Direction
      <4>2. Len(got[p]) + 1 \in 1..(Len(sent[n]) + 1)
        BY <4>1, DirTypes
      <4> QED
        BY <4>1, <4>2
    <3>5. /\ rcvNxt[p] <= sndNxt[n] /\ rcvNxt[p] = base + Len(rcvQueue[p])
          /\ \A i \in 1..Len(rcvQueue[p]) : rcvQueue[p][i] = st[base + i]
      BY DEF Direction
    <3>6. rcvQueue[p] \in Seq(Fragment) /\ Len(rcvQueue[p]) <= RcvWnd
      BY DirTypes
    <3> HIDE DEF buf, base
    <3>7. /\ rcvNxt'[p] <= sndNxt[n]
          /\ rcvNxt'[p] = base + Len(rcvQueue'[p])
          /\ \A i \in 1..Len(rcvQueue'[p]) : rcvQueue'[p][i] = st[base + i]
          /\ \A s \in rcvBuf'[p] : InStream(s, st, sndNxt[n])
      BY <2>2, <3>2, <3>3, <3>4, <3>5, <3>6, DirMove, ZenonT(60)
    <3>8. base = at[Len(got'[p]) + 1]
      BY <1>3 DEF base, hisVars
    <3>9. /\ \A s \in sndBuf'[n] : InStream(s, st, sndNxt[n])
          /\ \A e \in net' : e.to = p /\ e.cmd = "PUSH" => InStream(e.seg, st, sndNxt[n])
      BY <1>3, <1>4 DEF Direction
    <3> HIDE DEF p
    <3> QED
      BY <1>3, <3>4, <3>7, <3>8, <3>9 DEF Direction, hisVars, p
  <2> QED
    BY <1>6, <2>1, <2>2 DEF InputPush
<1>7. CASE InputPush(d) /\ d.to # p
  <2>1. rcvBuf'[p] = rcvBuf[p] /\ rcvNxt'[p] = rcvNxt[p] /\ rcvQueue'[p] = rcvQueue[p]
    BY <1>1, <1>7 DEF InputPush, Move, RcvType
  <2> QED
    BY <1>5, <2>1, SMTT(60)
<1>8. CASE UNCHANGED rcvVars
  BY <1>5, <1>8 DEF rcvVars
<1> QED
  BY <1>6, <1>7, <1>8 DEF Input, InputAck, InputWask, InputWins

\* ikcp_flush at the sender: the segments it numbers go on with the stream.
LEMMA DirFlush ==
  ASSUME WinInv, NEW n \in Node, NEW st \in Seq(Fragment),
         NEW at \in [1..(Len(sent[n]) + 1) -> Nat], Direction(n, st, at),
         NEW again, NEW due, Flush(n, again, due)
  PROVE  Direction(n, st, at)'
<1> USE KcpAssumption
<1> DEFINE p == Peer(n)
           k == Sendable(n)
           new == NewSegments(n, k)
           q == sndQueue[n]
           q2 == SubSeq(q, k + 1, Len(q))
           nxt == sndNxt[n]
<1>1. SndType
  BY TypeParts DEF WinInv
<1>2. q \in Seq(Fragment) /\ Len(q) \in Nat /\ nxt \in Nat /\ sndBuf[n] \in SUBSET Segment
  BY DirTypes
<1>3. k \in 0..Len(q)
  BY SendableRange
<1>4. /\ new \in SUBSET Segment
      /\ \A s \in new : nxt <= s.sn /\ s.sn < nxt + k
      /\ \A s \in new : s.sn + 1 - nxt \in 1..k /\ AsFragment(s) = q[s.sn + 1 - nxt]
  BY <1>3, NewSegmentsShape
<1>5. /\ sndBuf' = [sndBuf EXCEPT ![n] = @ \cup new]
      /\ sndQueue' = [sndQueue EXCEPT ![n] = q2]
      /\ sndNxt' = [sndNxt EXCEPT ![n] = nxt + k]
      /\ UNCHANGED <<rcvQueue, rcvBuf, rcvNxt, hisVars>>
      /\ \A d \in net' :
           \/ d \in net
           \/ \E sn \in acklist[n] : d = Encode(n, "ACK", [NoSegment EXCEPT !.sn = sn])
           \/ \E cmd \in {"WASK", "WINS"} : d = Encode(n, cmd, NoSegment)
           \/ \E s \in new \cup sndBuf[n] : d = Encode(n, "PUSH", s)
  BY Flushes
<1>6. sndBuf'[n] = sndBuf[n] \cup new /\ sndQueue'[n] = q2 /\ sndNxt'[n] = nxt + k
  BY <1>1, <1>5 DEF SndType
<1>7. Len(st) = nxt + Len(q)
  BY DEF Direction
<1>8. /\ \A i \in 1..Len(q) : q[i] = st[nxt + i]
      /\ \A s \in sndBuf[n] : InStream(s, st, nxt)
      /\ \A s \in rcvBuf[p] : InStream(s, st, nxt)
      /\ \A d \in net : d.to = p /\ d.cmd = "PUSH" => InStream(d.seg, st, nxt)
  BY DEF Direction
<1>9. /\ Layout(sent[n], st, at) /\ Len(got[p]) <= Len(sent[n]) /\ rcvNxt[p] <= nxt
      /\ rcvNxt[p] = at[Len(got[p]) + 1] + Len(rcvQueue[p])
      /\ \A i \in 1..Len(rcvQueue[p]) : rcvQueue[p][i] = st[at[Len(got[p]) + 1] + i]
  BY DEF Direction
<1>10. rcvNxt[p] \in Nat /\ rcvBuf[p] \in SUBSET Segment /\ net \subseteq Datagram
  BY DirTypes DEF WinInv, TypeOK
<1> HIDE DEF k, new
<1>11. /\ Len(q2) = Len(q) - k
       /\ \A i \in 1..(Len(q) - k) : q2[i] = q[k + i]
  BY <1>2, <1>3, DropFirst
<1> HIDE DEF p, q, q2, nxt
<1>12. k \in Nat /\ k <= Len(q)
  BY <1>2, <1>3
<1>13. Len(st) = (nxt + k) + Len(q2)
  BY <1>2, <1>7, <1>11, <1>12
<1>14. ASSUME NEW i \in 1..Len(q2)
       PROVE  q2[i] = st[(nxt + k) + i]
  <2>1. i \in 1..(Len(q) - k) /\ k + i \in 1..Len(q) /\ nxt + (k + i) = (nxt + k) + i
    BY <1>2, <1>11, <1>12, SMTT(60)
  <2> QED
    BY <1>8, <1>11, <2>1
<1>15. ASSUME NEW s \in Segment, InStream(s, st, nxt)
       PROVE  InStream(s, st, nxt + k)
  <2>1. s.sn \in Nat
    BY DEF Segment
  <2> QED
    BY <1>2, <1>12, <1>15, <2>1 DEF InStream
<1>16. ASSUME NEW s \in new
       PROVE  InStream(s, st, nxt + k)
  <2>1. s.sn \in Nat /\ s.sn < nxt + k /\ s.sn + 1 - nxt \in 1..k /\ AsFragment(s) = q[s.sn + 1 - nxt]
    BY <1>4 DEF Segment
  <2>2. s.sn + 1 - nxt \in 1..Len(q) /\ nxt + (s.sn + 1 - nxt) = s.sn + 1
    BY <1>2, <1>12, <2>1, SMTT(60)
  <2> QED
    BY <1>8, <2>1, <2>2 DEF InStream
<1>17. /\ \A s \in sndBuf[n] \cup new : InStream(s, st, nxt + k)
       /\ \A s \in rcvBuf[p] : InStream(s, st, nxt + k)
  BY <1>2, <1>8, <1>10, <1>15, <1>16
<1>18. ASSUME NEW d \in net', d.to = p, d.cmd = "PUSH"
       PROVE  InStream(d.seg, st, nxt + k)
  <2>1. CASE d \in net
    <3>1. d.seg \in Segment
      BY <1>10, <2>1 DEF Datagram
    <3> QED
      BY <1>8, <1>15, <1>18, <2>1, <3>1
  <2>2. ASSUME NEW cmd, NEW s, d = Encode(n, cmd, s)
        PROVE  d.cmd = cmd /\ d.seg = s
    BY <2>2 DEF Encode
  <2>3. CASE \E s \in new \cup sndBuf[n] : d = Encode(n, "PUSH", s)
    BY <1>17, <2>2, <2>3
  <2>4. CASE \E sn \in acklist[n] : d = Encode(n, "ACK", [NoSegment EXCEPT !.sn = sn])
    <3>1. d.cmd = "ACK"
      BY <2>2, <2>4
    <3> QED
      BY <1>18, <3>1
  <2>5. CASE \E cmd \in {"WASK", "WINS"} : d = Encode(n, cmd, NoSegment)
    <3>1. d.cmd \in {"WASK", "WINS"}
      BY <2>2, <2>5
    <3> QED
      BY <1>18, <3>1
  <2> QED
    BY <1>5, <2>1, <2>3, <2>4, <2>5
<1>19. rcvNxt[p] <= nxt + k
  BY <1>2, <1>9, <1>10, <1>12
<1> QED
  BY <1>5, <1>6, <1>9, <1>13, <1>14, <1>17, <1>18, <1>19, ZenonT(60) DEF Direction, p, hisVars

\* Every step keeps each direction.
LEMMA StreamStep == WinInv /\ StreamInv /\ [Next]_vars => StreamInv'
<1> SUFFICES ASSUME WinInv, StreamInv, [Next]_vars, NEW n \in Node
             PROVE  \E st \in Seq(Fragment) : \E at \in [1..(Len(sent'[n]) + 1) -> Nat] :
                      Direction(n, st, at)'
  BY DEF StreamInv
<1> DEFINE p == Peer(n)
           Goal == \E st \in Seq(Fragment) : \E at \in [1..(Len(sent'[n]) + 1) -> Nat] :
                     Direction(n, st, at)'
<1>1. PICK st \in Seq(Fragment) : \E at \in [1..(Len(sent[n]) + 1) -> Nat] : Direction(n, st, at)
  BY DEF StreamInv
<1>2. PICK at \in [1..(Len(sent[n]) + 1) -> Nat] : Direction(n, st, at)
  BY <1>1
<1>3. p \in Node /\ p # n /\ Peer(p) = n /\ \A m \in Node : m = n \/ m = p
  BY Peers
<1>4. SndType /\ RcvType /\ HisType
  BY TypeParts DEF WinInv
<1>5. ASSUME sent'[n] = sent[n], Direction(n, st, at)'
      PROVE  Goal
  BY <1>5
<1>6. ASSUME NEW m \in Node, NEW c \in 1..MaxFrags, Send(m, c)
      PROVE  Goal
  <2>1. CASE m = n
    BY <1>2, <1>6, <2>1, DirSend
  <2>2. CASE m # n
    <3>1. sent'[n] = sent[n] /\ sndQueue'[n] = sndQueue[n]
      BY <1>4, <1>6, <2>2 DEF Send, SndType, HisType
    <3>2. UNCHANGED <<sndBuf, sndNxt, rcvQueue, rcvBuf, rcvNxt, net, got>>
      BY <1>6 DEF Send, rcvVars
    <3>3. Direction(n, st, at)'
      BY <1>2, <3>1, <3>2, DirFrame
    <3> QED
      BY <1>5, <3>1, <3>3
  <2> QED
    BY <2>1, <2>2
<1>7. ASSUME NEW m \in Node, Recv(m)
      PROVE  Goal
  <2>1. sent' = sent /\ UNCHANGED <<sndBuf, sndNxt, sndQueue, net>>
    BY <1>7 DEF Recv, sndVars
  <2>2. CASE m = p
    BY <1>2, <1>5, <1>7, <2>1, <2>2, DirRecv
  <2>3. CASE m # p
    <3>1. rcvBuf'[p] = rcvBuf[p] /\ rcvNxt'[p] = rcvNxt[p] /\ rcvQueue'[p] = rcvQueue[p]
          /\ got'[p] = got[p]
      BY <1>3, <1>4, <1>7, <2>3 DEF Recv, Move, RcvType, HisType
    <3>2. Direction(n, st, at)'
      BY <1>2, <2>1, <3>1, DirFrame
    <3> QED
      BY <1>5, <2>1, <3>2, SMTT(60)
  <2> QED
    BY <2>2, <2>3
<1>8. ASSUME NEW m \in Node, NEW again, NEW due, Flush(m, again, due)
      PROVE  Goal
  <2>1. sent' = sent /\ UNCHANGED <<rcvBuf, rcvNxt, rcvQueue, got>>
    BY <1>8 DEF Flush, hisVars
  <2>2. CASE m = n
    BY <1>2, <1>5, <1>8, <2>1, <2>2, DirFlush
  <2>3. CASE m = p
    <3>1. sndBuf'[n] = sndBuf[n] /\ sndNxt'[n] = sndNxt[n] /\ sndQueue'[n] = sndQueue[n]
      BY <1>3, <1>4, <1>8, <2>3 DEF Flush, SndType
    <3>2. ASSUME NEW d \in net', d \notin net
          PROVE  d.to = n
      <4>1. \E cmd, s : d = Encode(p, cmd, s)
        <5>1. \/ \E sn \in acklist[p] : d = Encode(p, "ACK", [NoSegment EXCEPT !.sn = sn])
              \/ \E cmd \in {"WASK", "WINS"} : d = Encode(p, cmd, NoSegment)
              \/ \E s \in NewSegments(p, Sendable(p)) \cup sndBuf[p] : d = Encode(p, "PUSH", s)
          BY <1>3, <1>8, <2>3, <3>2, Flushes
        <5> QED
          BY <5>1, Zenon
      <4> QED
        BY <1>3, <4>1 DEF Encode
    <3>3. Direction(n, st, at)'
      BY <1>2, <1>3, <2>1, <3>1, <3>2, DirFrame
    <3> QED
      BY <1>5, <2>1, <3>3
  <2> QED
    BY <1>3, <2>2, <2>3
<1>9. ASSUME NEW d \in net, Input(d)
      PROVE  Goal
  <2>1. sent' = sent
    BY <1>9 DEF Input, InputAck, InputPush, InputWask, InputWins, hisVars
  <2> QED
    BY <1>2, <1>5, <1>9, <2>1, DirInput
<1>10. CASE (\E d \in net : Lose(d)) \/ UNCHANGED vars
  <2>1. UNCHANGED <<sndVars, rcvVars, hisVars>> /\ net' \subseteq net
    BY <1>10 DEF Lose, vars
  <2>2. Direction(n, st, at)'
    BY <1>2, <2>1, DirFrame DEF sndVars, rcvVars, hisVars
  <2> QED
    BY <1>5, <2>1, <2>2 DEF hisVars
<1> QED
  BY <1>6, <1>7, <1>8, <1>9, <1>10 DEF Next

\* At first every stream is empty.
LEMMA StreamInit == Init => StreamInv
<1> SUFFICES ASSUME Init, NEW n \in Node
             PROVE  \E st \in Seq(Fragment) : \E at \in [1..(Len(sent[n]) + 1) -> Nat] :
                      Direction(n, st, at)
  BY DEF StreamInv
<1> DEFINE at == [i \in 1..1 |-> 0]
<1>1. <<>> \in Seq(Fragment) /\ Len(<<>>) = 0
  BY EmptySeq
<1>2. Peer(n) \in Node
  BY Peers
<1>3. sent[n] = <<>> /\ sndQueue[n] = <<>> /\ sndBuf[n] = {} /\ sndNxt[n] = 0
      /\ rcvQueue[Peer(n)] = <<>> /\ rcvBuf[Peer(n)] = {} /\ rcvNxt[Peer(n)] = 0
      /\ got[Peer(n)] = <<>> /\ net = {}
  BY <1>2 DEF Init
<1>4. at \in [1..(0 + 1) -> Nat] /\ at[1] = 0 /\ at[0 + 1] = 0
  OBVIOUS
<1> HIDE DEF at
<1>5. Layout(<<>>, <<>>, at)
  BY <1>1, <1>4 DEF Layout
<1>6. Direction(n, <<>>, at)
  BY <1>1, <1>3, <1>4, <1>5 DEF Direction
<1> QED
  BY <1>1, <1>3, <1>4, <1>6

\* The stream is kept in every state.
LEMMA StreamInvariant == Spec => []StreamInv
BY StreamInit, StreamStep, WinInvariant, PTL DEF Spec

-----------------------------------------------------------------------------
(***************************************************************************)
(* The refinement.                                                         *)
(***************************************************************************)
\* Every step of KCP is a step of the channel or leaves it as it is: ikcp_send
\* sends, ikcp_recv delivers, and nothing else shows.
LEMMA ChannelStep == WinInv /\ StreamInv /\ [Next]_vars => [Chan!Next]_(Chan!vars)
<1> SUFFICES ASSUME WinInv, StreamInv, [Next]_vars
             PROVE  [Chan!Next]_(Chan!vars)
  OBVIOUS
<1> USE KcpAssumption
<1>1. ASSUME NEW n \in Node, NEW c \in 1..MaxFrags, Send(n, c)
      PROVE  Chan!Next
  <2> DEFINE k == Len(sent[n]) + 1
  <2>1. Len(sent[n]) \in Nat /\ k \in 1..Max(ServerMsgs, ClientMsgs)
    <3>1. Len(sent[n]) \in Nat
      BY DirTypes
    <3>2. Len(sent[n]) < MaxSent(n)
      BY <1>1 DEF Send
    <3> QED
      BY <3>1, <3>2 DEF MaxSent, Max
  <2>2. Content(k, c) \in Messages
    BY <2>1, SMTT(60) DEF Messages
  <2>3. Chan!Send(n, Content(k, c))
    BY <1>1 DEF Send, Chan!Send
  <2> QED
    BY <2>2, <2>3 DEF Chan!Next
<1>2. ASSUME NEW n \in Node, Recv(n)
      PROVE  Chan!Next
  <2> DEFINE p == Peer(n)
  <2>1. p \in Node /\ Peer(p) = n
    BY Peers
  <2>2. PICK st \in Seq(Fragment) : \E at \in [1..(Len(sent[p]) + 1) -> Nat] : Direction(p, st, at)
    BY <2>1 DEF StreamInv
  <2>3. PICK at \in [1..(Len(sent[p]) + 1) -> Nat] : Direction(p, st, at)
    BY <2>2
  <2>4. Len(got[n]) < Len(sent[p]) /\ got' = [got EXCEPT ![n] = Append(@, sent[p][Len(got[n]) + 1])]
    BY <1>2, <2>1, <2>3, RecvTakes
  <2>5. sent' = sent
    BY <1>2 DEF Recv
  <2>6. Chan!Deliver(n)
    BY <2>4, <2>5 DEF Chan!Deliver
  <2> QED
    BY <2>6 DEF Chan!Next
<1>3. ASSUME NEW d \in net, Input(d) \/ Lose(d)
      PROVE  UNCHANGED Chan!vars
  BY <1>3 DEF Input, InputAck, InputPush, InputWask, InputWins, Lose, hisVars, Chan!vars
<1>4. ASSUME NEW n \in Node, NEW again, NEW due, Flush(n, again, due)
      PROVE  UNCHANGED Chan!vars
  BY <1>4 DEF Flush, hisVars, Chan!vars
<1>5. CASE UNCHANGED vars
  BY <1>5 DEF vars, hisVars, Chan!vars
<1> QED
  BY <1>1, <1>2, <1>3, <1>4, <1>5 DEF Next

(***************************************************************************)
(* KCP implements the channel: the messages ikcp_recv returns are, one by  *)
(* one and whole, those the other end gave to ikcp_send, in that order,    *)
(* whatever the network loses, duplicates or reorders.                     *)
(***************************************************************************)
THEOREM KcpIsChannel == Spec => ImplementsChannel
<1>1. Init => Chan!Init
  BY DEF Init, Chan!Init
<1> QED
  BY <1>1, ChannelStep, WinInvariant, StreamInvariant, PTL DEF Spec, ImplementsChannel, Chan!Spec
=============================================================================
