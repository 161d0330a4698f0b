------------------------------ MODULE Channel -------------------------------
(***************************************************************************)
(* What a KCP connection promises each of its two ends: whole messages,    *)
(* each exactly once, in the order they were sent.  The network below may  *)
(* lose, duplicate, delay and reorder datagrams; none of it shows here.    *)
(***************************************************************************)
EXTENDS Naturals, Sequences

CONSTANTS
  Node,     \* the two ends of the connection
  Peer(_),  \* the other end
  Message   \* what may be sent

VARIABLES
  sent,     \* the messages each end has sent
  got       \* the messages each end has received

vars == <<sent, got>>

Init ==
  /\ sent = [n \in Node |-> <<>>]
  /\ got = [n \in Node |-> <<>>]

Send(n, m) ==
  /\ sent' = [sent EXCEPT ![n] = Append(@, m)]
  /\ UNCHANGED got

\* The next message of the other end, and no other one, is received.
Deliver(n) ==
  /\ Len(got[n]) < Len(sent[Peer(n)])
  /\ got' = [got EXCEPT ![n] = Append(@, sent[Peer(n)][Len(@) + 1])]
  /\ UNCHANGED sent

Next == \E n \in Node : Deliver(n) \/ \E m \in Message : Send(n, m)

Spec == Init /\ [][Next]_vars
=============================================================================
