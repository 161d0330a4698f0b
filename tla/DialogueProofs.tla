--------------------------- MODULE DialogueProofs ---------------------------
(***************************************************************************)
(* The safety properties of Dialogue, proved for every set of requests,    *)
(* any number of them, and with or without a dispatch key.                 *)
(***************************************************************************)
EXTENDS Dialogue, TLAPS

Has(q, op) == \E i \in 1..Len(q) : q[i].op = op

\* What each end got is the beginning of what the other one sent.
Streams ==
  /\ Len(got["client"]) <= Len(sent["server"])
  /\ \A i \in 1..Len(got["client"]) : got["client"][i] = sent["server"][i]
  /\ Len(got["server"]) <= Len(sent["client"])
  /\ \A i \in 1..Len(got["server"]) : got["server"][i] = sent["client"][i]

\* The server's packets change their key behind the token response.
ServerKeys ==
  \A i \in 1..Len(sent["server"]) :
    sent["server"][i].key =
      IF sent["server"][i].op \in {"TokenRsp", "LoginRsp"} THEN dispatchKey
      ELSE IF \E j \in 1..(i - 1) : sent["server"][j].op = "TokenRsp" THEN "session"
      ELSE dispatchKey

\* The server uses the session key once the token response was sent or is
\* all it has to send.  When that failed it sends nothing anymore.
Switched ==
  /\ use_secret_key => Sent("server", "TokenRsp") \/ todo \in {<<>>, <<"TokenRsp">>}
  /\ Sent("server", "TokenRsp") => use_secret_key
  /\ \A i \in 1..Len(todo) : todo[i] = "TokenRsp" => use_secret_key
  /\ use_secret_key => Has(got["server"], "TokenReq")

\* The client uses the key it was told of, and the server knows that key.
ClientKeys ==
  /\ clientKey = IF Has(got["client"], "TokenRsp") THEN "session" ELSE dispatchKey
  /\ \A i \in 1..Len(sent["client"]) :
       /\ sent["client"][i].key \in {dispatchKey, "session"}
       /\ sent["client"][i].key = "session" => Sent("server", "TokenRsp")

(***************************************************************************)
(* Where the session is when it has a player without a current avatar; a   *)
(* response behind which the handler goes on is all it has to send.        *)
(***************************************************************************)
AvatarState ==
  /\ after = state \/ state = "NOT_CONNECTED" \/ (state = "LOGIN_WAIT" /\ after = "ACTIVE")
  /\ player # NULL /\ curAvatar # "set" =>
       /\ state \in {"LOGIN_WAIT", "NOT_CONNECTED"}
       /\ after = "LOGIN_WAIT" \/ todo = <<"LoginRsp">>
  /\ curAvatar = "set" => state # "TOKEN_WAIT"
  /\ \A i \in 1..Len(todo) :
       /\ todo[i] = "LoginRsp" => todo = <<"LoginRsp">> /\ state = "LOGIN_WAIT"
       /\ todo[i] = "PlayerEnterSceneInfoNotify" => player # NULL
  /\ crashed => curAvatar # "set" /\ state = "LOGIN_WAIT"

Avatars == AvatarState /\ (Sent("server", "LoginRsp") => curAvatar = "set")

Inv ==
  /\ TypeOK /\ Streams /\ ServerKeys /\ Switched /\ ClientKeys /\ Avatars
  /\ ClientReads /\ DropsOnlyInSwitch

-----------------------------------------------------------------------------
\* loadKeys: the dispatch key is never the session key.
LEMMA DispatchKey == dispatchKey \in {"plain", "dispatch"}
BY DEF dispatchKey

\* What appending to a sequence does.
LEMMA AppendFacts ==
  ASSUME NEW T, NEW q \in Seq(T), NEW e \in T
  PROVE  /\ Append(q, e) \in Seq(T)
         /\ Len(Append(q, e)) = Len(q) + 1
         /\ \A i \in 1..Len(q) : Append(q, e)[i] = q[i]
         /\ Append(q, e)[Len(q) + 1] = e
OBVIOUS

\* Short tuples are sequences.
LEMMA Tuples ==
  ASSUME NEW T, NEW a \in T, NEW b \in T, NEW c \in T
  PROVE  /\ <<>> \in Seq(T) /\ Len(<<>>) = 0
         /\ <<a>> \in Seq(T) /\ Len(<<a>>) = 1 /\ <<a>>[1] = a
         /\ <<a, b>> \in Seq(T) /\ Len(<<a, b>>) = 2 /\ <<a, b>>[1] = a /\ <<a, b>>[2] = b
         /\ <<a, b, c>> \in Seq(T) /\ Len(<<a, b, c>>) = 3
         /\ <<a, b, c>>[1] = a /\ <<a, b, c>>[2] = b /\ <<a, b, c>>[3] = c
OBVIOUS

\* The packets that are not marked for the dispatch key.
Unmarked == Responses \ {"TokenRsp", "LoginRsp"}

\* A sequence of them contains neither marked response.
LEMMA UnmarkedSeq ==
  ASSUME NEW q \in Seq(Unmarked)
  PROVE  /\ q \in Seq(Responses)
         /\ \A i \in 1..Len(q) : q[i] \notin {"TokenRsp", "LoginRsp"}
<1>1. \A i \in 1..Len(q) : q[i] \in Unmarked
  OBVIOUS
<1>2. q = [i \in 1..Len(q) |-> q[i]] /\ Len(q) \in Nat
  OBVIOUS
<1> QED
  BY <1>1, <1>2 DEF Unmarked

\* Tuples of them are such sequences.
LEMMA Answers3 ==
  \A a, b, c \in Unmarked :
    <<>> \in Seq(Unmarked) /\ <<a>> \in Seq(Unmarked) /\ <<a, b>> \in Seq(Unmarked)
      /\ <<a, b, c>> \in Seq(Unmarked)
BY Tuples

\* The answers of the requests other than the two of the login are unmarked.
LEMMA NamesUnmarked ==
  {"PingRsp", "BlacklistRsp", "EnterScenePeerNotify", "EnterSceneReadyRsp", "SceneInitFinishRsp",
   "PlayerEnterSceneInfoNotify", "SceneTeamUpdateNotify"} \subseteq Unmarked
BY DEF Unmarked, Responses

\* The packets behind which the handler just goes on.
Plain == Unmarked \ {"PlayerEnterSceneInfoNotify"}

\* What onLogin and getCurAvatar have to send is of that kind.
LEMMA PlainAnswers ==
  ASSUME NEW q \in {Notifies, <<>>, <<"SceneTeamUpdateNotify", "SceneInitFinishRsp">>,
                    <<"SceneInitFinishRsp">>}
  PROVE  /\ q \in Seq(Responses)
         /\ \A i \in 1..Len(q) : q[i] \in Plain
<1>1. Notifies \in Seq(Plain)
  BY DEF Notifies, Plain, Unmarked, Responses
<1>2. <<>> \in Seq(Plain) /\ <<"SceneTeamUpdateNotify", "SceneInitFinishRsp">> \in Seq(Plain)
      /\ <<"SceneInitFinishRsp">> \in Seq(Plain)
  <2>1. "SceneTeamUpdateNotify" \in Plain /\ "SceneInitFinishRsp" \in Plain
    BY DEF Plain, Unmarked, Responses
  <2> QED
    BY <2>1, Tuples
<1>3. q \in Seq(Plain)
  BY <1>1, <1>2, Zenon
<1>4. \A i \in 1..Len(q) : q[i] \in Plain
  BY <1>3
<1>5. q = [i \in 1..Len(q) |-> q[i]] /\ Len(q) \in Nat
  BY <1>3
<1>6. Plain \subseteq Responses
  BY DEF Plain, Unmarked
<1>7. q \in Seq(Responses)
  BY <1>4, <1>5, <1>6
<1> QED
  BY <1>4, <1>7

\* What sending does to the two streams.
LEMMA SendFacts ==
  ASSUME TypeOK, NEW n \in {"server", "client"}, NEW m \in Packet, Ch!Send(n, m)
  PROVE  /\ got' = got
         /\ sent' \in [{"server", "client"} -> Seq(Packet)]
         /\ sent'[Peer(n)] = sent[Peer(n)]
         /\ Len(sent'[n]) = Len(sent[n]) + 1
         /\ \A i \in 1..Len(sent[n]) : sent'[n][i] = sent[n][i]
         /\ sent'[n][Len(sent[n]) + 1] = m
<1>1. sent[n] \in Seq(Packet)
  BY DEF TypeOK
<1>2. got' = got /\ sent' = [sent EXCEPT ![n] = Append(sent[n], m)]
  BY DEF Ch!Send
<1>3. sent'[n] = Append(sent[n], m) /\ sent'[Peer(n)] = sent[Peer(n)]
  BY <1>2 DEF TypeOK, Peer
<1>4. sent' \in [{"server", "client"} -> Seq(Packet)]
  BY <1>1, <1>2, AppendFacts DEF TypeOK
<1> QED
  BY <1>1, <1>2, <1>3, <1>4, AppendFacts

\* The same for the receiving end: the next packet and no other one.
LEMMA DeliverFacts ==
  ASSUME TypeOK, NEW n \in {"server", "client"}, Ch!Deliver(n)
  PROVE  LET m == sent[Peer(n)][Len(got[n]) + 1] IN
         /\ sent' = sent
         /\ got' \in [{"server", "client"} -> Seq(Packet)]
         /\ got'[Peer(n)] = got[Peer(n)]
         /\ Len(got[n]) < Len(sent[Peer(n)])
         /\ m \in Packet
         /\ Len(got'[n]) = Len(got[n]) + 1
         /\ \A i \in 1..Len(got[n]) : got'[n][i] = got[n][i]
         /\ got'[n][Len(got[n]) + 1] = m
<1> DEFINE m == sent[Peer(n)][Len(got[n]) + 1]
<1>1. got[n] \in Seq(Packet) /\ Peer(n) \in {"server", "client"} /\ Peer(n) # n
  BY DEF TypeOK, Peer
<1>2. /\ Len(got[n]) < Len(sent[Peer(n)])
      /\ sent' = sent /\ got' = [got EXCEPT ![n] = Append(got[n], m)]
  BY DEF Ch!Deliver
<1>3. m \in Packet
  <2>1. sent[Peer(n)] \in Seq(Packet)
    BY <1>1 DEF TypeOK
  <2> QED
    BY <2>1, <1>1, <1>2
<1>4. got'[n] = Append(got[n], m) /\ got'[Peer(n)] = got[Peer(n)]
  BY <1>1, <1>2 DEF TypeOK
<1> HIDE DEF m
<1>5. got' \in [{"server", "client"} -> Seq(Packet)]
  BY <1>1, <1>2, <1>3, AppendFacts DEF TypeOK
<1>6. /\ Len(got'[n]) = Len(got[n]) + 1
      /\ \A i \in 1..Len(got[n]) : got'[n][i] = got[n][i]
      /\ got'[n][Len(got[n]) + 1] = m
  BY <1>1, <1>3, <1>4, AppendFacts
<1> QED
  BY <1>2, <1>3, <1>4, <1>5, <1>6 DEF m

\* A new session (Session::Session) satisfies the invariant.
LEMMA InitInv == Init => Inv
<1> SUFFICES ASSUME Init PROVE Inv
  OBVIOUS
<1> USE DispatchKey
<1>1. /\ sent = [n \in {"server", "client"} |-> <<>>]
      /\ got = [n \in {"server", "client"} |-> <<>>]
  BY DEF Init, Ch!Init
<1>2. /\ sent["server"] = <<>> /\ sent["client"] = <<>>
      /\ got["server"] = <<>> /\ got["client"] = <<>>
  BY <1>1
<1>3. TypeOK
  <2>1. sent \in [{"server", "client"} -> Seq(Packet)] /\ got \in [{"server", "client"} -> Seq(Packet)]
    BY <1>1
  <2>2. clientKey \in Key /\ readable \in [{"server", "client"} -> BOOLEAN]
    BY DEF Init, Key
  <2>3. use_secret_key \in BOOLEAN /\ crashed \in BOOLEAN /\ failed \in BOOLEAN
    BY Zenon DEF Init
  <2>5. todo \in Seq(Responses)
    BY DEF Init
  <2>4. /\ state \in {"NOT_CONNECTED", "TOKEN_WAIT", "LOGIN_WAIT", "ACTIVE"}
        /\ after \in {"TOKEN_WAIT", "LOGIN_WAIT", "ACTIVE"}
        /\ player \in {NULL, "new", "loaded"}
        /\ curAvatar \in {"null", "set", "uninit"}
    BY DEF Init
  <2> QED
    BY <2>1, <2>2, <2>3, <2>4, <2>5 DEF TypeOK
<1>4. Streams /\ ServerKeys
  BY <1>2 DEF Streams, ServerKeys
<1>5. Switched /\ ClientKeys
  BY <1>2 DEF Switched, ClientKeys, Sent, Has, Init
<1>6. Avatars
  BY <1>2 DEF Avatars, AvatarState, Sent, Init
<1>7. ClientReads /\ DropsOnlyInSwitch
  BY DEF ClientReads, DropsOnlyInSwitch, Init
<1> QED
  BY <1>3, <1>4, <1>5, <1>6, <1>7 DEF Inv
-----------------------------------------------------------------------------
(***************************************************************************)
(* The handlers.                                                           *)
(***************************************************************************)
ServerTypes ==
  /\ state \in {"NOT_CONNECTED", "TOKEN_WAIT", "LOGIN_WAIT", "ACTIVE"}
  /\ after \in {"TOKEN_WAIT", "LOGIN_WAIT", "ACTIVE"}
  /\ use_secret_key \in BOOLEAN /\ crashed \in BOOLEAN
  /\ player \in {NULL, "new", "loaded"}
  /\ curAvatar \in {"null", "set", "uninit"}
  /\ todo \in Seq(Responses)

KeySwitch(op) ==
  /\ use_secret_key => use_secret_key'
  /\ use_secret_key' =>
       use_secret_key \/ (op = "TokenReq" /\ todo' = <<"TokenRsp">>)
  /\ \A i \in 1..Len(todo') : todo'[i] = "TokenRsp" => use_secret_key'

\* A packet that is handled leaves the server's variables in order.
LEMMA Handled ==
  ASSUME ServerTypes, AvatarState, Running, todo = <<>>, state = after,
         NEW op, processPacket(op)
  PROVE  /\ ServerTypes' /\ AvatarState' /\ KeySwitch(op)
         /\ curAvatar = "set" => curAvatar' = "set"
<1> USE DEF Answers
<1>1. CASE state = "TOKEN_WAIT" /\ op = "TokenReq" /\ handleTokenReq
  <2>1. todo' = <<"TokenRsp">> /\ Len(todo') = 1 /\ todo'[1] = "TokenRsp" /\ todo' \in Seq(Responses)
    <3>1. todo' = <<"TokenRsp">> /\ "TokenRsp" \in Responses
      BY <1>1 DEF handleTokenReq, Responses
    <3> QED
      BY <3>1, Tuples
  <2>2. ServerTypes'
    BY <1>1, <2>1 DEF handleTokenReq, ServerTypes
  <2>3. AvatarState'
    BY <1>1, <2>1 DEF handleTokenReq, AvatarState, Running
  <2>4. KeySwitch(op)
    BY <1>1, <2>1 DEF handleTokenReq, KeySwitch
  <2>5. curAvatar # "set"
    BY <1>1 DEF AvatarState
  <2> QED
    BY <2>2, <2>3, <2>4, <2>5
<1>2. CASE handleBadToken
  <2>1. ServerTypes'
    BY <1>2 DEF handleBadToken, ServerTypes
  <2>2. AvatarState'
    BY <1>2 DEF handleBadToken, AvatarState, Running
  <2>3. KeySwitch(op)
    BY <1>2 DEF handleBadToken, KeySwitch
  <2> QED
    BY <1>2, <2>1, <2>2, <2>3 DEF handleBadToken
<1>3. CASE state = "LOGIN_WAIT" /\ handleLoginReq
  <2>1. todo' = <<"LoginRsp">> /\ Len(todo') = 1 /\ todo'[1] = "LoginRsp" /\ todo' \in Seq(Responses)
    <3>1. todo' = <<"LoginRsp">> /\ "LoginRsp" \in Responses
      BY <1>3 DEF handleLoginReq, Responses
    <3> QED
      BY <3>1, Tuples
  <2>2. ServerTypes'
    BY <1>3, <2>1 DEF handleLoginReq, ServerTypes
  <2>3. AvatarState'
    BY <1>3, <2>1 DEF handleLoginReq, AvatarState, Running
  <2>4. KeySwitch(op)
    BY <1>3, <2>1 DEF handleLoginReq, KeySwitch
  <2> QED
    BY <1>3, <2>2, <2>3, <2>4 DEF handleLoginReq
<1>4. ASSUME NEW ops \in Seq(Responses), Reply(ops),
             \A i \in 1..Len(ops) :
               /\ ops[i] \notin {"TokenRsp", "LoginRsp"}
               /\ ops[i] = "PlayerEnterSceneInfoNotify" => player # NULL
      PROVE  /\ ServerTypes' /\ AvatarState' /\ KeySwitch(op)
             /\ curAvatar' = curAvatar
  <2>1. ServerTypes'
    BY <1>4 DEF Reply, ServerTypes, Running
  <2>2. AvatarState'
    BY <1>4 DEF Reply, AvatarState, Running
  <2>3. KeySwitch(op)
    BY <1>4 DEF Reply, KeySwitch
  <2> QED
    BY <1>4, <2>1, <2>2, <2>3 DEF Reply
<1>5. CASE handleEnterSceneReadyReq
  <2>1. PICK ops \in {<<>>, <<"EnterScenePeerNotify", "EnterSceneReadyRsp">>} : Reply(ops)
    BY <1>5 DEF handleEnterSceneReadyReq, Reply
  <2>2. ops \in Seq(Unmarked)
    BY <2>1, Answers3, NamesUnmarked
  <2>3. \A i \in 1..Len(ops) : ops[i] # "PlayerEnterSceneInfoNotify"
    <3>1. /\ Len(<<>>) = 0 /\ Len(<<"EnterScenePeerNotify", "EnterSceneReadyRsp">>) = 2
          /\ <<"EnterScenePeerNotify", "EnterSceneReadyRsp">>[1] = "EnterScenePeerNotify"
          /\ <<"EnterScenePeerNotify", "EnterSceneReadyRsp">>[2] = "EnterSceneReadyRsp"
      OBVIOUS
    <3> QED
      BY <2>1, <3>1
  <2> QED
    BY <1>4, <2>1, <2>2, <2>3, UnmarkedSeq
<1>6. CASE handleSceneInitFinishReq
  <2>1. CASE player # NULL
    <3>1. PICK ops \in {<<"SceneInitFinishRsp">>, <<"PlayerEnterSceneInfoNotify">>} : Reply(ops)
      BY <1>6, <2>1 DEF handleSceneInitFinishReq, Reply
    <3>2. ops \in Seq(Unmarked)
      BY <3>1, Answers3, NamesUnmarked
    <3> QED
      BY <1>4, <2>1, <3>1, <3>2, UnmarkedSeq
  <2>2. CASE player = NULL
    <3>1. Reply(<<>>)
      BY <1>6, <2>2 DEF handleSceneInitFinishReq, Reply
    <3> DEFINE none == <<>>
    <3>2. none \in Seq(Responses) /\ Len(none) = 0
      OBVIOUS
    <3>3. Reply(none) /\ 1..0 = {}
      BY <3>1
    <3> HIDE DEF none
    <3> QED
      BY <1>4, <3>2, <3>3
  <2> QED
    BY <2>1, <2>2
<1>7. CASE \E ops \in {<<>>, <<"PingRsp">>, <<"BlacklistRsp">>} : Reply(ops)
  <2>1. PICK ops \in {<<>>, <<"PingRsp">>, <<"BlacklistRsp">>} : Reply(ops)
    BY <1>7
  <2>2. ops \in Seq(Unmarked)
    BY <2>1, Answers3, NamesUnmarked
  <2>3. \A i \in 1..Len(ops) : ops[i] # "PlayerEnterSceneInfoNotify"
    BY <2>1
  <2> QED
    BY <1>4, <2>1, <2>2, <2>3, UnmarkedSeq
<1> QED
  BY <1>1, <1>2, <1>3, <1>5, <1>6, <1>7 DEF processPacket

\* What is left to send after the first packet.
LEMMA TailFacts ==
  ASSUME NEW T, NEW q \in Seq(T), q # <<>>
  PROVE  /\ Tail(q) \in Seq(T) /\ Len(Tail(q)) = Len(q) - 1 /\ Len(q) >= 1 /\ Head(q) = q[1]
         /\ \A i \in 1..Len(Tail(q)) : Tail(q)[i] = q[i + 1] /\ i + 1 \in 1..Len(q)
OBVIOUS

\* A single packet has nothing behind it.
LEMMA TailOfOne ==
  ASSUME NEW T, NEW a \in T PROVE Tail(<<a>>) = <<>>
OBVIOUS

\* Going on to the next packet keeps the server's variables in order.
LEMMA GoesOn ==
  ASSUME ServerTypes, AvatarState, Running, todo # <<>>,
         todo[1] \notin {"LoginRsp", "PlayerEnterSceneInfoNotify"},
         todo' = Tail(todo), state' = IF todo' = <<>> THEN after ELSE state,
         UNCHANGED <<use_secret_key, player, curAvatar, after, crashed>>
  PROVE  /\ ServerTypes' /\ AvatarState'
         /\ \A i \in 1..Len(todo') : todo'[i] = "TokenRsp" => \E j \in 1..Len(todo) : todo[j] = "TokenRsp"
         /\ todo = <<"TokenRsp">> => todo' = <<>>
<1>1. /\ todo' \in Seq(Responses) /\ Len(todo) >= 1
      /\ \A i \in 1..Len(todo') : todo'[i] = todo[i + 1] /\ i + 1 \in 1..Len(todo)
  BY TailFacts DEF ServerTypes
<1>2. \A i \in 1..Len(todo) : todo[i] # "LoginRsp"
  <2>1. todo # <<"LoginRsp">>
    BY Tuples
  <2> QED
    BY <2>1 DEF AvatarState
<1>3. ServerTypes'
  BY <1>1 DEF ServerTypes, Running
<1>4. /\ \A i \in 1..Len(todo') : todo'[i] # "LoginRsp"
      /\ \A i \in 1..Len(todo') : todo'[i] = "PlayerEnterSceneInfoNotify" => player # NULL
  BY <1>1, <1>2 DEF AvatarState
<1>5. AvatarState'
  <2>1. todo # <<"LoginRsp">>
    BY Tuples
  <2>2. state' \in {state, after} /\ state # "NOT_CONNECTED" /\ ~crashed
    BY DEF Running
  <2> QED
    BY <1>4, <2>1, <2>2 DEF AvatarState
<1>6. todo = <<"TokenRsp">> => todo' = <<>>
  <2>1. "TokenRsp" \in Responses
    BY DEF Responses
  <2> QED
    BY <2>1, TailOfOne
<1> QED
  BY <1>1, <1>3, <1>5, <1>6

\* What a handler does behind the packet it sent.
LEMMA Proceeds ==
  ASSUME ServerTypes, AvatarState, Running, todo # <<>>, Proceed(todo[1]),
         state' = IF todo' = <<>> THEN after ELSE state,
         UNCHANGED <<use_secret_key, player, after>>
  PROVE  /\ ServerTypes' /\ AvatarState'
         /\ \A i \in 1..Len(todo') : todo'[i] = "TokenRsp" => \E j \in 1..Len(todo) : todo[j] = "TokenRsp"
         /\ curAvatar = "set" \/ todo[1] = "LoginRsp" => curAvatar' = "set"
         /\ todo = <<"TokenRsp">> => todo' = <<>>
<1>0. Len(todo) >= 1 /\ state # "NOT_CONNECTED" /\ ~crashed /\ todo \in Seq(Responses)
  BY TailFacts DEF ServerTypes, Running
<1>n. todo[1] \in {"LoginRsp", "PlayerEnterSceneInfoNotify"} => todo # <<"TokenRsp">>
  BY Tuples
<1>p. Plain \cap {"TokenRsp", "LoginRsp", "PlayerEnterSceneInfoNotify"} = {}
  BY DEF Plain, Unmarked
<1>1. CASE todo[1] = "LoginRsp"
  <2>1. todo' = Notifies /\ curAvatar' = "set" /\ crashed' = crashed
    BY <1>1 DEF Proceed, onLogin
  <2>2. todo' \in Seq(Responses) /\ \A i \in 1..Len(todo') : todo'[i] \in Plain
    BY <2>1, PlainAnswers
  <2>3. state = "LOGIN_WAIT" /\ state' \in {state, after}
    BY <1>0, <1>1 DEF AvatarState
  <2>4. ServerTypes'
    BY <2>1, <2>2, <2>3 DEF ServerTypes
  <2>5. AvatarState'
    BY <1>0, <1>p, <2>1, <2>2, <2>3 DEF AvatarState
  <2> QED
    BY <1>1, <1>n, <1>p, <2>1, <2>2, <2>4, <2>5
<1>2. CASE todo[1] = "PlayerEnterSceneInfoNotify"
  <2>0. /\ player # NULL /\ todo # <<"LoginRsp">>
        /\ curAvatar # "set" => state = "LOGIN_WAIT" /\ after = "LOGIN_WAIT"
    <3>1. player # NULL
      BY <1>0, <1>2 DEF AvatarState
    <3>2. todo # <<"LoginRsp">>
      BY <1>2, Tuples
    <3> QED
      BY <1>0, <3>1, <3>2 DEF AvatarState
  <2>1. /\ todo' \in {<<>>, <<"SceneTeamUpdateNotify", "SceneInitFinishRsp">>, <<"SceneInitFinishRsp">>}
        /\ curAvatar' = curAvatar
    BY <1>2 DEF Proceed, getCurAvatar
  <2>2. crashed' \in BOOLEAN
    BY <1>2, Zenon DEF Proceed, getCurAvatar, ServerTypes
  <2>3. crashed' => curAvatar # "set"
    BY <1>0, <1>2, Zenon DEF Proceed, getCurAvatar
  <2>4. todo' \in Seq(Responses) /\ \A i \in 1..Len(todo') : todo'[i] \in Plain
    BY <2>1, PlainAnswers
  <2>5. state' \in {state, after}
    OBVIOUS
  <2>6. ServerTypes'
    BY <2>1, <2>2, <2>4, <2>5 DEF ServerTypes
  <2>7. AvatarState'
    BY <1>0, <1>p, <2>0, <2>1, <2>3, <2>4, <2>5 DEF AvatarState
  <2> QED
    BY <1>2, <1>n, <1>p, <2>1, <2>4, <2>6, <2>7
<1>3. CASE todo[1] \notin {"LoginRsp", "PlayerEnterSceneInfoNotify"}
  <2>1. todo' = Tail(todo) /\ UNCHANGED <<curAvatar, crashed>>
    <3>1. Head(todo) = todo[1]
      BY TailFacts DEF ServerTypes
    <3> QED
      BY <1>3 DEF Proceed
  <2> QED
    BY <1>3, <2>1, GoesOn
<1> QED
  BY <1>1, <1>2, <1>3

-----------------------------------------------------------------------------
(***************************************************************************)
(* One lemma per action.                                                   *)
(***************************************************************************)
\* SessionMain handles or drops a packet.
LEMMA ReceiveInv == ASSUME Inv, Receive PROVE Inv'
<1> DEFINE k == Len(got["server"])
           m == sent["client"][k + 1]
<1> USE DispatchKey
<1>1. /\ Running /\ todo = <<>> /\ state = after /\ UNCHANGED <<clientKey, failed>>
      /\ Ch!Deliver("server")
  BY DEF Receive
<1>2. Peer("server") = "client" /\ k \in Nat
  BY DEF Peer, Inv, TypeOK
<1>3. /\ sent' = sent
      /\ got' \in [{"server", "client"} -> Seq(Packet)]
      /\ got'["client"] = got["client"]
      /\ k < Len(sent["client"])
      /\ m \in Packet
      /\ Len(got'["server"]) = k + 1
      /\ \A i \in 1..k : got'["server"][i] = got["server"][i]
      /\ got'["server"][k + 1] = m
  BY <1>1, <1>2, DeliverFacts DEF Inv
<1>4. got'["server"][Len(got'["server"])] = m
  BY <1>3
<1>5. \/ /\ m.key = ServerKey /\ processPacket(m.op)
         /\ readable' = [readable EXCEPT !["server"] = TRUE]
      \/ /\ m.key # ServerKey /\ UNCHANGED server
         /\ readable' = [readable EXCEPT !["server"] = FALSE]
  BY <1>4 DEF Receive
<1>6. ServerTypes /\ AvatarState
  BY DEF Inv, TypeOK, ServerTypes, Avatars, AvatarState
<1>7. /\ ServerTypes' /\ AvatarState' /\ KeySwitch(m.op)
      /\ curAvatar = "set" => curAvatar' = "set"
  <2>1. CASE processPacket(m.op)
    BY <2>1, <1>1, <1>6, Handled
  <2>2. CASE UNCHANGED server
    BY <2>2, <1>1, <1>6 DEF server, ServerTypes, AvatarState, KeySwitch
  <2> QED
    BY <1>5, <2>1, <2>2
<1>8. TypeOK'
  <2>1. readable' \in [{"server", "client"} -> BOOLEAN]
    BY <1>5 DEF Inv, TypeOK
  <2> QED
    BY <1>1, <1>3, <1>7, <2>1 DEF Inv, TypeOK, ServerTypes
<1>9. Streams'
  BY <1>2, <1>3, SMTT(60) DEF Inv, Streams
<1>10. ServerKeys'
  BY <1>3 DEF Inv, ServerKeys, dispatchKey
<1>11. Switched'
  <2>1. Sent("server", "TokenRsp")' <=> Sent("server", "TokenRsp")
    BY <1>3 DEF Sent
  <2>2. use_secret_key => Sent("server", "TokenRsp") \/ todo' = <<>>
    <3> SUFFICES ASSUME use_secret_key, ~Sent("server", "TokenRsp") PROVE todo' = <<>>
      OBVIOUS
    <3>1. m.key \in {dispatchKey, "session"} /\ m.key # "session"
      BY <1>2, <1>3, SMTT(60) DEF Inv, ClientKeys
    <3>2. m.key # ServerKey
      BY <3>1 DEF ServerKey
    <3> QED
      BY <1>1, <1>5, <3>2 DEF server
  <2>3. use_secret_key' => Has(got'["server"], "TokenReq")
    <3>1. CASE use_secret_key
      <4>1. PICK i \in 1..k : got["server"][i].op = "TokenReq"
        BY <3>1 DEF Inv, Switched, Has
      <4>2. got'["server"][i].op = "TokenReq" /\ i \in 1..(k + 1)
        BY <4>1, <1>2, <1>3, SMTT(60)
      <4> QED
        BY <4>2, <1>3 DEF Has
    <3>2. CASE ~use_secret_key /\ use_secret_key'
      <4>1. m.op = "TokenReq"
        BY <3>2, <1>7 DEF KeySwitch
      <4> QED
        BY <4>1, <1>2, <1>3, SMTT(60) DEF Has
    <3> QED
      BY <3>1, <3>2
  <2> QED
    BY <1>7, <2>1, <2>2, <2>3 DEF Switched, KeySwitch, Inv
<1>12. ClientKeys'
  BY <1>1, <1>3 DEF Inv, ClientKeys, Has, Sent, dispatchKey
<1>13. Avatars'
  <2>1. Sent("server", "LoginRsp")' <=> Sent("server", "LoginRsp")
    BY <1>3 DEF Sent
  <2> QED
    BY <1>7, <2>1 DEF Inv, Avatars, AvatarState
<1>14. ClientReads'
  BY <1>5 DEF Inv, TypeOK, ClientReads
<1>15. DropsOnlyInSwitch'
  <2>1. CASE m.key = ServerKey
    <3>1. readable'["server"]
      BY <2>1, <1>5 DEF Inv, TypeOK
    <3> QED
      BY <3>1 DEF DropsOnlyInSwitch
  <2>2. CASE m.key # ServerKey
    <3>1. m.key \in {dispatchKey, "session"} /\ (m.key = "session" => use_secret_key)
      BY <1>2, <1>3 DEF Inv, ClientKeys, Switched
    <3>2. use_secret_key /\ m.key = dispatchKey
      BY <2>2, <3>1 DEF ServerKey
    <3>3. PICK i \in 1..k : got["server"][i].op = "TokenReq"
      BY <3>2 DEF Inv, Switched, Has
    <3>4. got'["server"][i].op = "TokenReq" /\ i \in 1..(Len(got'["server"]) - 1)
      BY <3>3, <1>2, <1>3
    <3> QED
      BY <3>2, <3>4, <1>4 DEF DropsOnlyInSwitch, dispatchKey
  <2> QED
    BY <2>1, <2>2
<1> QED
  BY <1>8, <1>9, <1>10, <1>11, <1>12, <1>13, <1>14, <1>15 DEF Inv

\* Session::sendPacket.
LEMMA SendInv == ASSUME Inv, sendPacket PROVE Inv'
<1> DEFINE n == Len(sent["server"])
           op == todo[1]
           m == [op |-> op, key |-> KeyOf(op)]
<1> USE DispatchKey
<1>1. /\ Running /\ todo # <<>> /\ todo \in Seq(Responses) /\ n \in Nat
      /\ state' = IF todo' = <<>> THEN after ELSE state
      /\ UNCHANGED <<use_secret_key, player, after, clientKey, failed, readable>>
      /\ ServerTypes /\ AvatarState
  BY DEF sendPacket, Inv, TypeOK, ServerTypes, Avatars
<1>2. Head(todo) = op /\ m \in Packet
  <2>1. op \in Responses /\ Head(todo) = op
    BY <1>1
  <2>2. KeyOf(op) \in Key
    BY DEF KeyOf, Key
  <2> HIDE DEF op
  <2> QED
    BY <2>1, <2>2 DEF Packet
<1>a. Len(todo) >= 1 /\ Proceed(op)
  BY <1>1, <1>2 DEF sendPacket
<1>3. /\ ServerTypes' /\ AvatarState'
      /\ \A i \in 1..Len(todo') : todo'[i] = "TokenRsp" => \E j \in 1..Len(todo) : todo[j] = "TokenRsp"
      /\ curAvatar = "set" \/ op = "LoginRsp" => curAvatar' = "set"
      /\ todo = <<"TokenRsp">> => todo' = <<>>
  BY <1>1, <1>a, Proceeds
<1>4. Ch!Send("server", m)
  BY <1>2 DEF sendPacket
<1>5. Peer("server") = "client"
  BY DEF Peer
<1> HIDE DEF m
<1>6. /\ got' = got
      /\ sent' \in [{"server", "client"} -> Seq(Packet)]
      /\ sent'["client"] = sent["client"]
      /\ Len(sent'["server"]) = n + 1
      /\ \A i \in 1..n : sent'["server"][i] = sent["server"][i]
      /\ sent'["server"][n + 1] = m
  BY <1>2, <1>4, <1>5, SendFacts DEF Inv
<1>7. m.op = op /\ m.key = KeyOf(op)
  BY DEF m
<1>8. TypeOK'
  BY <1>1, <1>3, <1>6 DEF Inv, TypeOK, ServerTypes
<1>9. Streams'
  <2>1. /\ Len(got["client"]) \in Nat /\ Len(got["client"]) <= n
        /\ \A i \in 1..Len(got["client"]) : got["client"][i] = sent["server"][i]
        /\ Len(got["server"]) <= Len(sent["client"])
        /\ \A i \in 1..Len(got["server"]) : got["server"][i] = sent["client"][i]
    BY DEF Inv, Streams, TypeOK
  <2>2. /\ Len(got["client"]) <= n + 1
        /\ \A i \in 1..Len(got["client"]) : i \in 1..n
    BY <1>1, <2>1
  <2>3. \A i \in 1..Len(got["client"]) : got["client"][i] = sent'["server"][i]
    BY <1>6, <2>1, <2>2, Zenon
  <2> QED
    BY <1>6, <2>1, <2>2, <2>3, Zenon DEF Streams
<1>10. ASSUME NEW o PROVE Sent("server", o)' <=> Sent("server", o) \/ op = o
  <2>1. Sent("server", o)' <=> \E i \in 1..(n + 1) : sent'["server"][i].op = o
    BY <1>6 DEF Sent
  <2>2. (\E i \in 1..(n + 1) : sent'["server"][i].op = o)
          <=> (\E i \in 1..n : sent'["server"][i].op = o) \/ sent'["server"][n + 1].op = o
    BY <1>1, SMTT(60)
  <2>3. (\E i \in 1..n : sent'["server"][i].op = o) <=> (\E i \in 1..n : sent["server"][i].op = o)
    BY <1>6, Zenon
  <2> QED
    BY <2>1, <2>2, <2>3, <1>6, <1>7 DEF Sent
<1>11. op = "TokenRsp" => use_secret_key
  BY <1>a DEF Inv, Switched
<1>12. use_secret_key => op = "TokenRsp" \/ Sent("server", "TokenRsp")
  BY <1>1 DEF Inv, Switched
<1>13. ServerKeys'
  <2> SUFFICES ASSUME NEW i \in 1..(n + 1)
               PROVE  sent'["server"][i].key =
                        IF sent'["server"][i].op \in {"TokenRsp", "LoginRsp"} THEN dispatchKey
                        ELSE IF \E j \in 1..(i - 1) : sent'["server"][j].op = "TokenRsp" THEN "session"
                        ELSE dispatchKey
    BY <1>6 DEF ServerKeys, dispatchKey
  <2>1. CASE i \in 1..n
    <3>1. sent'["server"][i] = sent["server"][i]
      BY <2>1, <1>6
    <3>2. \A j \in 1..(i - 1) : sent'["server"][j] = sent["server"][j]
      BY <2>1, <1>1, <1>6
    <3>3. (\E j \in 1..(i - 1) : sent'["server"][j].op = "TokenRsp")
            <=> (\E j \in 1..(i - 1) : sent["server"][j].op = "TokenRsp")
      BY <3>2, Zenon
    <3> QED
      BY <2>1, <3>1, <3>3 DEF Inv, ServerKeys
  <2>2. CASE i = n + 1
    <3>1. (\E j \in 1..(i - 1) : sent'["server"][j].op = "TokenRsp") <=> Sent("server", "TokenRsp")
      <4>1. i - 1 = n
        BY <2>2, <1>1
      <4>2. (\E j \in 1..n : sent'["server"][j].op = "TokenRsp")
              <=> (\E j \in 1..n : sent["server"][j].op = "TokenRsp")
        BY <1>6, Zenon
      <4> QED
        BY <4>1, <4>2 DEF Sent
    <3>2. Sent("server", "TokenRsp") => use_secret_key
      BY DEF Inv, Switched
    <3>3. m.key = IF op \in {"TokenRsp", "LoginRsp"} THEN dispatchKey
                  ELSE IF Sent("server", "TokenRsp") THEN "session" ELSE dispatchKey
      BY <3>2, <1>7, <1>12 DEF KeyOf
    <3> QED
      BY <2>2, <3>1, <3>3, <1>6, <1>7
  <2> QED
    BY <2>1, <2>2, <1>1, SMTT(60)
<1>14. Switched'
  BY <1>1, <1>3, <1>6, <1>10, <1>11, <1>12 DEF Inv, Switched, Has
<1>15. ClientKeys'
  BY <1>1, <1>6, <1>10 DEF Inv, ClientKeys, Has, dispatchKey
<1>16. Avatars'
  BY <1>3, <1>10 DEF Inv, Avatars
<1>17. ClientReads' /\ DropsOnlyInSwitch'
  BY <1>1, <1>6 DEF Inv, ClientReads, DropsOnlyInSwitch, dispatchKey
<1> QED
  BY <1>8, <1>9, <1>13, <1>14, <1>15, <1>16, <1>17 DEF Inv

\* Session::sendPacket fails.
LEMMA SendFailsInv == ASSUME Inv, sendPacketFails PROVE Inv'
<1> USE DispatchKey
<1>1. /\ Running /\ todo # <<>> /\ todo \in Seq(Responses) /\ ServerTypes /\ AvatarState
      /\ UNCHANGED <<use_secret_key, player, curAvatar, crashed, clientKey, readable>>
      /\ sent' = sent /\ got' = got /\ failed' = TRUE
  BY DEF sendPacketFails, Inv, TypeOK, ServerTypes, Avatars, chan
<1>2. /\ ServerTypes' /\ AvatarState'
      /\ \A i \in 1..Len(todo') : todo'[i] = "TokenRsp" => \E j \in 1..Len(todo) : todo[j] = "TokenRsp"
      /\ todo = <<"TokenRsp">> => todo' = <<>>
  <2>0. Head(todo) = todo[1]
    BY <1>1, TailFacts
  <2>1. CASE Ignored(Head(todo))
    <3>1. todo[1] \in Plain
      <4>1. \A i \in 1..Len(Notifies) : Notifies[i] \in Plain
        BY PlainAnswers
      <4> QED
        BY <2>0, <2>1, <4>1 DEF Ignored
    <3>2. todo[1] \notin {"LoginRsp", "PlayerEnterSceneInfoNotify"}
      BY <3>1 DEF Plain, Unmarked
    <3>3. /\ todo' = Tail(todo) /\ UNCHANGED after
          /\ state' = IF todo' = <<>> THEN after ELSE state
      BY <2>1 DEF sendPacketFails
    <3> QED
      BY <1>1, <3>2, <3>3, GoesOn
  <2>2. CASE ~Ignored(Head(todo))
    <3>1. todo' = <<>> /\ after' = state /\ state' = state
      BY <2>2 DEF sendPacketFails
    <3>2. todo' \in Seq(Responses) /\ Len(todo') = 0
      BY <3>1
    <3>3. ServerTypes'
      BY <1>1, <3>1, <3>2 DEF ServerTypes, Running
    <3>4. AvatarState'
      BY <1>1, <3>1, <3>2 DEF AvatarState, Running
    <3> QED
      BY <3>1, <3>2, <3>3, <3>4
  <2> QED
    BY <2>1, <2>2
<1>3. TypeOK'
  BY <1>1, <1>2 DEF Inv, TypeOK, ServerTypes
<1>4. Streams' /\ ServerKeys' /\ ClientKeys'
  BY <1>1 DEF Inv, Streams, ServerKeys, ClientKeys, Has, Sent, dispatchKey
<1>5. Switched'
  <2>1. Sent("server", "TokenRsp")' <=> Sent("server", "TokenRsp")
    BY <1>1 DEF Sent
  <2>2. use_secret_key' => Sent("server", "TokenRsp")' \/ todo' \in {<<>>, <<"TokenRsp">>}
    BY <1>1, <1>2, <2>1 DEF Inv, Switched
  <2> QED
    BY <1>1, <1>2, <2>1, <2>2 DEF Inv, Switched, Has
<1>6. Avatars'
  BY <1>1, <1>2 DEF Inv, Avatars, Sent
<1>7. ClientReads' /\ DropsOnlyInSwitch'
  BY <1>1 DEF Inv, ClientReads, DropsOnlyInSwitch, dispatchKey
<1> QED
  BY <1>3, <1>4, <1>5, <1>6, <1>7 DEF Inv

\* The client sends a request.
LEMMA ClientSendsInv ==
  ASSUME Inv, NEW op \in Req, ClientSends(op) PROVE Inv'
<1> DEFINE n == Len(sent["client"])
           m == [op |-> op, key |-> clientKey]
<1> USE DispatchKey
<1>1. /\ Ch!Send("client", m) /\ UNCHANGED server /\ UNCHANGED <<clientKey, failed, readable>>
      /\ n \in Nat
  BY DEF ClientSends, Inv, TypeOK
<1>2. m \in Packet
  <2>1. op \in Requests
    BY DialogueAssumption
  <2>2. clientKey \in Key
    BY DEF Inv, TypeOK
  <2> QED
    BY <2>1, <2>2 DEF Packet
<1>3. m.key = clientKey /\ Peer("client") = "server"
  BY DEF Peer
<1> HIDE DEF m
<1>4. /\ got' = got
      /\ sent' \in [{"server", "client"} -> Seq(Packet)]
      /\ sent'["server"] = sent["server"]
      /\ Len(sent'["client"]) = n + 1
      /\ \A i \in 1..n : sent'["client"][i] = sent["client"][i]
      /\ sent'["client"][n + 1] = m
  BY <1>1, <1>2, <1>3, SendFacts DEF Inv
<1>5. /\ state' = state /\ use_secret_key' = use_secret_key /\ player' = player
      /\ curAvatar' = curAvatar /\ todo' = todo /\ after' = after /\ crashed' = crashed
      /\ clientKey' = clientKey /\ failed' = failed /\ readable' = readable
  BY <1>1 DEF server
<1>6. TypeOK'
  BY <1>4, <1>5 DEF Inv, TypeOK
<1>7. Streams' /\ ServerKeys'
  BY <1>1, <1>4, SMTT(60) DEF Inv, Streams, ServerKeys, TypeOK, dispatchKey
<1>8. Switched' /\ Avatars'
  BY <1>4, <1>5 DEF Inv, Switched, Avatars, AvatarState, Sent, Has
<1>9. ClientKeys'
  <2>0. Sent("server", "TokenRsp")' <=> Sent("server", "TokenRsp")
    BY <1>4 DEF Sent
  <2>1. clientKey = "session" => Sent("server", "TokenRsp")
    <3>1. Has(got["client"], "TokenRsp") => Sent("server", "TokenRsp")
      BY DEF Inv, Streams, TypeOK, Has, Sent
    <3> QED
      BY <3>1 DEF Inv, ClientKeys
  <2>2. clientKey \in {dispatchKey, "session"}
    BY DEF Inv, ClientKeys
  <2>3. ASSUME NEW i \in 1..(n + 1)
        PROVE  /\ sent'["client"][i].key \in {dispatchKey, "session"}
               /\ sent'["client"][i].key = "session" => Sent("server", "TokenRsp")
    <3>1. CASE i \in 1..n
      BY <3>1, <1>4 DEF Inv, ClientKeys
    <3>2. CASE i = n + 1
      BY <3>2, <1>3, <1>4, <2>1, <2>2
    <3> QED
      BY <3>1, <3>2, <1>1
  <2> QED
    BY <1>4, <1>5, <2>0, <2>3 DEF Inv, ClientKeys, Has, dispatchKey
<1>10. ClientReads' /\ DropsOnlyInSwitch'
  BY <1>4, <1>5 DEF Inv, ClientReads, DropsOnlyInSwitch, dispatchKey
<1> QED
  BY <1>6, <1>7, <1>8, <1>9, <1>10 DEF Inv

\* The client receives a packet.
LEMMA ClientReceivesInv == ASSUME Inv, ClientReceives PROVE Inv'
<1> DEFINE k == Len(got["client"])
           m == sent["server"][k + 1]
<1> USE DispatchKey
<1>1. /\ Ch!Deliver("client") /\ UNCHANGED server /\ UNCHANGED failed /\ k \in Nat /\ Peer("client") = "server"
  BY DEF ClientReceives, Inv, TypeOK, Peer
<1>2. /\ sent' = sent
      /\ got' \in [{"server", "client"} -> Seq(Packet)]
      /\ got'["server"] = got["server"]
      /\ k < Len(sent["server"])
      /\ m \in Packet
      /\ Len(got'["client"]) = k + 1
      /\ \A i \in 1..k : got'["client"][i] = got["client"][i]
      /\ got'["client"][k + 1] = m
  BY <1>1, DeliverFacts DEF Inv
<1>3. got'["client"][Len(got'["client"])] = m
  BY <1>2
<1>4. /\ readable' = [readable EXCEPT !["client"] =
            m.key = IF m.op \in {"TokenRsp", "LoginRsp"} THEN dispatchKey ELSE clientKey]
      /\ clientKey' = IF m.op = "TokenRsp" THEN "session" ELSE clientKey
  BY <1>3 DEF ClientReceives
<1>5. /\ state' = state /\ use_secret_key' = use_secret_key /\ player' = player
      /\ curAvatar' = curAvatar /\ todo' = todo /\ after' = after /\ crashed' = crashed
      /\ failed' = failed
  BY <1>1 DEF server
<1>6. Has(got["client"], "TokenRsp") <=> \E j \in 1..k : sent["server"][j].op = "TokenRsp"
  BY <1>1, <1>2 DEF Inv, Streams, Has
<1>7. m.key = IF m.op \in {"TokenRsp", "LoginRsp"} THEN dispatchKey ELSE clientKey
  <2>1. m.key = IF m.op \in {"TokenRsp", "LoginRsp"} THEN dispatchKey
                ELSE IF \E j \in 1..k : sent["server"][j].op = "TokenRsp" THEN "session"
                ELSE dispatchKey
    BY <1>1, <1>2, SMTT(60) DEF Inv, ServerKeys
  <2> QED
    BY <2>1, <1>6 DEF Inv, ClientKeys
<1>8. readable' = [readable EXCEPT !["client"] = TRUE]
  BY <1>4, <1>7
<1>9. TypeOK'
  <2>1. readable' \in [{"server", "client"} -> BOOLEAN]
    BY <1>8 DEF Inv, TypeOK
  <2>2. clientKey' \in Key
    BY <1>4 DEF Inv, TypeOK, Key
  <2> QED
    BY <1>2, <1>5, <2>1, <2>2 DEF Inv, TypeOK
<1>10. Streams' /\ ServerKeys'
  BY <1>1, <1>2, SMTT(60) DEF Inv, Streams, ServerKeys, dispatchKey
<1>11. Switched' /\ Avatars'
  BY <1>2, <1>5 DEF Inv, Switched, Avatars, AvatarState, Sent, Has
<1>12. ClientKeys'
  <2>1. Has(got'["client"], "TokenRsp") <=> Has(got["client"], "TokenRsp") \/ m.op = "TokenRsp"
    <3>1. Has(got'["client"], "TokenRsp") <=> \E i \in 1..(k + 1) : got'["client"][i].op = "TokenRsp"
      BY <1>2 DEF Has
    <3>2. (\E i \in 1..(k + 1) : got'["client"][i].op = "TokenRsp")
            <=> (\E i \in 1..k : got'["client"][i].op = "TokenRsp") \/ got'["client"][k + 1].op = "TokenRsp"
      BY <1>1
    <3>3. (\E i \in 1..k : got'["client"][i].op = "TokenRsp")
            <=> (\E i \in 1..k : got["client"][i].op = "TokenRsp")
      BY <1>2, Zenon
    <3> QED
      BY <3>1, <3>2, <3>3, <1>2 DEF Has
  <2> QED
    BY <1>2, <1>4, <1>5, <2>1, SMTT(60) DEF Inv, ClientKeys, Sent, dispatchKey
<1>13. ClientReads'
  BY <1>8 DEF Inv, TypeOK, ClientReads
<1>14. DropsOnlyInSwitch'
  <2>1. readable'["server"] = readable["server"]
    BY <1>8 DEF Inv, TypeOK
  <2> QED
    BY <1>2, <2>1 DEF Inv, DropsOnlyInSwitch, dispatchKey
<1> QED
  BY <1>9, <1>10, <1>11, <1>12, <1>13, <1>14 DEF Inv

-----------------------------------------------------------------------------
\* Every reachable state satisfies the invariant.
THEOREM InvHolds == Spec => []Inv
<1>1. Init => Inv
  BY InitInv
<1>2. Inv /\ [Next]_vars => Inv'
  <2> SUFFICES ASSUME Inv, [Next]_vars PROVE Inv'
    OBVIOUS
  <2>1. CASE Next
    BY <2>1, ReceiveInv, SendInv, SendFailsInv, ClientSendsInv, ClientReceivesInv DEF Next
  <2>2. CASE UNCHANGED vars
    <3>1. /\ sent' = sent /\ got' = got /\ clientKey' = clientKey /\ readable' = readable
          /\ failed' = failed /\ state' = state /\ use_secret_key' = use_secret_key /\ player' = player
          /\ curAvatar' = curAvatar /\ todo' = todo /\ after' = after /\ crashed' = crashed
      BY <2>2 DEF vars, chan, server
    <3>2. TypeOK' /\ ClientReads' /\ DropsOnlyInSwitch'
      BY <3>1 DEF Inv, TypeOK, ClientReads, DropsOnlyInSwitch, dispatchKey
    <3>3. Streams' /\ ServerKeys' /\ ClientKeys'
      BY <3>1 DEF Inv, Streams, ServerKeys, ClientKeys, Has, Sent, dispatchKey
    <3>4. Switched' /\ Avatars'
      BY <3>1 DEF Inv, Switched, Avatars, AvatarState, Sent, Has
    <3> QED
      BY <3>2, <3>3, <3>4 DEF Inv
  <2> QED
    BY <2>1, <2>2
<1> QED
  BY <1>1, <1>2, PTL DEF Spec

(***************************************************************************)
(* Session::sendPacket never sends the client a packet it cannot read,     *)
(* whatever the client asks and when: the keys change at the same place of *)
(* the stream at both ends.                                                *)
(***************************************************************************)
THEOREM KeysAgree == Spec => []ClientReads
<1>1. Inv => ClientReads
  BY DEF Inv
<1> QED
  BY <1>1, InvHolds, PTL

(***************************************************************************)
(* SessionMain drops a packet as unreadable only if it was sent with the   *)
(* old key behind a token request.                                         *)
(***************************************************************************)
THEOREM DropsBounded == Spec => []DropsOnlyInSwitch
<1>1. Inv => DropsOnlyInSwitch
  BY DEF Inv
<1> QED
  BY <1>1, InvHolds, PTL

(***************************************************************************)
(* handleSceneInitFinishReq follows a missing avatar only before the login *)
(* response: after Player::onLogin no sequence of requests does.           *)
(***************************************************************************)
THEOREM AvatarPresent == Spec => []AvatarSetByLogin
<1>1. Inv => AvatarSetByLogin
  BY DEF Inv, Avatars, AvatarState, AvatarSetByLogin
<1> QED
  BY <1>1, InvHolds, PTL
=============================================================================
