------------------------------ MODULE Dialogue ------------------------------
(***************************************************************************)
(* What a session thread and its client say to each other: SessionMain and *)
(* Session::sendPacket (src/src/session.cpp), processPacket and the        *)
(* handlers of src/src/packets/, Player::onLogin.  The two ends talk over  *)
(* a Channel, which is what KCP provides.                                  *)
(*                                                                         *)
(* Packets are encrypted.  The server starts with the dispatch key, or     *)
(* with none, and goes over to a session key while it handles the token    *)
(* request; the response names the seed of that key.  A packet decrypted   *)
(* with another key than its own has no valid magic numbers, so that       *)
(* Packet::parse refuses it and it is dropped.  Sessions has the threads   *)
(* and the ways in which a session is closed.                              *)
(***************************************************************************)
EXTENDS Naturals, Sequences

CONSTANTS
  Req,              \* the requests the client sends
  MaxReqs,          \* bound: requests sent
  HasDispatchSeed,  \* whether the server has a dispatch key
  NULL

Requests == {"TokenReq", "BadTokenReq", "LoginReq", "BadLoginReq", "EnterSceneReadyReq",
             "SceneInitFinishReq", "PingReq", "BlacklistReq", "CombatNotify"}

Responses == {"TokenRsp", "LoginRsp", "AvatarDataNotify", "PlayerDataNotify",
              "PlayerStoreNotify", "StoreWeightLimitNotify",
              "PlayerEnterSceneNotify", "EnterScenePeerNotify", "EnterSceneReadyRsp",
              "PlayerEnterSceneInfoNotify", "SceneTeamUpdateNotify", "SceneInitFinishRsp",
              "PingRsp", "BlacklistRsp"}

ASSUME DialogueAssumption ==
  /\ Req \subseteq Requests
  /\ MaxReqs \in Nat
  /\ HasDispatchSeed \in BOOLEAN

VARIABLES
  sent, got,       \* the Channel between the two ends
  state,           \* Session::state
  use_secret_key,  \* whether the session key is used
  player,          \* the session's player: NULL, "new" or "loaded"
  curAvatar,       \* its curAvatar: "null", "set", or "uninit"
  todo,            \* what the running handler still has to send
  after,           \* the state it then sets
  crashed,         \* the process ended: a bad pointer was followed
  clientKey,       \* the key the client uses
  failed,          \* history: sendPacket has failed
  readable         \* whether each end could read what it got last

chan == <<sent, got>>
server == <<state, use_secret_key, player, curAvatar, todo, after, crashed>>
vars == <<chan, server, clientKey, failed, readable>>

Key == {"plain", "dispatch", "session"}
Peer(n) == IF n = "server" THEN "client" ELSE "server"
Packet == [op : Requests \union Responses, key : Key]
Ch == INSTANCE Channel WITH Node <- {"server", "client"}, Message <- Packet

dispatchKey == IF HasDispatchSeed THEN "dispatch" ELSE "plain"

Init ==
  /\ Ch!Init
  /\ state = "TOKEN_WAIT" /\ use_secret_key = FALSE
  /\ player = NULL /\ curAvatar = "null"
  /\ todo = <<>> /\ after = "TOKEN_WAIT" /\ crashed = FALSE
  /\ clientKey = dispatchKey /\ failed = FALSE
  /\ readable = [n \in {"server", "client"} |-> TRUE]

-----------------------------------------------------------------------------
(***************************************************************************)
(* The server.                                                             *)
(***************************************************************************)
Running == state # "NOT_CONNECTED" /\ ~crashed

\* Mutant: the token response is not marked for the dispatch key.
KeyOfUnmarked(op) ==
  IF op # "LoginRsp" /\ use_secret_key THEN "session" ELSE dispatchKey

\* The key sendPacket takes; two responses always have the dispatch key.
KeyOf(op) ==
  IF op \notin {"TokenRsp", "LoginRsp"} /\ use_secret_key THEN "session" ELSE dispatchKey

ServerKey == IF use_secret_key THEN "session" ELSE dispatchKey

\* A handler sends packets, and sets a state when it is done.
Answers(ops, st) == todo' = ops /\ after' = st

\* Mutant: the key is not switched.
handleTokenReqKeepsKey ==
  /\ player' \in {"new", "loaded"}
  /\ curAvatar' = IF player' = "new" THEN "null" ELSE "uninit"
  /\ UNCHANGED use_secret_key
  /\ state' = "LOGIN_WAIT"
  /\ Answers(<<"TokenRsp">>, "LOGIN_WAIT")
  /\ UNCHANGED crashed

\* handleGetPlayerTokenReq, when the token is accepted.  The player is new
\* or loaded, and the constructor that loads one does not set curAvatar.
handleTokenReq ==
  /\ player' \in {"new", "loaded"}
  /\ curAvatar' = IF player' = "new" THEN "null" ELSE "uninit"
  /\ use_secret_key' = TRUE
  /\ state' = "LOGIN_WAIT"
  /\ Answers(<<"TokenRsp">>, "LOGIN_WAIT")
  /\ UNCHANGED crashed

\* A token or login request that does not match closes the session.
handleBadToken ==
  /\ state' = "NOT_CONNECTED"
  /\ UNCHANGED <<use_secret_key, player, curAvatar, todo, after, crashed>>

\* Mutant: the session is not made active by onLogin.
handleLoginReqStays ==
  /\ Answers(<<"LoginRsp">>, "LOGIN_WAIT")
  /\ UNCHANGED <<state, use_secret_key, player, curAvatar, crashed>>

\* handlePlayerLoginReq; onLogin follows the response.
handleLoginReq ==
  /\ Answers(<<"LoginRsp">>, "ACTIVE")
  /\ UNCHANGED <<state, use_secret_key, player, curAvatar, crashed>>

handleEnterSceneReadyReq ==
  /\ Answers(IF player = NULL THEN <<>>
             ELSE <<"EnterScenePeerNotify", "EnterSceneReadyRsp">>, state)
  /\ UNCHANGED <<state, use_secret_key, player, curAvatar, crashed>>

\* A request whose scene token is wrong is answered and nothing else.
handleSceneInitFinishReq ==
  /\ \/ player = NULL /\ Answers(<<>>, state)
     \/ player # NULL /\ Answers(<<"SceneInitFinishRsp">>, state)
     \/ player # NULL /\ Answers(<<"PlayerEnterSceneInfoNotify">>, state)
  /\ UNCHANGED <<state, use_secret_key, player, curAvatar, crashed>>

\* The other handlers answer at once, or not at all.
Reply(ops) == Answers(ops, state) /\ UNCHANGED <<state, use_secret_key, player, curAvatar, crashed>>

processPacket(op) ==
  \/ op = "TokenReq" /\ state = "TOKEN_WAIT" /\ handleTokenReq
  \/ op = "BadTokenReq" /\ state = "TOKEN_WAIT" /\ handleBadToken
  \/ op = "BadLoginReq" /\ state = "LOGIN_WAIT" /\ handleBadToken
  \/ op = "LoginReq" /\ state = "LOGIN_WAIT" /\ handleLoginReq
  \/ op = "EnterSceneReadyReq" /\ handleEnterSceneReadyReq
  \/ op = "SceneInitFinishReq" /\ handleSceneInitFinishReq
  \/ op = "PingReq" /\ Reply(<<"PingRsp">>)
  \/ op = "BlacklistReq" /\ Reply(<<"BlacklistRsp">>)
  \/ op = "CombatNotify" /\ Reply(<<>>)
  \/ /\ \/ op \in {"TokenReq", "BadTokenReq"} /\ state # "TOKEN_WAIT"
        \/ op \in {"LoginReq", "BadLoginReq"} /\ state # "LOGIN_WAIT"
     /\ Reply(<<>>)

\* One packet is received, decrypted and parsed, and its handler begins.
Receive ==
  /\ Running /\ todo = <<>> /\ state = after
  /\ Ch!Deliver("server")
  /\ LET m == got'["server"][Len(got'["server"])] IN
       IF m.key = ServerKey
       THEN processPacket(m.op) /\ readable' = [readable EXCEPT !["server"] = TRUE]
       ELSE UNCHANGED server /\ readable' = [readable EXCEPT !["server"] = FALSE]
  /\ UNCHANGED <<clientKey, failed>>

Notifies == <<"AvatarDataNotify", "PlayerDataNotify", "PlayerStoreNotify",
              "StoreWeightLimitNotify", "PlayerEnterSceneNotify">>

\* Mutant: onLogin does not choose an avatar.
onLoginNoAvatar ==
  todo' = Notifies /\ UNCHANGED <<curAvatar, crashed>>

\* Player::onLogin gives the player an avatar and sends its data.  The open
\* states are not sent: nothing sets Player.session.
onLogin ==
  todo' = Notifies /\ curAvatar' = "set" /\ UNCHANGED crashed

\* getCurAvatar follows curAvatar without a test: a null one brings the
\* process down; one that was never set may, or leads to no avatar the player
\* has.
getCurAvatar ==
  /\ \/ /\ curAvatar = "set"
        /\ todo' = <<"SceneTeamUpdateNotify", "SceneInitFinishRsp">> /\ UNCHANGED crashed
     \/ curAvatar = "uninit" /\ todo' = <<"SceneInitFinishRsp">> /\ UNCHANGED crashed
     \/ curAvatar # "set" /\ todo' = <<>> /\ crashed' = TRUE
  /\ UNCHANGED curAvatar

\* What the handler does behind a packet it sent.
Proceed(op) ==
  CASE op = "LoginRsp" -> onLogin
    [] op = "PlayerEnterSceneInfoNotify" -> getCurAvatar
    [] OTHER -> todo' = Tail(todo) /\ UNCHANGED <<curAvatar, crashed>>

\* The handler sends its next packet; after the last one it sets the state.
sendPacket ==
  /\ Running /\ todo # <<>>
  /\ Ch!Send("server", [op |-> Head(todo), key |-> KeyOf(Head(todo))])
  /\ Proceed(Head(todo))
  /\ state' = IF todo' = <<>> THEN after ELSE state
  /\ UNCHANGED <<use_secret_key, player, after, clientKey, failed, readable>>

\* sendPacket fails: the packet cannot be built or KCP does not take it.
\* onLogin goes on, every other handler returns.
Ignored(op) == \E i \in 1..Len(Notifies) : Notifies[i] = op
sendPacketFails ==
  /\ Running /\ todo # <<>>
  /\ IF Ignored(Head(todo))
     THEN /\ todo' = Tail(todo) /\ UNCHANGED after
          /\ state' = IF todo' = <<>> THEN after ELSE state
     ELSE todo' = <<>> /\ after' = state /\ UNCHANGED state
  /\ failed' = TRUE
  /\ UNCHANGED <<chan, use_secret_key, player, curAvatar, crashed, clientKey, readable>>

-----------------------------------------------------------------------------
(***************************************************************************)
(* The client (external): it may send any request at any time, with the    *)
(* key it has.  It goes over to the session key when it gets the token     *)
(* response, and reads the two marked responses with the dispatch key.     *)
(***************************************************************************)
ClientSends(op) ==
  /\ Len(sent["client"]) < MaxReqs
  /\ Ch!Send("client", [op |-> op, key |-> clientKey])
  /\ UNCHANGED <<server, clientKey, failed, readable>>

ClientReceives ==
  /\ Ch!Deliver("client")
  /\ LET m == got'["client"][Len(got'["client"])] IN
       /\ readable' = [readable EXCEPT !["client"] =
            m.key = IF m.op \in {"TokenRsp", "LoginRsp"} THEN dispatchKey ELSE clientKey]
       /\ clientKey' = IF m.op = "TokenRsp" THEN "session" ELSE clientKey
  /\ UNCHANGED <<server, failed>>

Next ==
  \/ Receive
  \/ sendPacket \/ sendPacketFails
  \/ \E op \in Req : ClientSends(op)
  \/ ClientReceives

Spec == Init /\ [][Next]_vars

-----------------------------------------------------------------------------
Sent(n, op) == \E i \in 1..Len(sent[n]) : sent[n][i].op = op
Got(n, op) == \E i \in 1..Len(got[n]) : got[n][i].op = op

\* The session thread and the client's run, and KCP delivers; the client has
\* to send nothing.
FairSpec == Spec /\ WF_vars(Receive) /\ WF_vars(sendPacket) /\ WF_vars(ClientReceives)

TypeOK ==
  /\ state \in {"NOT_CONNECTED", "TOKEN_WAIT", "LOGIN_WAIT", "ACTIVE"}
  /\ after \in {"TOKEN_WAIT", "LOGIN_WAIT", "ACTIVE"}
  /\ use_secret_key \in BOOLEAN /\ crashed \in BOOLEAN
  /\ player \in {NULL, "new", "loaded"}
  /\ curAvatar \in {"null", "set", "uninit"}
  /\ clientKey \in Key /\ failed \in BOOLEAN
  /\ readable \in [{"server", "client"} -> BOOLEAN]
  /\ todo \in Seq(Responses)
  /\ sent \in [{"server", "client"} -> Seq(Packet)]
  /\ got \in [{"server", "client"} -> Seq(Packet)]

(***************************************************************************)
(* The client can read everything the server sends: the two ends change    *)
(* their keys at the same place in the stream of packets, whatever the     *)
(* client sends meanwhile (sendPacket, setUseSecretKey before the token    *)
(* response, setUseDispatchKey on two of the responses).                   *)
(***************************************************************************)
ClientReads == readable["client"]

(***************************************************************************)
(* The server drops a packet of this client only if it was sent between    *)
(* the token request and the arrival of the response, if it arrives: with  *)
(* the old key, behind the request that makes the server change it.        *)
(***************************************************************************)
DropsOnlyInSwitch ==
  ~readable["server"] =>
    LET k == Len(got["server"]) IN
      /\ got["server"][k].key = dispatchKey
      /\ \E i \in 1..(k - 1) : got["server"][i].op = "TokenReq"

(***************************************************************************)
(* SceneInitFinishReq, which is handled in every state of the session,     *)
(* follows a curAvatar that is null or was never set only before the       *)
(* login: neither constructor of Player gives it an avatar, onLogin does   *)
(* behind the login response, and no other request takes it away.  A login *)
(* whose response could not be sent does not count.                        *)
(***************************************************************************)
AvatarSetByLogin == crashed => state = "LOGIN_WAIT" /\ ~Sent("server", "LoginRsp")

(***************************************************************************)
(* A client that asks with a good token is answered, and one that then     *)
(* asks to log in with the key it was told of gets in and is told to enter *)
(* the scene, whatever else it sends, the requests dropped on the way      *)
(* included; unless it also sends a wrong token, which closes the session, *)
(* or brings the process down (AvatarSetByLogin), or sendPacket fails.     *)
(***************************************************************************)
GetsIn ==
  /\ Sent("client", "TokenReq")
       ~> Got("client", "TokenRsp") \/ failed \/ Sent("client", "BadTokenReq")
  /\ (\E i \in 1..Len(sent["client"]) : sent["client"][i] = [op |-> "LoginReq", key |-> "session"])
       ~> \/ crashed \/ failed \/ Sent("client", "BadLoginReq")
          \/ state = "ACTIVE" /\ Got("client", "PlayerEnterSceneNotify")
=============================================================================
