------------------------------ MODULE Sessions ------------------------------
(***************************************************************************)
(* The game server's session layer: the gameserver thread, which receives  *)
(* every datagram, routes it, accepts clients and tears sessions down      *)
(* (src/src/gameserver.cpp), and one thread per accepted client, which     *)
(* runs SessionMain and the packet handlers (src/src/session.cpp,          *)
(* src/src/packets/).  There is no lock in this code: all threads work on  *)
(* the same Session and KcpSession objects through raw pointers.           *)
(*                                                                         *)
(* Memory is modelled by addresses.  A Session lives at an address of      *)
(* Addr, a KcpSession at an address of KAddr, and `new' may pick any       *)
(* address that is not allocated, one freed a moment ago included.  The    *)
(* n-th accepted client gets session id n (a getrandom value in the code,  *)
(* so ids do not repeat) and thread n.  An access through a pointer whose  *)
(* object has been deleted is undefined behaviour: it sets `ub', and the   *)
(* process crashes or the access works on whatever is at that address now  *)
(* (AfterUb says which of the two an instance lets happen).  Following a   *)
(* null pointer always crashes.                                            *)
(***************************************************************************)
EXTENDS Naturals

CONSTANTS
  Client,       \* UDP source addresses
  Uid,          \* player ids
  MaxSessions,  \* length of sessionList (1 in GameserverMain)
  MaxAccepts,   \* bound: how many clients are accepted in one behaviour
  MaxQueue,     \* bound: messages waiting in one KCP receive queue
  Addr, KAddr,  \* addresses for Session and for KcpSession objects
  Kinds,        \* the kinds of datagram the clients of this instance send
  Signals,      \* whether the process may be told to stop
  AfterUb,      \* the process after a dangling pointer was followed
  Gs, NULL      \* the gameserver thread; the null pointer

Sid == 1..MaxAccepts
Slot == 1..MaxSessions
Actor == Sid \cup {Gs}

AllKinds == {"handshake", "data", "shutdown", "bogus"}
States == {"NOT_CONNECTED", "TOKEN_WAIT", "LOGIN_WAIT", "ACTIVE"}

Requests == {"tokenReq", "loginReq", "pingReq", "sceneReq", "replyOnly", "ignored"}
ThreadLabels == {"none", "top", "recv", "kick", "attach", "onLogin", "notify",
                 "activate", "scene", "reply", "fail", "update", "ping", "exit", "done"}
                \cup Requests
GsLabels == {"idle", "push", "accept", "delete", "free", "clear", "create",
             "stop", "stopDelete", "stopFree", "stopClear"}
CloseLabels == {"closeTest", "closeKcp", "closeNull", "closePlayer",
                "closePlayerNull", "closeState"}
Labels == ThreadLabels \cup GsLabels \cup CloseLabels

ASSUME SessionsAssumption ==
  /\ MaxSessions \in Nat \ {0}
  /\ MaxAccepts \in Nat \ {0}
  /\ MaxQueue \in Nat \ {0}
  /\ Gs \notin Sid
  /\ NULL \notin Addr /\ NULL \notin KAddr /\ NULL \notin Uid
  /\ NULL \notin Slot /\ NULL \notin Client
  /\ Kinds \subseteq AllKinds
  /\ Signals \in BOOLEAN
  /\ AfterUb \subseteq {"up", "crashed"}

VARIABLES
  slot,     \* sessionList: an address or NULL per slot
  obj,      \* the Session at each address (its last contents when not live)
  kobj,     \* the KcpSession at each address
  pc,       \* where each thread is
  loc,      \* SessionMain's `session' and `kcp' and the handler's uid
  call,     \* the running Session::close of each thread
  gslot,    \* the slot the gameserver thread works on
  gkcp,     \* the KcpSession pointer it is about to push to
  client,   \* the static sock_t that every KcpSession points to
  stored,   \* uids that have player data in the database
  stopping, \* GameserverSignal
  run,      \* the process: "up", "crashed" or "exited"
  ub,       \* a dangling or null pointer has been followed
  peer,     \* history: the address each session was accepted from
  authed,   \* history: sessions whose own thread accepted a token
  foreign   \* history: a thread closed or deleted a session not its own

gsVars == <<slot, gslot, gkcp, client, stopping, peer>>
vars == <<gsVars, obj, kobj, pc, loc, call, stored, run, ub, authed, foreign>>

\* plive: the Player object that the member `player' points to still exists;
\* late: lastPingTime is more than 30 s ago.
SessionObj == [live : BOOLEAN, sid : Sid \cup {NULL}, state : States,
               kcp : KAddr \cup {NULL}, player : Uid \cup {NULL},
               plive : BOOLEAN, late : BOOLEAN]
KcpObj == [live : BOOLEAN, sid : Sid \cup {NULL}, queue : 0..MaxQueue]
Local == [obj : Addr \cup {NULL}, kcp : KAddr \cup {NULL}, uid : Uid \cup {NULL}]
Call == [obj : Addr \cup {NULL}, sid : Sid \cup {NULL}, ret : Labels]
NoCall == [obj |-> NULL, sid |-> NULL, ret |-> "done"]

\* Every variable stays within its declared shape.
TypeOK ==
  /\ slot \in [Slot -> Addr \cup {NULL}]
  /\ obj \in [Addr -> SessionObj]
  /\ kobj \in [KAddr -> KcpObj]
  /\ pc \in [Actor -> Labels]
  /\ loc \in [Sid -> Local]
  /\ call \in [Actor -> Call]
  /\ gslot \in Slot
  /\ gkcp \in KAddr \cup {NULL}
  /\ client \in Client \cup {NULL}
  /\ stored \subseteq Uid
  /\ stopping \in BOOLEAN
  /\ run \in {"up", "crashed", "exited"}
  /\ ub \in BOOLEAN
  /\ peer \in [Sid -> Client \cup {NULL}]
  /\ authed \subseteq Sid
  /\ foreign \in BOOLEAN

Init ==
  /\ slot = [i \in Slot |-> NULL]
  /\ obj = [a \in Addr |-> [live |-> FALSE, sid |-> NULL, state |-> "NOT_CONNECTED",
                            kcp |-> NULL, player |-> NULL, plive |-> FALSE,
                            late |-> FALSE]]
  /\ kobj = [k \in KAddr |-> [live |-> FALSE, sid |-> NULL, queue |-> 0]]
  /\ pc = [x \in Actor |-> IF x = Gs THEN "idle" ELSE "none"]
  /\ loc = [n \in Sid |-> [obj |-> NULL, kcp |-> NULL, uid |-> NULL]]
  /\ call = [x \in Actor |-> NoCall]
  /\ gslot = 1
  /\ gkcp = NULL
  /\ client = NULL
  /\ stored \in SUBSET Uid
  /\ stopping = FALSE
  /\ run = "up"
  /\ ub = FALSE
  /\ peer = [n \in Sid |-> NULL]
  /\ authed = {}
  /\ foreign = FALSE

-----------------------------------------------------------------------------
(***************************************************************************)
(* Memory.  Follow(ok) is part of every step that follows a pointer: ok    *)
(* says that the object it leads to still exists and is the one meant.     *)
(***************************************************************************)
Follow(ok) ==
  /\ ub' = (ub \/ ~ok)
  /\ run' \in (IF ok THEN {run} ELSE AfterUb)

\* The step follows a null pointer, or one without a value, and crashes.
FollowNull ==
  /\ ub' = TRUE
  /\ run' = "crashed"
  /\ UNCHANGED <<gsVars, obj, kobj, pc, loc, call, stored, authed, foreign>>

Goto(x, l) == pc' = [pc EXCEPT ![x] = l]

\* Thread n's session pointer, and its cached KcpSession pointer, are valid.
SessionOk(n) == obj[loc[n].obj].live /\ obj[loc[n].obj].sid = n
KcpOk(n) == kobj[loc[n].kcp].live /\ kobj[loc[n].kcp].sid = n
\* The member kcpSession of the session at address a leads to its object.
MemberOk(a) == kobj[obj[a].kcp].live /\ kobj[obj[a].kcp].sid = obj[a].sid
ReplyOk(n) == SessionOk(n) /\ MemberOk(loc[n].obj)

(***************************************************************************)
(* Session::close.  Thread x calls close on the object at address a and    *)
(* continues at label r.  Any thread may be in close on the same object at *)
(* the same time, so each read and write of a member is a step.            *)
(***************************************************************************)
CallClose(x, a, r) ==
  /\ call' = [call EXCEPT ![x] = [obj |-> a, sid |-> obj[a].sid, ret |-> r]]
  /\ Goto(x, "closeTest")

\* Thread n closes the session it serves.
CallCloseSelf(n, r) ==
  /\ call' = [call EXCEPT ![n] = [obj |-> loc[n].obj, sid |-> n, ret |-> r]]
  /\ Goto(n, "closeTest")

Target(x) == call[x].obj
TargetOk(x) == obj[Target(x)].live /\ obj[Target(x)].sid = call[x].sid

\* if (kcpSession != NULL)
CloseTest(x) ==
  /\ run = "up" /\ pc[x] = "closeTest"
  /\ Follow(TargetOk(x))
  /\ Goto(x, IF obj[Target(x)].kcp = NULL THEN "closePlayer" ELSE "closeKcp")
  /\ UNCHANGED <<gsVars, obj, kobj, loc, call, stored, authed, foreign>>

\* Mutant: the close packet is sent and kcpSession is never deleted.
CloseKcpLeaks(x) ==
  /\ run = "up" /\ pc[x] = "closeKcp"
  /\ IF obj[Target(x)].kcp = NULL
     THEN FollowNull
     ELSE /\ Follow(TargetOk(x))
          /\ Goto(x, "closeNull")
          /\ UNCHANGED <<gsVars, obj, kobj, loc, call, stored, authed, foreign>>

\* Send the close packet through kcpSession and delete it.
CloseKcp(x) ==
  /\ run = "up" /\ pc[x] = "closeKcp"
  /\ LET k == obj[Target(x)].kcp IN
     IF k = NULL
     THEN FollowNull
     ELSE /\ Follow(TargetOk(x) /\ MemberOk(Target(x)))
          /\ kobj' = [kobj EXCEPT ![k].live = FALSE]
          /\ Goto(x, "closeNull")
          /\ UNCHANGED <<gsVars, obj, loc, call, stored, authed, foreign>>

\* kcpSession = NULL
CloseNull(x) ==
  /\ run = "up" /\ pc[x] = "closeNull"
  /\ Follow(TargetOk(x))
  /\ obj' = [obj EXCEPT ![Target(x)].kcp = NULL]
  /\ Goto(x, "closePlayer")
  /\ UNCHANGED <<gsVars, kobj, loc, call, stored, authed, foreign>>

\* if (player != NULL) delete player, whose destructor saves it
ClosePlayer(x) ==
  /\ run = "up" /\ pc[x] = "closePlayer"
  /\ LET a == Target(x) IN
     \/ /\ obj[a].player = NULL
        /\ Follow(TargetOk(x))
        /\ Goto(x, "closeState")
        /\ obj' = obj
     \/ /\ obj[a].player # NULL
        /\ Follow(TargetOk(x) /\ obj[a].plive)
        /\ Goto(x, "closePlayerNull")
        /\ obj' = [obj EXCEPT ![a].plive = FALSE]
  /\ UNCHANGED <<gsVars, kobj, loc, call, stored, authed, foreign>>

\* ~Player saves the Player, and until onLogin the member curAvatar of one
\* that was loaded has no value: following it may crash the process.
SaveCrashes(x) ==
  /\ run = "up" /\ pc[x] = "closePlayer"
  /\ obj[Target(x)].player # NULL /\ obj[Target(x)].state # "ACTIVE"
  /\ FollowNull

\* player = NULL
ClosePlayerNull(x) ==
  /\ run = "up" /\ pc[x] = "closePlayerNull"
  /\ Follow(TargetOk(x))
  /\ obj' = [obj EXCEPT ![Target(x)].player = NULL]
  /\ Goto(x, "closeState")
  /\ UNCHANGED <<gsVars, kobj, loc, call, stored, authed, foreign>>

\* state = NOT_CONNECTED, and return to the caller
CloseState(x) ==
  /\ run = "up" /\ pc[x] = "closeState"
  /\ Follow(TargetOk(x))
  /\ obj' = [obj EXCEPT ![Target(x)].state = "NOT_CONNECTED"]
  /\ Goto(x, call[x].ret)
  /\ call' = [call EXCEPT ![x] = NoCall]
  /\ UNCHANGED <<gsVars, kobj, loc, stored, authed, foreign>>

CloseStep(x) ==
    \/ CloseTest(x) \/ CloseKcp(x) \/ CloseNull(x)
  \/ ClosePlayer(x) \/ SaveCrashes(x) \/ ClosePlayerNull(x) \/ CloseState(x)

-----------------------------------------------------------------------------
(***************************************************************************)
(* The session thread: SessionMain and the packet handlers it calls.  What *)
(* a request holds (its opcode, whether it parses, whose token it carries) *)
(* is the client's choice, made here when it is handled.                   *)
(***************************************************************************)
ThreadAt(n, l) == run = "up" /\ pc[n] = l

Serving(n) == obj[loc[n].obj]

\* while (session->getState() > NOT_CONNECTED)
Top(n) ==
  /\ ThreadAt(n, "top")
  /\ Follow(SessionOk(n))
  /\ Goto(n, IF Serving(n).state # "NOT_CONNECTED" THEN "recv" ELSE "exit")
  /\ UNCHANGED <<gsVars, obj, kobj, loc, call, stored, authed, foreign>>

\* Mutant: ikcp_recv delivers a message although none is complete.
RecvEmpty(n) ==
  /\ ThreadAt(n, "recv")
  /\ Follow(KcpOk(n))
  /\ kobj' = [kobj EXCEPT ![loc[n].kcp].queue = @ - 1]
  /\ \E req \in Requests : Goto(n, req)
  /\ UNCHANGED <<gsVars, obj, loc, call, stored, authed, foreign>>

\* kcp->recv through the cached pointer, decrypt, parse, processPacket
Recv(n) ==
  /\ ThreadAt(n, "recv")
  /\ Follow(KcpOk(n))
  /\ LET k == loc[n].kcp IN
     \/ /\ kobj[k].queue = 0
        /\ Goto(n, "update")
        /\ kobj' = kobj
     \/ /\ kobj[k].queue > 0
        /\ kobj' = [kobj EXCEPT ![k].queue = @ - 1]
        /\ \E req \in Requests : Goto(n, req)
  /\ UNCHANGED <<gsVars, obj, loc, call, stored, authed, foreign>>

\* A packet that does not parse, or an opcode no handler exists for.
Ignored(n) ==
  /\ ThreadAt(n, "ignored")
  /\ Goto(n, "update")
  /\ UNCHANGED <<gsVars, obj, kobj, loc, call, stored, run, ub, authed, foreign>>

\* handleGetPlayerTokenReq, wrong state or unparsable request: return -1.
TokenRefused(n) ==
  /\ ThreadAt(n, "tokenReq")
  /\ Follow(SessionOk(n))
  /\ Goto(n, "fail")
  /\ UNCHANGED <<gsVars, obj, kobj, loc, call, stored, authed, foreign>>

\* Mutant: the return after the close of a wrong token is missing.
TokenRejectedGoesOn(n) ==
  /\ ThreadAt(n, "tokenReq") /\ Serving(n).state = "TOKEN_WAIT"
  /\ Follow(SessionOk(n))
  /\ CallCloseSelf(n, "attach")
  /\ UNCHANGED <<gsVars, obj, kobj, loc, stored, authed, foreign>>

\* Unknown account, empty or wrong token: close(7), close(8) or close(12).
TokenRejected(n) ==
  /\ ThreadAt(n, "tokenReq") /\ Serving(n).state = "TOKEN_WAIT"
  /\ Follow(SessionOk(n))
  /\ CallCloseSelf(n, "fail")
  /\ UNCHANGED <<gsVars, obj, kobj, loc, stored, authed, foreign>>

\* The token matches and the account has no player yet: create one.
TokenNewPlayer(n) ==
  /\ ThreadAt(n, "tokenReq") /\ Serving(n).state = "TOKEN_WAIT"
  /\ Follow(SessionOk(n))
  /\ \E u \in Uid \ stored :
        /\ loc' = [loc EXCEPT ![n].uid = u]
        /\ stored' = stored \cup {u}
  /\ authed' = authed \cup {n}
  /\ Goto(n, "attach")
  /\ UNCHANGED <<gsVars, obj, kobj, call, foreign>>

\* The global gs, through which session threads look into sessionList.
ServerThere == pc[Gs] # "done"

(***************************************************************************)
(* The token matches and the player exists: it is loaded.  The Player      *)
(* constructor calls getSessionById, which follows every entry of          *)
(* sessionList without a null check, and the KcpSession of each one.       *)
(***************************************************************************)
TokenKnownPlayer(n) ==
  /\ ThreadAt(n, "tokenReq") /\ Serving(n).state = "TOKEN_WAIT"
  /\ IF ServerThere /\ \E i \in Slot : slot[i] = NULL
     THEN FollowNull
     ELSE /\ \E u \in stored : loc' = [loc EXCEPT ![n].uid = u]
          /\ Follow(/\ SessionOk(n)
                    /\ ServerThere => \A i \in Slot :
                         /\ obj[slot[i]].live
                         /\ obj[slot[i]].kcp # NULL => MemberOk(slot[i]))
          /\ authed' = authed \cup {n}
          /\ Goto(n, "kick")
          /\ UNCHANGED <<gsVars, obj, kobj, call, stored, foreign>>

\* getSessionByUid follows the slots up to the first one that has player u.
HasPlayer(i, u) == slot[i] # NULL /\ obj[slot[i]].player = u
LooksAt(u) == {i \in Slot : \A j \in 1..(i - 1) : ~HasPlayer(j, u)}
SlotOfUid(u) == {i \in LooksAt(u) : HasPlayer(i, u)}

\* Close the session that has the player now, if there is one: close(4).
Kick(n) ==
  /\ ThreadAt(n, "kick")
  /\ LET u == loc[n].uid
         seen == IF ServerThere THEN LooksAt(u) ELSE {}
     IN IF \E i \in seen : slot[i] = NULL
        THEN FollowNull
        ELSE /\ Follow(\A i \in seen : /\ obj[slot[i]].live
                                       /\ obj[slot[i]].player # NULL => obj[slot[i]].plive)
             /\ \/ /\ \E i \in seen \cap SlotOfUid(u) : CallClose(n, slot[i], "attach")
                   /\ foreign' = TRUE
                \/ /\ seen \cap SlotOfUid(u) = {}
                   /\ Goto(n, "attach")
                   /\ UNCHANGED <<call, foreign>>
             /\ UNCHANGED <<gsVars, obj, kobj, loc, stored, authed>>

\* setPlayer, generateSessionKey, setUseSecretKey, setState(LOGIN_WAIT)
Attach(n) ==
  /\ ThreadAt(n, "attach")
  /\ Follow(SessionOk(n))
  /\ obj' = [obj EXCEPT ![loc[n].obj] =
               [@ EXCEPT !.player = loc[n].uid, !.plive = TRUE, !.state = "LOGIN_WAIT"]]
  /\ loc' = [loc EXCEPT ![n].uid = NULL]
  /\ Goto(n, "reply")
  /\ UNCHANGED <<gsVars, kobj, call, stored, authed, foreign>>

\* sendPacket, which follows session->kcpSession without a null check; the
\* thread goes on at a label of next, "fail" when the packet is not sent.
SendPacket(n, next) ==
  IF Serving(n).kcp = NULL
  THEN FollowNull
  ELSE /\ Follow(ReplyOk(n))
       /\ \E l \in next : Goto(n, l)
       /\ UNCHANGED <<gsVars, obj, kobj, loc, call, stored, authed, foreign>>

\* Packets built from the Player object, whose pointer was fetched before.
SendFromPlayer(n, next) ==
  IF Serving(n).kcp = NULL
  THEN FollowNull
  ELSE /\ Follow(ReplyOk(n) /\ Serving(n).player # NULL /\ Serving(n).plive)
       /\ \E l \in next : Goto(n, l)
       /\ UNCHANGED <<gsVars, obj, kobj, loc, call, stored, authed, foreign>>

\* The handler sends its response and returns.
Reply(n) ==
  /\ run = "up" /\ pc[n] \in {"reply", "replyOnly"}
  /\ SendPacket(n, {"update", "fail"})

\* The request does not parse, or the response cannot be built: return -1.
HandlerError(n) ==
  /\ run = "up" /\ pc[n] \in {"pingReq", "scene", "reply", "replyOnly"}
  /\ Goto(n, "fail")
  /\ UNCHANGED <<gsVars, obj, kobj, loc, call, stored, run, ub, authed, foreign>>

\* handlePlayerLoginReq, wrong state or unparsable request: return -1.
LoginRefused(n) ==
  /\ ThreadAt(n, "loginReq")
  /\ Follow(SessionOk(n))
  /\ Goto(n, "fail")
  /\ UNCHANGED <<gsVars, obj, kobj, loc, call, stored, authed, foreign>>

\* No account or player, empty or wrong token: close(7), (8) or (12).
LoginRejected(n) ==
  /\ ThreadAt(n, "loginReq") /\ Serving(n).state = "LOGIN_WAIT"
  /\ Follow(SessionOk(n) /\ (Serving(n).player = NULL \/ Serving(n).plive))
  /\ CallCloseSelf(n, "fail")
  /\ UNCHANGED <<gsVars, obj, kobj, loc, stored, authed, foreign>>

\* The token matches: send PlayerLoginRsp, then call player->onLogin.
LoginAccepted(n) ==
  /\ ThreadAt(n, "loginReq") /\ Serving(n).state = "LOGIN_WAIT"
  /\ Serving(n).player # NULL
  /\ SendFromPlayer(n, {"onLogin", "fail"})

\* Player::onLogin returns at once when the session was closed meanwhile.
OnLogin(n) ==
  /\ ThreadAt(n, "onLogin")
  /\ Follow(SessionOk(n))
  /\ Goto(n, IF Serving(n).kcp = NULL \/ Serving(n).player = NULL
             THEN "update" ELSE "notify")
  /\ UNCHANGED <<gsVars, obj, kobj, loc, call, stored, authed, foreign>>

\* The notify packets of onLogin; whether they are sent is not looked at.
Notify(n) == ThreadAt(n, "notify") /\ SendFromPlayer(n, {"activate"})

\* The last statement of onLogin: setState(ACTIVE).
Activate(n) ==
  /\ ThreadAt(n, "activate")
  /\ Follow(SessionOk(n))
  /\ obj' = [obj EXCEPT ![loc[n].obj].state = "ACTIVE"]
  /\ Goto(n, "update")
  /\ UNCHANGED <<gsVars, kobj, loc, call, stored, authed, foreign>>

\* handlePingReq, in any state: updateLastPingTime and answer.
PingReq(n) ==
  /\ ThreadAt(n, "pingReq")
  /\ Follow(SessionOk(n))
  /\ obj' = [obj EXCEPT ![loc[n].obj].late = FALSE]
  /\ Goto(n, "reply")
  /\ UNCHANGED <<gsVars, kobj, loc, call, stored, authed, foreign>>

\* handleEnterSceneReadyReq and handleSceneInitFinishReq need a player.
SceneReq(n) ==
  /\ ThreadAt(n, "sceneReq")
  /\ Follow(SessionOk(n))
  /\ Goto(n, IF Serving(n).player = NULL THEN "fail" ELSE "scene")
  /\ UNCHANGED <<gsVars, obj, kobj, loc, call, stored, authed, foreign>>

\* The notify packets of the scene handlers, then their response.
SceneNotify(n) == ThreadAt(n, "scene") /\ SendFromPlayer(n, {"reply", "fail"})

\* Mutant: a handler's error never ends the loop.
FailGoesOn(n) ==
  /\ ThreadAt(n, "fail")
  /\ Follow(SessionOk(n))
  /\ Goto(n, "update")
  /\ UNCHANGED <<gsVars, obj, kobj, loc, call, stored, authed, foreign>>

\* A handler returned an error: leave the loop when the session is closed.
Fail(n) ==
  /\ ThreadAt(n, "fail")
  /\ Follow(SessionOk(n))
  /\ Goto(n, IF Serving(n).state = "NOT_CONNECTED" THEN "exit" ELSE "update")
  /\ UNCHANGED <<gsVars, obj, kobj, loc, call, stored, authed, foreign>>

\* kcp->update(50) through the cached pointer; KCP output goes to `client'.
Update(n) ==
  /\ ThreadAt(n, "update")
  /\ Follow(KcpOk(n))
  /\ Goto(n, "ping")
  /\ UNCHANGED <<gsVars, obj, kobj, loc, call, stored, authed, foreign>>

\* Mutant: the ping timeout is not looked at.
PingForgotten(n) ==
  /\ ThreadAt(n, "ping")
  /\ Follow(SessionOk(n))
  /\ Goto(n, "top")
  /\ UNCHANGED <<gsVars, obj, kobj, loc, call, stored, authed, foreign>>

\* The ping timeout: close(10) and return; otherwise sleep and go round.
Ping(n) ==
  /\ ThreadAt(n, "ping")
  /\ Follow(SessionOk(n))
  /\ IF Serving(n).late
     THEN CallCloseSelf(n, "done")
     ELSE Goto(n, "top") /\ call' = call
  /\ UNCHANGED <<gsVars, obj, kobj, loc, stored, authed, foreign>>

\* close(3) after the loop
Exit(n) ==
  /\ ThreadAt(n, "exit")
  /\ Follow(SessionOk(n))
  /\ CallCloseSelf(n, "done")
  /\ UNCHANGED <<gsVars, obj, kobj, loc, stored, authed, foreign>>

Token(n) == \/ TokenRefused(n) \/ TokenRejected(n)
            \/ TokenNewPlayer(n) \/ TokenKnownPlayer(n) \/ Kick(n) \/ Attach(n)
Login(n) == \/ LoginRefused(n) \/ LoginRejected(n) \/ LoginAccepted(n)
            \/ OnLogin(n) \/ Notify(n) \/ Activate(n)

ThreadStep(n) ==
  \/ Top(n) \/ Recv(n) \/ Ignored(n) \/ Token(n) \/ Login(n) \/ PingReq(n)
  \/ SceneReq(n) \/ SceneNotify(n) \/ Reply(n) \/ HandlerError(n) \/ Fail(n)
  \/ Update(n) \/ Ping(n) \/ Exit(n) \/ CloseStep(n)

\* Thirty seconds go by without a ping for the session at address a.
PingLapses(a) ==
  /\ run = "up" /\ obj[a].live /\ ~obj[a].late
  /\ obj' = [obj EXCEPT ![a].late = TRUE]
  /\ UNCHANGED <<gsVars, kobj, pc, loc, call, stored, run, ub, authed, foreign>>

-----------------------------------------------------------------------------
(***************************************************************************)
(* The gameserver thread.  Clients send what they like, whenever they      *)
(* like: a client that was given session id s may send data or a shutdown  *)
(* request for s at any later time, which covers lost, late, duplicated    *)
(* and reordered datagrams.  recv stores the sender in `client'.           *)
(***************************************************************************)
GsAt(l) == run = "up" /\ pc[Gs] = l

Arrives(kind, c) ==
  /\ GsAt("idle") /\ ~stopping
  /\ kind \in Kinds
  /\ client' = c

\* The slots the routing loop does not skip, and the first one of them.
Connected(i) == slot[i] # NULL /\ obj[slot[i]].kcp # NULL
FirstConnected == {i \in Slot : Connected(i) /\ \A j \in 1..(i - 1) : ~Connected(j)}

SlotKcp(i) == obj[slot[i]].kcp

\* Every getSessionId call of the routing loop finds its KcpSession.
ScanOk == \A i \in Slot : Connected(i) => MemberOk(slot[i])

(***************************************************************************)
(* A data segment for session s.  The first connected slot is compared     *)
(* with its id; after a mismatch `sid' is overwritten with the bytes of    *)
(* the handshake layout and no later slot can match.                       *)
(***************************************************************************)
DataFor(s) == {i \in FirstConnected : kobj[SlotKcp(i)].sid = s}

RecvData(c, s) ==
  /\ Arrives("data", c) /\ peer[s] = c
  /\ Follow(ScanOk)
  /\ \/ \E i \in DataFor(s) : gkcp' = SlotKcp(i) /\ Goto(Gs, "push")
     \/ DataFor(s) = {} /\ UNCHANGED <<gkcp, pc>>
  /\ UNCHANGED <<slot, gslot, stopping, peer, obj, kobj, loc, call, stored,
                 authed, foreign>>

\* pushToKcp: ikcp_input may complete a message for the session thread.
Push ==
  /\ GsAt("push")
  /\ Follow(kobj[gkcp].live)
  /\ \/ /\ kobj[gkcp].queue < MaxQueue
        /\ kobj' = [kobj EXCEPT ![gkcp].queue = @ + 1]
     \/ kobj' = kobj
  /\ gkcp' = NULL
  /\ Goto(Gs, "idle")
  /\ UNCHANGED <<slot, gslot, client, stopping, peer, obj, loc, call, stored,
                 authed, foreign>>

\* The session a shutdown request closes: the test of its session id never
\* holds, so it is the one in the first connected slot.
ShutdownFor(s) == FirstConnected

\* A shutdown request for session s.
RecvShutdown(c, s) ==
  /\ Arrives("shutdown", c) /\ peer[s] = c
  /\ Follow(ScanOk)
  /\ \/ /\ \E i \in ShutdownFor(s) : CallClose(Gs, slot[i], "idle")
        /\ foreign' = TRUE
     \/ ShutdownFor(s) = {} /\ UNCHANGED <<pc, call, foreign>>
  /\ UNCHANGED <<slot, gslot, gkcp, stopping, peer, obj, kobj, loc, stored,
                 authed>>

\* Anything else: reported and dropped, but the sender is remembered.
RecvBogus(c) ==
  /\ Arrives("bogus", c)
  /\ Follow(ScanOk)
  /\ UNCHANGED <<slot, gslot, gkcp, stopping, peer, obj, kobj, pc, loc, call,
                 stored, authed, foreign>>

NextSid == {n \in Sid : pc[n] = "none" /\ \A m \in 1..(n - 1) : pc[m] # "none"}

\* A handshake: the reply with a new session id is sent (or cannot be sent).
RecvHandshake(c) ==
  /\ Arrives("handshake", c) /\ NextSid # {}
  /\ Follow(ScanOk)
  /\ Goto(Gs, "accept") \/ pc' = pc
  /\ UNCHANGED <<slot, gslot, gkcp, stopping, peer, obj, kobj, loc, call,
                 stored, authed, foreign>>

\* The slots a new session may take, and the first one of them.
Vacant(i) == slot[i] = NULL \/ obj[slot[i]].state = "NOT_CONNECTED"
FirstVacant == {i \in Slot : Vacant(i) /\ \A j \in 1..(i - 1) : ~Vacant(j)}

\* Mutant: the closed session in the slot is not deleted first.
AcceptOverwrites ==
  /\ GsAt("accept")
  /\ \/ /\ FirstVacant = {}
        /\ Goto(Gs, "idle") /\ gslot' = gslot
     \/ \E i \in FirstVacant : gslot' = i /\ Goto(Gs, "create")
  /\ UNCHANGED <<slot, gkcp, client, stopping, peer, obj, kobj, loc, call,
                 stored, run, ub, authed, foreign>>

\* Look for a slot; when there is none, send a close packet (reason 5).
Accept ==
  /\ GsAt("accept")
  /\ \/ /\ FirstVacant = {}
        /\ Goto(Gs, "idle") /\ gslot' = gslot
     \/ \E i \in FirstVacant :
          /\ gslot' = i
          /\ Goto(Gs, IF slot[i] = NULL THEN "create" ELSE "delete")
  /\ UNCHANGED <<slot, gkcp, client, stopping, peer, obj, kobj, loc, call,
                 stored, run, ub, authed, foreign>>

\* delete sessionList[i]: the destructor calls close(12) ...
Delete(l, r) ==
  /\ GsAt(l)
  /\ CallClose(Gs, slot[gslot], r)
  /\ foreign' = (foreign \/ pc[obj[slot[gslot]].sid] # "done")
  /\ UNCHANGED <<gsVars, obj, kobj, loc, stored, run, ub, authed>>

\* ... and the memory is freed, while the slot still holds the pointer ...
Free(l, r) ==
  /\ GsAt(l)
  /\ obj' = [obj EXCEPT ![slot[gslot]].live = FALSE]
  /\ Goto(Gs, r)
  /\ UNCHANGED <<gsVars, kobj, loc, call, stored, run, ub, authed, foreign>>

\* Mutant: the slot keeps the pointer to the freed session.
KeepSlot(l, r) ==
  /\ GsAt(l)
  /\ Goto(Gs, r)
  /\ UNCHANGED <<gsVars, obj, kobj, loc, call, stored, run, ub, authed, foreign>>

\* ... until sessionList[i] = NULL, the next statement.
ClearSlot(l, r) ==
  /\ GsAt(l)
  /\ slot' = [slot EXCEPT ![gslot] = NULL]
  /\ Goto(Gs, r)
  /\ UNCHANGED <<gslot, gkcp, client, stopping, peer, obj, kobj, loc, call,
                 stored, run, ub, authed, foreign>>

\* new Session, with its KcpSession, and a new thread running SessionMain
Create ==
  /\ GsAt("create")
  /\ \E n \in NextSid, a \in Addr, k \in KAddr :
       /\ ~obj[a].live /\ ~kobj[k].live
       /\ obj' = [obj EXCEPT ![a] = [live |-> TRUE, sid |-> n, state |-> "TOKEN_WAIT",
                                     kcp |-> k, player |-> NULL, plive |-> FALSE,
                                     late |-> FALSE]]
       /\ kobj' = [kobj EXCEPT ![k] = [live |-> TRUE, sid |-> n, queue |-> 0]]
       /\ slot' = [slot EXCEPT ![gslot] = a]
       /\ loc' = [loc EXCEPT ![n] = [obj |-> a, kcp |-> k, uid |-> NULL]]
       /\ peer' = [peer EXCEPT ![n] = client]
       /\ pc' = [pc EXCEPT ![n] = "top", ![Gs] = "idle"]
  /\ UNCHANGED <<gslot, gkcp, client, stopping, call, stored, run, ub, authed,
                 foreign>>

\* handleTerm, or the other server's failure, sets GameserverSignal.
Signal ==
  /\ run = "up" /\ Signals /\ ~stopping
  /\ stopping' = TRUE
  /\ UNCHANGED <<slot, gslot, gkcp, client, peer, obj, kobj, pc, loc, call,
                 stored, run, ub, authed, foreign>>

\* The receive loop ends when the signal is seen.
LeaveLoop ==
  /\ GsAt("idle") /\ stopping
  /\ Goto(Gs, "stop")
  /\ UNCHANGED <<gsVars, obj, kobj, loc, call, stored, run, ub, authed, foreign>>

FirstUsed == {i \in Slot : slot[i] # NULL /\ \A j \in 1..(i - 1) : slot[j] = NULL}

\* Gameserver::stop: close(6) the next session, or finish.
Stop ==
  /\ GsAt("stop")
  /\ \/ \E i \in FirstUsed :
          /\ gslot' = i
          /\ CallClose(Gs, slot[i], "stopDelete")
          /\ foreign' = TRUE
     \/ /\ FirstUsed = {}
        /\ Goto(Gs, "done")
        /\ UNCHANGED <<gslot, call, foreign>>
  /\ UNCHANGED <<slot, gkcp, client, stopping, peer, obj, kobj, loc, stored,
                 run, ub, authed>>

\* main joins the gameserver thread and the process ends.
ProcessExit ==
  /\ GsAt("done")
  /\ run' = "exited"
  /\ UNCHANGED <<gsVars, obj, kobj, pc, loc, call, stored, ub, authed, foreign>>

Receive ==
  \E c \in Client : \/ RecvHandshake(c) \/ RecvBogus(c)
                    \/ \E s \in Sid : RecvData(c, s) \/ RecvShutdown(c, s)

\* What the gameserver thread does once a datagram or the signal is there.
GsWork ==
  \/ Push \/ Accept \/ Delete("delete", "free") \/ Free("free", "clear")
  \/ ClearSlot("clear", "create") \/ Create \/ LeaveLoop \/ Stop
  \/ Delete("stopDelete", "stopFree") \/ Free("stopFree", "stopClear")
  \/ ClearSlot("stopClear", "stop") \/ CloseStep(Gs)

Next ==
  \/ Receive \/ GsWork \/ Signal \/ ProcessExit
  \/ \E n \in Sid : ThreadStep(n)
  \/ \E a \in Addr : PingLapses(a)

Spec == Init /\ [][Next]_vars

(***************************************************************************)
(* The operating system runs every thread and time passes; nothing is      *)
(* assumed of the clients, of the network or of the signal.                *)
(***************************************************************************)
Fairness ==
  /\ WF_vars(GsWork)
  /\ \A n \in Sid : WF_vars(ThreadStep(n))
  /\ \A a \in Addr : WF_vars(PingLapses(a))

FairSpec == Spec /\ Fairness

-----------------------------------------------------------------------------
\* The gameserver thread is between `delete sessionList[i]' and clearing it.
SlotDangles(i) == i = gslot /\ pc[Gs] \in {"clear", "stopClear"}

(***************************************************************************)
(* The slot table and the Session objects agree, whatever the other        *)
(* threads do and whatever a dangling access does: an entry of sessionList *)
(* leads to an allocated Session, except for the one slot the gameserver   *)
(* thread has just deleted and is about to clear, where a session thread   *)
(* that looks a player up meets freed memory; no Session is in two slots,  *)
(* and none is lost (allocated and in no slot), through every accept, slot *)
(* reuse and stop (GameserverMain, Gameserver::stop).                      *)
(***************************************************************************)
SlotsOwnSessions ==
  /\ \A i \in Slot : slot[i] # NULL => (obj[slot[i]].live <=> ~SlotDangles(i))
  /\ \A i, j \in Slot : slot[i] # NULL /\ slot[i] = slot[j] => i = j
  /\ \A a \in Addr : obj[a].live => \E i \in Slot : slot[i] = a

(***************************************************************************)
(* Until a dangling pointer has been followed, KcpSession objects are      *)
(* neither leaked nor shared: each one belongs to exactly one Session, the *)
(* one it was created for, and a Session's pointer leads to a deleted one  *)
(* only while a thread is between `delete kcpSession' and                  *)
(* `kcpSession = NULL' (Session::close).                                   *)
(***************************************************************************)
KcpOwned ==
  ~ub =>
    /\ \A k \in KAddr : kobj[k].live =>
         \E a \in Addr : obj[a].live /\ obj[a].kcp = k /\ obj[a].sid = kobj[k].sid
    /\ \A a \in Addr : obj[a].live /\ obj[a].kcp # NULL =>
         \/ MemberOk(a)
         \/ \E x \in Actor : pc[x] = "closeNull" /\ Target(x) = a

(***************************************************************************)
(* Until a dangling pointer has been followed, a session is past           *)
(* TOKEN_WAIT, or has a player, only when its own thread accepted a token  *)
(* sent over this very session: slot reuse, kicks and late closes by other *)
(* threads never give a client the login of another one                    *)
(* (handleGetPlayerTokenReq, handlePlayerLoginReq).                        *)
(***************************************************************************)
LoginNeedsToken ==
  ~ub => \A a \in Addr :
    obj[a].live /\ (obj[a].state \in {"LOGIN_WAIT", "ACTIVE"} \/ obj[a].player # NULL)
      => obj[a].sid \in authed

(***************************************************************************)
(* As long as no other thread closes or deletes a session that is still    *)
(* being served, a session thread never works with a dead pointer: after   *)
(* its own close (wrong token, ping timeout) it leaves SessionMain without *)
(* going back to the KcpSession pointer it cached (session.cpp).           *)
(***************************************************************************)
LoneThreadSafe ==
  ~foreign => \A n \in Sid :
    /\ pc[n] \notin {"none", "done"} => SessionOk(n)
    /\ pc[n] \in {"recv", "update"} => KcpOk(n)
    /\ pc[n] \in {"reply", "replyOnly", "onLogin", "notify", "scene"} => ReplyOk(n)

(***************************************************************************)
(* As long as no other thread closes a session, closing is final: the      *)
(* state of a Session object never leaves NOT_CONNECTED again, so a slot   *)
(* seen as free stays free (Session::close, setState).                     *)
(***************************************************************************)
ClosedStaysClosed ==
  [][\A a \in Addr :
       ~foreign' /\ obj[a].live /\ obj[a].state = "NOT_CONNECTED" /\ obj'[a].live
         => obj'[a].state = "NOT_CONNECTED"]_vars

(***************************************************************************)
(* A client that falls silent is dropped: unless pings keep arriving for   *)
(* ever, every session thread that was started returns (or the process     *)
(* ends), whatever closes and slot reuse happen meanwhile (SessionMain).   *)
(***************************************************************************)
SilentSessionsEnd ==
  \/ []<><<\E n \in Sid : PingReq(n)>>_vars
  \/ \A n \in Sid : (pc[n] = "top") ~> (pc[n] = "done" \/ run # "up")

(***************************************************************************)
(* A shutdown request closes the session it names and no other one         *)
(* (gameserver.cpp:314-318, 405).                                          *)
(***************************************************************************)
ShutdownNamesItsSession ==
  [][\A c \in Client, s \in Sid :
       RecvShutdown(c, s) /\ pc'[Gs] = "closeTest" => call'[Gs].sid = s]_vars
=============================================================================
