--------------------------- MODULE SessionsProofs ---------------------------
(***************************************************************************)
(* Proofs about Sessions, for every number of slots, clients, sessions and *)
(* addresses, and whatever the process does after undefined behaviour.     *)
(*                                                                         *)
(* Neither the slot table nor the login property is inductive alone.  The  *)
(* slot table needs to know what slot the gameserver thread is working on  *)
(* while it deletes and creates (GsPlace); the login property needs to     *)
(* know that a thread which is about to attach a player, or is inside      *)
(* onLogin, has accepted a token (ThreadPlace).                            *)
(***************************************************************************)
EXTENDS Sessions, TLAPS

\* The gameserver thread is deleting the session of slot gslot.
GsHolds == \/ pc[Gs] \in {"delete", "free", "stopDelete", "stopFree"}
           \/ pc[Gs] \in CloseLabels /\ call[Gs].ret # "idle"

GsPlace ==
  /\ pc[Gs] \in GsLabels \cup CloseLabels \cup {"done"}
  /\ pc[Gs] \in CloseLabels => call[Gs].ret \in {"idle", "free", "stopDelete", "stopFree"}
  /\ GsHolds => slot[gslot] # NULL
  /\ pc[Gs] = "create" => slot[gslot] = NULL

\* Where a thread can be only after it has accepted a token.
TokenLabels == {"kick", "attach", "onLogin", "notify", "activate"}
PastToken(n) == pc[n] \in TokenLabels \/ (pc[n] \in CloseLabels /\ call[n].ret = "attach")

Placed(n) ==
  /\ pc[n] \in ThreadLabels \cup CloseLabels
  /\ pc[n] \in CloseLabels => call[n].ret \in {"fail", "done", "attach"}
  /\ pc[n] # "none" => loc[n].obj \in Addr
  /\ ~ub /\ PastToken(n) => n \in authed

ThreadPlace == \A n \in Sid : Placed(n)

IInv == TypeOK /\ SlotsOwnSessions /\ LoginNeedsToken /\ GsPlace /\ ThreadPlace

\* No session is allocated at the start.
LEMMA InitIInv ==
  Init => IInv
  <1> SUFFICES ASSUME Init PROVE IInv
    OBVIOUS
  <1> USE SessionsAssumption
  <1>1. TypeOK
    <2>1. obj \in [Addr -> SessionObj] /\ kobj \in [KAddr -> KcpObj]
      BY DEF Init, SessionObj, KcpObj, States
    <2>2. pc \in [Actor -> Labels]
      BY DEF Init, Labels, ThreadLabels, GsLabels
    <2>3. loc \in [Sid -> Local] /\ call \in [Actor -> Call]
      BY DEF Init, Local, Call, NoCall, Labels, ThreadLabels
    <2>4. gslot \in Slot
      BY DEF Init, Slot
    <2> QED BY <2>1, <2>2, <2>3, <2>4 DEF Init, TypeOK
  <1>2. SlotsOwnSessions
    BY DEF Init, SlotsOwnSessions
  <1>3. LoginNeedsToken
    BY DEF Init, LoginNeedsToken
  <1>4. GsPlace
    BY DEF Init, GsPlace, GsHolds, GsLabels, CloseLabels, Actor
  <1>5. ThreadPlace
    BY DEF Init, ThreadPlace, Placed, PastToken, TokenLabels, ThreadLabels, CloseLabels, Actor
  <1> QED BY <1>1, <1>2, <1>3, <1>4, <1>5 DEF IInv

-----------------------------------------------------------------------------
(***************************************************************************)
(* Frames.  A step of one thread that only lowers session objects (closes, *)
(* forgets the player) and leaves the slots alone keeps the invariant when *)
(* that thread stays in a legal place.                                     *)
(***************************************************************************)
LowersTo(f, g) ==
  /\ g \in [Addr -> SessionObj]
  /\ \A a \in Addr : /\ g[a].live = f[a].live /\ g[a].sid = f[a].sid
                     /\ g[a].state \in {f[a].state, "NOT_CONNECTED"}
                     /\ g[a].player \in {f[a].player, NULL}
Lowers == LowersTo(obj, obj')

\* The step neither opens nor closes the gap between the delete of a session
\* and the clearing of its slot.
SameGap == \A i \in Slot : SlotDangles(i)' <=> SlotDangles(i)

\* No step of a session thread does, and no step of the gameserver thread that
\* neither starts nor ends there.
LEMMA GapStays ==
  ASSUME TypeOK, NEW x \in Actor, NEW l, pc' = [pc EXCEPT ![x] = l],
         x = Gs => {pc[Gs], l} \cap {"clear", "stopClear"} = {},
         x # Gs => gslot' = gslot
  PROVE  SameGap
  <1>1. CASE x = Gs
    <2>1. pc'[Gs] = l
      BY <1>1 DEF TypeOK
    <2> QED BY <1>1, <2>1 DEF SameGap, SlotDangles
  <1>2. CASE x # Gs
    <2>1. pc'[Gs] = pc[Gs]
      BY <1>2 DEF TypeOK, Actor
    <2> QED BY <1>2, <2>1 DEF SameGap, SlotDangles
  <1> QED BY <1>1, <1>2

\* A step that only lowers objects keeps the table and the logins sound.
LEMMA LowersKeeps ==
  ASSUME IInv, Lowers, slot' = slot, SameGap, authed \subseteq authed', ub => ub'
  PROVE  SlotsOwnSessions' /\ LoginNeedsToken'
  <1>1. SlotsOwnSessions'
    BY SMTT(60) DEF IInv, TypeOK, SlotsOwnSessions, Lowers, LowersTo, SameGap
  <1>2. LoginNeedsToken'
    BY DEF IInv, LoginNeedsToken, Lowers, LowersTo
  <1> QED BY <1>1, <1>2

\* A step that leaves the objects alone lowers them.
LEMMA ObjSame ==
  ASSUME TypeOK, obj' = obj PROVE Lowers
  BY DEF TypeOK, Lowers, LowersTo

\* The single-member writes of the session code that lower an object.
LEMMA WriteLowers ==
  ASSUME NEW f \in [Addr -> SessionObj], NEW a
  PROVE  /\ LowersTo(f, [f EXCEPT ![a].kcp = NULL])
         /\ LowersTo(f, [f EXCEPT ![a].player = NULL])
         /\ LowersTo(f, [f EXCEPT ![a].plive = FALSE])
         /\ LowersTo(f, [f EXCEPT ![a].state = "NOT_CONNECTED"])
         /\ LowersTo(f, [f EXCEPT ![a].late = TRUE])
         /\ LowersTo(f, [f EXCEPT ![a].late = FALSE])
  <1>1. LowersTo(f, [f EXCEPT ![a].kcp = NULL])
    BY ZenonT(60) DEF LowersTo, SessionObj
  <1>2. LowersTo(f, [f EXCEPT ![a].player = NULL])
    BY ZenonT(60) DEF LowersTo, SessionObj
  <1>3. LowersTo(f, [f EXCEPT ![a].plive = FALSE])
    BY ZenonT(60) DEF LowersTo, SessionObj
  <1>4. LowersTo(f, [f EXCEPT ![a].state = "NOT_CONNECTED"])
    BY ZenonT(60) DEF LowersTo, SessionObj, States
  <1>5. LowersTo(f, [f EXCEPT ![a].late = TRUE])
    BY ZenonT(60) DEF LowersTo, SessionObj
  <1>6. LowersTo(f, [f EXCEPT ![a].late = FALSE])
    BY ZenonT(60) DEF LowersTo, SessionObj
  <1> QED BY <1>1, <1>2, <1>3, <1>4, <1>5, <1>6

\* A step of thread n outside Session::close that moves it to label l.
Jumps(n, l) ==
  /\ pc[n] \notin CloseLabels \cup {"none"}
  /\ l \in ThreadLabels /\ (l \in TokenLabels => pc[n] \in TokenLabels)
  /\ pc' = [pc EXCEPT ![n] = l]
  /\ UNCHANGED <<gsVars, loc, call, stored, authed, foreign>>
  /\ ub' \in BOOLEAN /\ run' \in {"up", "crashed", "exited"} /\ (ub => ub')

\* A step of a session thread from one place to another.
LEMMA JumpKeeps ==
  ASSUME IInv, NEW n \in Sid, NEW l, Jumps(n, l), Lowers, kobj' \in [KAddr -> KcpObj]
  PROVE  IInv'
  <1>1. TypeOK'
    BY DEF IInv, TypeOK, Jumps, Lowers, LowersTo, gsVars, Labels
  <1>2. SlotsOwnSessions' /\ LoginNeedsToken'
    <2>1. SameGap
      BY GapStays, SessionsAssumption DEF IInv, Jumps, gsVars, Actor
    <2> QED BY <2>1, LowersKeeps DEF Jumps, gsVars
  <1>3. GsPlace'
    BY SessionsAssumption DEF IInv, TypeOK, GsPlace, GsHolds, Jumps, gsVars, Actor
  <1>4. ThreadPlace'
    <2>1. l \notin CloseLabels
      BY DEF Jumps, ThreadLabels, Requests, CloseLabels
    <2> QED BY <2>1 DEF IInv, TypeOK, ThreadPlace, Placed, PastToken, Jumps, Actor
  <1> QED BY <1>1, <1>2, <1>3, <1>4 DEF IInv

\* Thread actions that touch no session object.
LEMMA PlainStep ==
  ASSUME IInv, NEW n \in Sid,
         \/ Top(n) \/ Recv(n) \/ Ignored(n) \/ TokenRefused(n) \/ LoginRefused(n)
         \/ OnLogin(n) \/ SceneReq(n) \/ HandlerError(n) \/ Fail(n) \/ Update(n)
  PROVE  IInv'
  <1>t. TypeOK
    BY DEF IInv
  <1>1. \E l : Jumps(n, l)
    <2> USE <1>t, SessionsAssumption
        DEF TypeOK, Jumps, Follow, ThreadAt, Goto, ThreadLabels, CloseLabels, TokenLabels, Requests
    <2>1. CASE Top(n) \/ OnLogin(n)
      BY <2>1 DEF Top, OnLogin
    <2>2. CASE Recv(n) \/ Ignored(n)
      BY <2>2 DEF Recv, Ignored
    <2>3. CASE TokenRefused(n) \/ LoginRefused(n) \/ SceneReq(n)
      BY <2>3 DEF TokenRefused, LoginRefused, SceneReq
    <2>4. CASE HandlerError(n) \/ Fail(n) \/ Update(n)
      BY <2>4 DEF HandlerError, Fail, Update
    <2> QED BY <2>1, <2>2, <2>3, <2>4
  <1>2. kobj' \in [KAddr -> KcpObj]
    <2>1. CASE Recv(n)
      BY <2>1, <1>t, SessionsAssumption DEF Recv, TypeOK, KcpObj
    <2>2. CASE ~Recv(n)
      BY <2>2, <1>t DEF Top, Ignored, TokenRefused, LoginRefused, OnLogin, SceneReq,
         HandlerError, Fail, Update, TypeOK
    <2> QED BY <2>1, <2>2
  <1>3. obj' = obj
    BY DEF Top, Recv, Ignored, TokenRefused, LoginRefused, OnLogin, SceneReq,
       HandlerError, Fail, Update
  <1> QED BY <1>t, <1>1, <1>2, <1>3, JumpKeeps, ObjSame

\* Following a null pointer ends the process and changes nothing else.
LEMMA FollowNullStep ==
  ASSUME IInv, FollowNull PROVE IInv'
  <1> USE DEF FollowNull, gsVars, IInv
  <1>1. TypeOK' /\ SlotsOwnSessions' /\ LoginNeedsToken'
    BY DEF TypeOK, SlotsOwnSessions, SlotDangles, LoginNeedsToken
  <1>2. GsPlace' /\ ThreadPlace'
    BY DEF GsPlace, GsHolds, ThreadPlace, Placed, PastToken
  <1> QED BY <1>1, <1>2

\* sendPacket and the notify packets of onLogin and of the scene handlers.
LEMMA SendStep ==
  ASSUME IInv, NEW n \in Sid,
         Reply(n) \/ LoginAccepted(n) \/ Notify(n) \/ SceneNotify(n)
  PROVE  IInv'
  <1>t. TypeOK
    BY DEF IInv
  <1>1. CASE FollowNull
    BY <1>1, FollowNullStep
  <1> SUFFICES ASSUME ~FollowNull PROVE IInv'
    BY <1>1
  <1>2. CASE Reply(n) \/ Notify(n) \/ SceneNotify(n)
    <2>1. \E l : Jumps(n, l)
      <3> USE <1>t, SessionsAssumption DEF SendPacket, SendFromPlayer, TypeOK, Jumps,
          Follow, ThreadAt, Goto, ThreadLabels, CloseLabels, TokenLabels, Requests
      <3>1. CASE Reply(n)
        BY <3>1 DEF Reply
      <3>2. CASE Notify(n)
        BY <3>2 DEF Notify
      <3>3. CASE SceneNotify(n)
        BY <3>3 DEF SceneNotify
      <3> QED BY <1>2, <3>1, <3>2, <3>3
    <2>2. obj' = obj /\ kobj' = kobj
      BY <1>2 DEF Reply, Notify, SceneNotify, SendPacket, SendFromPlayer
    <2> QED BY <1>t, <2>1, <2>2, JumpKeeps, ObjSame DEF TypeOK
  <1>3. CASE LoginAccepted(n)
    <2>1. /\ pc[n] = "loginReq"
          /\ UNCHANGED <<gsVars, obj, kobj, loc, call, stored, authed, foreign>>
          /\ ub' \in BOOLEAN /\ run' \in {"up", "crashed", "exited"} /\ (ub => ub')
      BY <1>3, <1>t, SessionsAssumption
         DEF LoginAccepted, ThreadAt, SendFromPlayer, Follow, Goto, TypeOK
    <2>2. ASSUME ~ub' PROVE n \in authed
      <3>1. ~ub /\ SessionOk(n) /\ obj[loc[n].obj].state = "LOGIN_WAIT"
        BY <1>3, <1>t, <2>2
           DEF LoginAccepted, SendFromPlayer, Follow, ReplyOk, Serving, TypeOK
      <3>2. loc[n].obj \in Addr
        BY <2>1 DEF IInv, ThreadPlace, Placed
      <3> QED BY <3>1, <3>2 DEF IInv, LoginNeedsToken, SessionOk
    <2>3. PICK l \in {"onLogin", "fail"} : pc' = [pc EXCEPT ![n] = l]
      BY <1>3 DEF LoginAccepted, SendFromPlayer, Goto
    <2>4. TypeOK'
      BY <1>t, <2>1, <2>3 DEF TypeOK, gsVars, Labels, ThreadLabels
    <2>5. SlotsOwnSessions' /\ LoginNeedsToken'
      <3>1. SameGap
        BY <1>t, <2>1, <2>3, GapStays, SessionsAssumption DEF gsVars, Actor
      <3> QED BY <1>t, <2>1, <3>1, ObjSame, LowersKeeps DEF gsVars
    <2>6. GsPlace'
      BY <1>t, <2>1, <2>3, SessionsAssumption
         DEF IInv, TypeOK, GsPlace, GsHolds, gsVars, Actor
    <2>7. ThreadPlace'
      BY <1>t, <2>1, <2>2, <2>3 DEF IInv, TypeOK, ThreadPlace, Placed, PastToken,
         ThreadLabels, CloseLabels, Actor
    <2> QED BY <2>4, <2>5, <2>6, <2>7 DEF IInv
  <1> QED BY <1>2, <1>3

\* handlePingReq resets the ping timer; time sets it off.
LEMMA TimerStep ==
  ASSUME IInv, (\E n \in Sid : PingReq(n)) \/ (\E a \in Addr : PingLapses(a))
  PROVE  IInv'
  <1>t. TypeOK
    BY DEF IInv
  <1>1. ASSUME NEW n \in Sid, PingReq(n) PROVE IInv'
    <2>1. Jumps(n, "reply")
      BY <1>1, <1>t, SessionsAssumption DEF PingReq, TypeOK, Jumps, Follow, ThreadAt,
         Goto, ThreadLabels, CloseLabels, TokenLabels, Requests
    <2>2. Lowers /\ kobj' = kobj
      BY <1>1, <1>t, WriteLowers DEF PingReq, TypeOK, Lowers
    <2> QED BY <1>t, <2>1, <2>2, JumpKeeps DEF TypeOK
  <1>2. ASSUME NEW a \in Addr, PingLapses(a) PROVE IInv'
    <2>1. Lowers
      BY <1>2, <1>t, WriteLowers DEF PingLapses, TypeOK, Lowers
    <2>2. TypeOK'
      BY <1>2, <1>t, <2>1 DEF PingLapses, TypeOK, Lowers, LowersTo, gsVars
    <2>3. SlotsOwnSessions' /\ LoginNeedsToken'
      BY <1>2, <2>1, LowersKeeps DEF PingLapses, gsVars, SameGap, SlotDangles
    <2>4. GsPlace' /\ ThreadPlace'
      BY <1>2 DEF IInv, PingLapses, gsVars, GsPlace, GsHolds, ThreadPlace, Placed, PastToken
    <2> QED BY <2>2, <2>3, <2>4 DEF IInv
  <1> QED BY <1>1, <1>2

\* Session threads that call close on their own session.
LEMMA CloseSelfStep ==
  ASSUME IInv, NEW n \in Sid,
         TokenRejected(n) \/ LoginRejected(n) \/ Ping(n) \/ Exit(n)
  PROVE  IInv'
  <1>t. TypeOK
    BY DEF IInv
  <1>1. /\ pc[n] \in {"tokenReq", "loginReq", "ping", "exit"}
        /\ UNCHANGED <<gsVars, obj, kobj, loc, stored, authed, foreign>>
        /\ ub' \in BOOLEAN /\ run' \in {"up", "crashed", "exited"} /\ (ub => ub')
    BY <1>t, SessionsAssumption DEF TokenRejected, LoginRejected, Ping, Exit, ThreadAt,
       Follow, TypeOK
  <1>2. \/ pc' = [pc EXCEPT ![n] = "top"] /\ call' = call
        \/ \E r \in {"fail", "done"} :
             /\ pc' = [pc EXCEPT ![n] = "closeTest"]
             /\ call' = [call EXCEPT ![n] = [obj |-> loc[n].obj, sid |-> n, ret |-> r]]
    BY DEF TokenRejected, LoginRejected, Ping, Exit, CallCloseSelf, Goto
  <1>3. TypeOK'
    <2>1. pc' \in [Actor -> Labels]
      BY <1>t, <1>2 DEF TypeOK, Labels, ThreadLabels, CloseLabels
    <2>2. call' \in [Actor -> Call]
      BY <1>t, <1>2 DEF TypeOK, Call, Local, Labels, ThreadLabels
    <2> QED BY <1>t, <1>1, <2>1, <2>2 DEF TypeOK, gsVars
  <1>4. SlotsOwnSessions' /\ LoginNeedsToken'
    <2>1. SameGap
      BY <1>t, <1>1, <1>2, GapStays, SessionsAssumption DEF gsVars, Actor
    <2> QED BY <1>t, <1>1, <2>1, ObjSame, LowersKeeps DEF gsVars
  <1>5. GsPlace'
    BY <1>t, <1>1, <1>2, SessionsAssumption DEF IInv, TypeOK, GsPlace, GsHolds, gsVars, Actor
  <1>6. ThreadPlace'
    BY <1>t, <1>1, <1>2 DEF IInv, TypeOK, ThreadPlace, Placed, PastToken, ThreadLabels,
       TokenLabels, CloseLabels, Actor
  <1> QED BY <1>3, <1>4, <1>5, <1>6 DEF IInv

\* The two ways handleGetPlayerTokenReq accepts a token.
LEMMA TokenAcceptedStep ==
  ASSUME IInv, NEW n \in Sid, TokenNewPlayer(n) \/ TokenKnownPlayer(n)
  PROVE  IInv'
  <1>t. TypeOK
    BY DEF IInv
  <1>0. CASE FollowNull
    BY <1>0, FollowNullStep
  <1> SUFFICES ASSUME ~FollowNull PROVE IInv'
    BY <1>0
  <1>1. /\ pc[n] = "tokenReq" /\ authed' = authed \cup {n}
        /\ UNCHANGED <<gsVars, obj, kobj, call, foreign>> /\ stored' \subseteq Uid
        /\ \E u \in Uid : loc' = [loc EXCEPT ![n].uid = u]
    BY <1>t DEF TokenNewPlayer, TokenKnownPlayer, ThreadAt, TypeOK
  <1>2. ub' \in BOOLEAN /\ run' \in {"up", "crashed", "exited"} /\ (ub => ub')
    BY <1>t, SessionsAssumption DEF TokenNewPlayer, TokenKnownPlayer, Follow, TypeOK
  <1>3. \E l \in {"kick", "attach"} : pc' = [pc EXCEPT ![n] = l]
    BY DEF TokenNewPlayer, TokenKnownPlayer, Goto
  <1>4. TypeOK'
    <2>1. pc' \in [Actor -> Labels]
      BY <1>t, <1>3 DEF TypeOK, Labels, ThreadLabels
    <2>2. loc' \in [Sid -> Local]
      BY <1>t, <1>1, SMTT(60) DEF TypeOK, Local
    <2> QED BY <1>t, <1>1, <1>2, <2>1, <2>2 DEF TypeOK, gsVars
  <1>5. SlotsOwnSessions' /\ LoginNeedsToken'
    <2>1. SameGap
      BY <1>t, <1>1, <1>3, GapStays, SessionsAssumption DEF gsVars, Actor
    <2> QED BY <1>t, <1>1, <1>2, <2>1, ObjSame, LowersKeeps DEF gsVars
  <1>6. GsPlace'
    BY <1>t, <1>1, <1>3, SessionsAssumption DEF IInv, TypeOK, GsPlace, GsHolds, gsVars, Actor
  <1>7. ThreadPlace'
    <2>1. \A m \in Sid : loc'[m].obj = loc[m].obj
      BY <1>t, <1>1 DEF TypeOK, Local
    <2> QED BY <1>t, <1>1, <1>2, <1>3, <2>1 DEF IInv, TypeOK, ThreadPlace, Placed,
            PastToken, ThreadLabels, CloseLabels, Actor
  <1> QED BY <1>4, <1>5, <1>6, <1>7 DEF IInv

\* The session that has the player is looked up, and closed if there is one.
LEMMA KickStep ==
  ASSUME IInv, NEW n \in Sid, Kick(n)
  PROVE  IInv'
  <1>t. TypeOK
    BY DEF IInv
  <1>0. CASE FollowNull
    BY <1>0, FollowNullStep
  <1> SUFFICES ASSUME ~FollowNull PROVE IInv'
    BY <1>0
  <1>1. /\ pc[n] = "kick" /\ UNCHANGED <<gsVars, obj, kobj, loc, stored, authed>>
        /\ foreign' \in BOOLEAN
    BY <1>t DEF Kick, ThreadAt, TypeOK
  <1>2. ub' \in BOOLEAN /\ run' \in {"up", "crashed", "exited"} /\ (ub => ub')
    BY <1>t, SessionsAssumption DEF Kick, Follow, TypeOK
  <1>3. \/ pc' = [pc EXCEPT ![n] = "attach"] /\ call' = call
        \/ \E a \in Addr :
             /\ pc' = [pc EXCEPT ![n] = "closeTest"]
             /\ call' = [call EXCEPT ![n] = [obj |-> a, sid |-> obj[a].sid, ret |-> "attach"]]
    BY <1>t, ZenonT(60) DEF Kick, SlotOfUid, LooksAt, HasPlayer, CallClose, Goto, TypeOK
  <1>4. TypeOK'
    <2>1. pc' \in [Actor -> Labels]
      BY <1>t, <1>3 DEF TypeOK, Labels, ThreadLabels, CloseLabels
    <2>2. ASSUME NEW a \in Addr
          PROVE  [obj |-> a, sid |-> obj[a].sid, ret |-> "attach"] \in Call
      BY <1>t DEF TypeOK, SessionObj, Call, Labels, ThreadLabels
    <2>3. call' \in [Actor -> Call]
      BY <1>t, <1>3, <2>2 DEF TypeOK
    <2> QED BY <1>t, <1>1, <1>2, <2>1, <2>3 DEF TypeOK, gsVars
  <1>5. SlotsOwnSessions' /\ LoginNeedsToken'
    <2>1. SameGap
      BY <1>t, <1>1, <1>3, GapStays, SessionsAssumption DEF gsVars, Actor
    <2> QED BY <1>t, <1>1, <1>2, <2>1, ObjSame, LowersKeeps DEF gsVars
  <1>6. GsPlace'
    BY <1>t, <1>1, <1>3, SessionsAssumption DEF IInv, TypeOK, GsPlace, GsHolds, gsVars, Actor
  <1>7. ThreadPlace'
    BY <1>t, <1>1, <1>2, <1>3 DEF IInv, TypeOK, ThreadPlace, Placed, PastToken,
       TokenLabels, ThreadLabels, CloseLabels, Actor
  <1> QED BY <1>4, <1>5, <1>6, <1>7 DEF IInv

\* setState(LOGIN_WAIT) with a player, and setState(ACTIVE): the writes that
\* raise a session.  They reach the thread's own session or set `ub'.
LEMMA RaiseStep ==
  ASSUME IInv, NEW n \in Sid, Attach(n) \/ Activate(n)
  PROVE  IInv'
  <1>t. TypeOK
    BY DEF IInv
  <1>1. /\ pc[n] \in TokenLabels
        /\ \E l \in {"reply", "update"} : pc' = [pc EXCEPT ![n] = l]
        /\ UNCHANGED <<gsVars, kobj, call, stored, authed, foreign>>
        /\ loc' = loc \/ loc' = [loc EXCEPT ![n].uid = NULL]
    BY DEF Attach, Activate, ThreadAt, Goto, TokenLabels
  <1>2. /\ ub' \in BOOLEAN /\ run' \in {"up", "crashed", "exited"} /\ (ub => ub')
        /\ ~ub' => SessionOk(n)
    BY <1>t, SessionsAssumption DEF Attach, Activate, Follow, SessionOk, TypeOK
  <1>3. /\ obj' \in [Addr -> SessionObj]
        /\ \A a \in Addr : /\ obj'[a].live = obj[a].live /\ obj'[a].sid = obj[a].sid
                           /\ a # loc[n].obj => obj'[a] = obj[a]
    <2>1. CASE Attach(n)
      <3> DEFINE r == [obj[loc[n].obj] EXCEPT !.player = loc[n].uid, !.plive = TRUE,
                                              !.state = "LOGIN_WAIT"]
      <3>1. loc[n].obj \in Addr /\ obj[loc[n].obj] \in SessionObj
        BY <1>t, <1>1 DEF IInv, ThreadPlace, Placed, TokenLabels, TypeOK
      <3>2. "LOGIN_WAIT" \in States /\ loc[n].uid \in Uid \cup {NULL}
        BY <1>t DEF States, TypeOK, Local
      <3>3. r \in SessionObj /\ r.live = obj[loc[n].obj].live /\ r.sid = obj[loc[n].obj].sid
        BY <3>1, <3>2 DEF SessionObj
      <3>4. obj' = [obj EXCEPT ![loc[n].obj] = r]
        BY <2>1 DEF Attach
      <3> HIDE DEF r
      <3> QED BY <1>t, <3>1, <3>3, <3>4 DEF TypeOK
    <2>2. CASE Activate(n)
      <3>1. ASSUME NEW f \in [Addr -> SessionObj], NEW b, NEW st \in States
            PROVE  [f EXCEPT ![b].state = st] \in [Addr -> SessionObj]
        BY ZenonT(60) DEF SessionObj
      <3>2. obj' = [obj EXCEPT ![loc[n].obj].state = "ACTIVE"] /\ "ACTIVE" \in States
        BY <2>2 DEF Activate, States
      <3>3. obj' \in [Addr -> SessionObj]
        BY <1>t, <3>1, <3>2 DEF TypeOK
      <3> QED BY <1>t, <3>2, <3>3 DEF TypeOK, SessionObj
    <2> QED BY <2>1, <2>2
  <1>4. TypeOK'
    <2>1. pc' \in [Actor -> Labels]
      BY <1>t, <1>1 DEF TypeOK, Labels, ThreadLabels
    <2>2. loc' \in [Sid -> Local]
      BY <1>t, <1>1, SMTT(60) DEF TypeOK, Local
    <2> QED BY <1>t, <1>1, <1>2, <1>3, <2>1, <2>2 DEF TypeOK, gsVars
  <1>5. SlotsOwnSessions'
    <2>1. SameGap
      BY <1>t, <1>1, GapStays, SessionsAssumption DEF gsVars, Actor
    <2> QED BY <1>t, <1>1, <1>3, <2>1 DEF IInv, TypeOK, SlotsOwnSessions, gsVars, SameGap
  <1>6. LoginNeedsToken'
    <2>1. ~ub' => n \in authed /\ obj[loc[n].obj].sid = n
      BY <1>1, <1>2 DEF IInv, ThreadPlace, Placed, PastToken, SessionOk
    <2> QED BY <1>1, <1>2, <1>3, <2>1 DEF IInv, LoginNeedsToken
  <1>7. GsPlace'
    BY <1>t, <1>1, SessionsAssumption DEF IInv, TypeOK, GsPlace, GsHolds, gsVars, Actor
  <1>8. ThreadPlace'
    <2>1. \A m \in Sid : loc'[m].obj = loc[m].obj
      BY <1>t, <1>1 DEF TypeOK, Local
    <2> QED BY <1>t, <1>1, <1>2, <2>1 DEF IInv, TypeOK, ThreadPlace, Placed, PastToken,
            TokenLabels, ThreadLabels, CloseLabels, Actor
  <1> QED BY <1>4, <1>5, <1>6, <1>7, <1>8 DEF IInv

-----------------------------------------------------------------------------
\* Session::close, run by any thread.
LEMMA CloseStepKeeps ==
  ASSUME IInv, NEW x \in Actor, CloseStep(x)
  PROVE  IInv'
  <1>t. TypeOK
    BY DEF IInv
  <1>0. CASE FollowNull
    BY <1>0, FollowNullStep
  <1> SUFFICES ASSUME ~FollowNull PROVE IInv'
    BY <1>0
  <1> USE DEF CloseTest, CloseKcp, CloseNull, ClosePlayer, SaveCrashes,
              ClosePlayerNull, CloseState
  <1>1. /\ pc[x] \in CloseLabels
        /\ UNCHANGED <<gsVars, loc, stored, authed, foreign>>
    BY DEF CloseStep, CloseLabels
  <1>2. ub' \in BOOLEAN /\ run' \in {"up", "crashed", "exited"} /\ (ub => ub')
    BY <1>t, SessionsAssumption DEF CloseStep, Follow, TypeOK
  <1>3. \/ \E l \in CloseLabels : pc' = [pc EXCEPT ![x] = l] /\ call' = call
        \/ pc' = [pc EXCEPT ![x] = call[x].ret] /\ call' = [call EXCEPT ![x] = NoCall]
    BY DEF CloseStep, Goto, CloseLabels
  <1>4. Lowers
    <2>1. obj' = obj \/ \E a : \/ obj' = [obj EXCEPT ![a].kcp = NULL]
                               \/ obj' = [obj EXCEPT ![a].player = NULL]
                               \/ obj' = [obj EXCEPT ![a].plive = FALSE]
                               \/ obj' = [obj EXCEPT ![a].state = "NOT_CONNECTED"]
      BY Zenon DEF CloseStep
    <2>2. obj \in [Addr -> SessionObj]
      BY <1>t DEF TypeOK
    <2>3. ASSUME NEW a
          PROVE  /\ LowersTo(obj, [obj EXCEPT ![a].kcp = NULL])
                 /\ LowersTo(obj, [obj EXCEPT ![a].player = NULL])
                 /\ LowersTo(obj, [obj EXCEPT ![a].plive = FALSE])
                 /\ LowersTo(obj, [obj EXCEPT ![a].state = "NOT_CONNECTED"])
      BY <2>2, WriteLowers
    <2> QED BY <1>t, <2>1, <2>3, ObjSame, Zenon DEF Lowers
  <1>5. kobj' \in [KAddr -> KcpObj]
    <2>1. kobj' = kobj \/ \E k : kobj' = [kobj EXCEPT ![k].live = FALSE]
      BY DEF CloseStep
    <2>2. ASSUME NEW k PROVE [kobj EXCEPT ![k].live = FALSE] \in [KAddr -> KcpObj]
      BY <1>t, ZenonT(60) DEF TypeOK, KcpObj
    <2> QED BY <1>t, <2>1, <2>2 DEF TypeOK
  <1>6. TypeOK'
    <2>1. pc' \in [Actor -> Labels]
      BY <1>t, <1>3 DEF TypeOK, Labels, Call
    <2>2. call' \in [Actor -> Call]
      BY <1>t, <1>3 DEF TypeOK, Call, NoCall, Labels, ThreadLabels
    <2> QED BY <1>t, <1>1, <1>2, <1>4, <1>5, <2>1, <2>2 DEF TypeOK, Lowers, LowersTo, gsVars
  <1>7. SlotsOwnSessions' /\ LoginNeedsToken'
    <2>1. \E l : pc' = [pc EXCEPT ![x] = l] /\ (x = Gs => l \notin {"clear", "stopClear"})
      BY <1>1, <1>3 DEF IInv, GsPlace, CloseLabels
    <2>2. SameGap
      <3>1. PICK l : pc' = [pc EXCEPT ![x] = l] /\ (x = Gs => l \notin {"clear", "stopClear"})
        BY <2>1
      <3>2. pc[x] \notin {"clear", "stopClear"}
        BY <1>1 DEF CloseLabels
      <3>3. gslot' = gslot
        BY <1>1 DEF gsVars
      <3> QED BY <1>t, <3>1, <3>2, <3>3 DEF SameGap, SlotDangles, TypeOK
    <2> QED BY <1>1, <1>2, <1>4, <2>2, LowersKeeps DEF gsVars
  <1>8. GsPlace'
    BY <1>t, <1>1, <1>3 DEF IInv, TypeOK, GsPlace, GsHolds, GsLabels, CloseLabels,
       NoCall, gsVars, Actor
  <1>9. ThreadPlace'
    BY <1>t, <1>1, <1>2, <1>3 DEF IInv, TypeOK, ThreadPlace, Placed, PastToken,
       ThreadLabels, TokenLabels, CloseLabels, NoCall, Actor
  <1> QED BY <1>6, <1>7, <1>8, <1>9 DEF IInv

\* Every step of SessionMain keeps the invariant.
LEMMA ThreadStepKeeps ==
  ASSUME IInv, NEW n \in Sid, ThreadStep(n)
  PROVE  IInv'
  BY PlainStep, SendStep, TimerStep, CloseSelfStep, TokenAcceptedStep, KickStep, RaiseStep,
     CloseStepKeeps DEF ThreadStep, Token, Login, Actor

-----------------------------------------------------------------------------
(***************************************************************************)
(* The gameserver thread.                                                  *)
(***************************************************************************)
\* Steps that change neither a slot nor a session object.
LEMMA GsPlainStep ==
  ASSUME IInv,
         \/ \E c \in Client : RecvHandshake(c) \/ RecvBogus(c)
         \/ \E c \in Client, s \in Sid : RecvData(c, s)
         \/ Push \/ Accept \/ LeaveLoop \/ Signal \/ ProcessExit
  PROVE  IInv'
  <1>t. TypeOK
    BY DEF IInv
  <1> USE DEF RecvHandshake, RecvBogus, RecvData, Push, Accept, LeaveLoop, Signal,
              ProcessExit, Arrives, GsAt
  <1>1. /\ UNCHANGED <<slot, obj, loc, call, stored, peer, authed, foreign>>
        /\ stopping' \in BOOLEAN /\ client' \in Client \cup {NULL}
    BY <1>t DEF TypeOK, gsVars
  <1>2. ub' \in BOOLEAN /\ run' \in {"up", "crashed", "exited"} /\ (ub => ub')
    BY <1>t, SessionsAssumption DEF Follow, TypeOK
  <1>3. gslot' \in Slot /\ gkcp' \in KAddr \cup {NULL} /\ kobj' \in [KAddr -> KcpObj]
    <2>1. gslot' \in Slot
      BY <1>t, SMTT(60) DEF TypeOK, gsVars, FirstVacant
    <2>2. gkcp' \in KAddr \cup {NULL}
      BY <1>t DEF TypeOK, gsVars, DataFor, FirstConnected, Connected, SlotKcp, SessionObj
    <2>3. kobj' \in [KAddr -> KcpObj]
      BY <1>t, SessionsAssumption DEF TypeOK, KcpObj
    <2> QED BY <2>1, <2>2, <2>3
  <1>4. \/ pc' = pc /\ gslot' = gslot
        \/ gslot' = gslot /\ \E l \in {"idle", "push", "accept", "stop"} : pc' = [pc EXCEPT ![Gs] = l]
        \/ slot[gslot'] = NULL /\ pc' = [pc EXCEPT ![Gs] = "create"]
        \/ slot[gslot'] # NULL /\ pc' = [pc EXCEPT ![Gs] = "delete"]
    BY DEF Goto, gsVars
  <1>5. TypeOK'
    <2>1. pc' \in [Actor -> Labels]
      BY <1>t, <1>4 DEF TypeOK, Labels, GsLabels
    <2> QED BY <1>t, <1>1, <1>2, <1>3, <2>1 DEF TypeOK
  <1>6. SlotsOwnSessions' /\ LoginNeedsToken'
    <2>1. CASE pc' = pc /\ gslot' = gslot
      <3>1. SameGap
        BY <2>1 DEF SameGap, SlotDangles
      <3> QED BY <1>t, <1>1, <1>2, <3>1, ObjSame, LowersKeeps
    <2>2. CASE ~(pc' = pc /\ gslot' = gslot)
      <3>1. pc[Gs] \in {"idle", "push", "accept"}
        BY <2>2 DEF gsVars
      <3>2. SameGap
        BY <1>t, <1>4, <2>2, <3>1, GapStays DEF Actor
      <3> QED BY <1>t, <1>1, <1>2, <3>2, ObjSame, LowersKeeps
    <2> QED BY <2>1, <2>2
  <1>7. GsPlace'
    BY <1>t, <1>1, <1>4 DEF IInv, TypeOK, GsPlace, GsHolds, GsLabels, CloseLabels, Actor
  <1>8. ThreadPlace'
    <2>1. \A m \in Sid : pc'[m] = pc[m]
      BY <1>t, <1>4, SessionsAssumption DEF TypeOK, Actor
    <2> QED BY <1>1, <1>2, <2>1 DEF IInv, ThreadPlace, Placed, PastToken
  <1> QED BY <1>5, <1>6, <1>7, <1>8 DEF IInv

\* Calls of Session::close: a shutdown request, the destructor, stop.
LEMMA GsCallStep ==
  ASSUME IInv,
         \/ \E c \in Client, s \in Sid : RecvShutdown(c, s)
         \/ Delete("delete", "free") \/ Delete("stopDelete", "stopFree") \/ Stop
  PROVE  IInv'
  <1>t. TypeOK
    BY DEF IInv
  <1>g. GsPlace
    BY DEF IInv
  <1> USE DEF RecvShutdown, Delete, Stop, Arrives, GsAt
  <1>1. /\ UNCHANGED <<slot, obj, kobj, loc, stored, peer, authed, gkcp, stopping>>
        /\ client' \in Client \cup {NULL} /\ gslot' \in Slot /\ foreign' \in BOOLEAN
    BY <1>t DEF TypeOK, gsVars, FirstUsed
  <1>2. ub' \in BOOLEAN /\ run' \in {"up", "crashed", "exited"} /\ (ub => ub')
    BY <1>t, SessionsAssumption DEF Follow, TypeOK
  <1>3. \/ pc' = pc /\ call' = call /\ gslot' = gslot
        \/ pc' = [pc EXCEPT ![Gs] = "done"] /\ call' = call
        \/ \E a \in Addr, r \in {"idle", "free", "stopDelete", "stopFree"} :
             /\ pc' = [pc EXCEPT ![Gs] = "closeTest"]
             /\ call' = [call EXCEPT ![Gs] = [obj |-> a, sid |-> obj[a].sid, ret |-> r]]
             /\ r # "idle" => slot[gslot'] # NULL
    <2>1. ASSUME NEW c \in Client, NEW s \in Sid, RecvShutdown(c, s)
          PROVE  \/ pc' = pc /\ call' = call /\ gslot' = gslot
                 \/ \E i \in Slot : slot[i] \in Addr /\ CallClose(Gs, slot[i], "idle")
      BY <1>t, <2>1 DEF TypeOK, ShutdownFor, FirstConnected, Connected
    <2>2. CASE Delete("delete", "free")
      BY <1>t, <1>g, <2>2 DEF TypeOK, CallClose, Goto, GsPlace, GsHolds, gsVars
    <2>3. CASE Delete("stopDelete", "stopFree")
      BY <1>t, <1>g, <2>3 DEF TypeOK, CallClose, Goto, GsPlace, GsHolds, gsVars
    <2>4. CASE Stop
      BY <1>t, <2>4 DEF TypeOK, CallClose, Goto, FirstUsed
    <2> QED BY <2>1, <2>2, <2>3, <2>4 DEF CallClose, Goto
  <1>4. TypeOK'
    <2>1. pc' \in [Actor -> Labels]
      BY <1>t, <1>3 DEF TypeOK, Labels, ThreadLabels, CloseLabels
    <2>2. ASSUME NEW a \in Addr, NEW r \in {"idle", "free", "stopDelete", "stopFree"}
          PROVE  [obj |-> a, sid |-> obj[a].sid, ret |-> r] \in Call
      BY <1>t DEF TypeOK, SessionObj, Call, Labels, GsLabels
    <2>3. call' \in [Actor -> Call]
      <3>1. call' = call \/ \E e \in Call : call' = [call EXCEPT ![Gs] = e]
        BY <1>3, <2>2
      <3> QED BY <1>t, <3>1 DEF TypeOK
    <2> QED BY <1>t, <1>1, <1>2, <2>1, <2>3 DEF TypeOK
  <1>5. SlotsOwnSessions' /\ LoginNeedsToken'
    <2>1. pc[Gs] \in {"idle", "delete", "stopDelete", "stop"}
      OBVIOUS
    <2>2. CASE pc' = pc /\ gslot' = gslot
      BY <1>t, <1>1, <1>2, <2>2, ObjSame, LowersKeeps DEF SameGap, SlotDangles
    <2>3. CASE ~(pc' = pc /\ gslot' = gslot)
      <3>1. SameGap
        BY <1>t, <1>3, <2>1, <2>3, GapStays DEF Actor
      <3> QED BY <1>t, <1>1, <1>2, <3>1, ObjSame, LowersKeeps
    <2> QED BY <2>2, <2>3
  <1>6. GsPlace'
    BY <1>t, <1>g, <1>1, <1>3 DEF TypeOK, GsPlace, GsHolds, GsLabels, CloseLabels, Actor
  <1>7. ThreadPlace'
    <2>1. \A m \in Sid : pc'[m] = pc[m] /\ call'[m] = call[m]
      BY <1>t, <1>3, SessionsAssumption DEF TypeOK, Actor
    <2> QED BY <1>1, <1>2, <2>1 DEF IInv, ThreadPlace, Placed, PastToken
  <1> QED BY <1>4, <1>5, <1>6, <1>7 DEF IInv

\* The memory of a deleted session is freed; its slot now dangles.
LEMMA FreeStep ==
  ASSUME IInv, Free("free", "clear") \/ Free("stopFree", "stopClear")
  PROVE  IInv'
  <1>t. TypeOK
    BY DEF IInv
  <1>1. /\ slot[gslot] \in Addr /\ pc[Gs] \in {"free", "stopFree"}
        /\ obj' = [obj EXCEPT ![slot[gslot]].live = FALSE]
        /\ \E l \in {"clear", "stopClear"} : pc' = [pc EXCEPT ![Gs] = l]
        /\ UNCHANGED <<gsVars, kobj, loc, call, stored, run, ub, authed, foreign>>
    BY <1>t DEF IInv, GsPlace, GsHolds, Free, GsAt, Goto, TypeOK
  <1>2. obj' \in [Addr -> SessionObj]
    <2>1. ASSUME NEW f \in [Addr -> SessionObj], NEW a
          PROVE  [f EXCEPT ![a].live = FALSE] \in [Addr -> SessionObj]
      BY ZenonT(60) DEF SessionObj
    <2> QED BY <1>t, <1>1, <2>1 DEF TypeOK
  <1>3. \A a \in Addr : /\ a # slot[gslot] => obj'[a] = obj[a]
                        /\ a = slot[gslot] => ~obj'[a].live
    BY <1>t, <1>1 DEF TypeOK, SessionObj
  <1>4. TypeOK'
    BY <1>t, <1>1, <1>2, ZenonT(60) DEF TypeOK, Labels, GsLabels, gsVars
  <1>5. SlotsOwnSessions'
    <2>1. slot' = slot /\ \A i \in Slot : ~SlotDangles(i) /\ (SlotDangles(i)' <=> i = gslot)
      BY <1>t, <1>1 DEF TypeOK, SlotDangles, Actor, gsVars
    <2>2. \A i \in Slot \ {gslot} : slot[i] # slot[gslot]
      BY <1>t, <1>1, SessionsAssumption DEF IInv, SlotsOwnSessions, TypeOK
    <2>3. \A i \in Slot : slot'[i] # NULL => (obj'[slot'[i]].live <=> ~SlotDangles(i)')
      BY <1>t, <1>3, <2>1, <2>2 DEF IInv, SlotsOwnSessions, TypeOK
    <2> QED BY <1>t, <1>3, <2>1, <2>3 DEF IInv, SlotsOwnSessions, TypeOK
  <1>6. LoginNeedsToken'
    BY <1>1, <1>3 DEF IInv, LoginNeedsToken
  <1>7. GsPlace'
    BY <1>t, <1>1 DEF IInv, TypeOK, GsPlace, GsHolds, GsLabels, CloseLabels, Actor
  <1>8. ThreadPlace'
    <2>1. \A m \in Sid : pc'[m] = pc[m]
      BY <1>t, <1>1, SessionsAssumption DEF TypeOK, Actor
    <2> QED BY <1>1, <2>1 DEF IInv, ThreadPlace, Placed, PastToken
  <1> QED BY <1>4, <1>5, <1>6, <1>7, <1>8 DEF IInv

\* The slot of the freed session is cleared.
LEMMA ClearStep ==
  ASSUME IInv, ClearSlot("clear", "create") \/ ClearSlot("stopClear", "stop")
  PROVE  IInv'
  <1>t. TypeOK
    BY DEF IInv
  <1>1. /\ pc[Gs] \in {"clear", "stopClear"}
        /\ slot' = [slot EXCEPT ![gslot] = NULL]
        /\ \E l \in {"create", "stop"} : pc' = [pc EXCEPT ![Gs] = l]
        /\ UNCHANGED <<gslot, gkcp, client, stopping, peer, obj, kobj, loc, call, stored,
                       run, ub, authed, foreign>>
    BY DEF ClearSlot, GsAt, Goto
  <1>2. TypeOK'
    BY <1>t, <1>1, ZenonT(60) DEF TypeOK, Labels, GsLabels
  <1>3. SlotsOwnSessions'
    <2>1. slot'[gslot] = NULL /\ \A i \in Slot \ {gslot} : slot'[i] = slot[i]
      BY <1>t, <1>1 DEF TypeOK
    <2>2. \A i \in Slot : ~SlotDangles(i)' /\ (SlotDangles(i) <=> i = gslot)
      BY <1>t, <1>1 DEF TypeOK, SlotDangles, Actor
    <2>3. \A a \in Addr : obj[a].live => slot[gslot] # a
      BY <1>t, <2>2, SessionsAssumption DEF IInv, SlotsOwnSessions, TypeOK
    <2> QED BY <1>1, <2>1, <2>2, <2>3 DEF IInv, SlotsOwnSessions
  <1>4. LoginNeedsToken'
    BY <1>1 DEF IInv, LoginNeedsToken
  <1>5. GsPlace'
    BY <1>t, <1>1 DEF IInv, TypeOK, GsPlace, GsHolds, GsLabels, CloseLabels, Actor
  <1>6. ThreadPlace'
    <2>1. \A m \in Sid : pc'[m] = pc[m]
      BY <1>t, <1>1, SessionsAssumption DEF TypeOK, Actor
    <2> QED BY <1>1, <2>1 DEF IInv, ThreadPlace, Placed, PastToken
  <1> QED BY <1>2, <1>3, <1>4, <1>5, <1>6 DEF IInv

\* The gameserver thread creates a session into an empty slot.
LEMMA CreateStep ==
  ASSUME IInv, Create PROVE IInv'
  <1> USE DEF gsVars
  <1>t. TypeOK
    BY DEF IInv
  <1>0. PICK n \in NextSid, a \in Addr, k \in KAddr :
          /\ ~obj[a].live /\ ~kobj[k].live
          /\ obj' = [obj EXCEPT ![a] = [live |-> TRUE, sid |-> n, state |-> "TOKEN_WAIT",
                                        kcp |-> k, player |-> NULL, plive |-> FALSE,
                                        late |-> FALSE]]
          /\ kobj' = [kobj EXCEPT ![k] = [live |-> TRUE, sid |-> n, queue |-> 0]]
          /\ slot' = [slot EXCEPT ![gslot] = a]
          /\ loc' = [loc EXCEPT ![n] = [obj |-> a, kcp |-> k, uid |-> NULL]]
          /\ peer' = [peer EXCEPT ![n] = client]
          /\ pc' = [pc EXCEPT ![n] = "top", ![Gs] = "idle"]
    BY DEF Create
  <1>n. n \in Sid /\ n # Gs /\ pc[n] = "none"
    BY SessionsAssumption DEF NextSid
  <1>s. slot[gslot] = NULL /\ pc[Gs] = "create"
    BY DEF IInv, GsPlace, Create, GsAt
  <1>o. /\ obj' \in [Addr -> SessionObj]
        /\ obj'[a].live /\ obj'[a].state = "TOKEN_WAIT" /\ obj'[a].player = NULL
        /\ \A b \in Addr \ {a} : obj'[b] = obj[b]
    <2>1. [live |-> TRUE, sid |-> n, state |-> "TOKEN_WAIT", kcp |-> k,
           player |-> NULL, plive |-> FALSE, late |-> FALSE] \in SessionObj
      BY <1>n DEF SessionObj, States
    <2> QED BY <1>0, <1>t, <2>1 DEF TypeOK
  <1>1. TypeOK'
    <2>1. kobj' \in [KAddr -> KcpObj]
      BY <1>0, <1>n, <1>t, SessionsAssumption DEF TypeOK, KcpObj
    <2>2. pc' \in [Actor -> Labels]
      BY <1>0, <1>t DEF TypeOK, Labels, ThreadLabels, GsLabels
    <2>3. loc' \in [Sid -> Local]
      BY <1>0, <1>n, <1>t DEF TypeOK, Local
    <2>4. slot' \in [Slot -> Addr \cup {NULL}] /\ peer' \in [Sid -> Client \cup {NULL}]
      BY <1>0, <1>t DEF TypeOK
    <2> QED BY <1>o, <1>t, <2>1, <2>2, <2>3, <2>4 DEF Create, TypeOK
  <1>2. SlotsOwnSessions'
    <2>1. slot'[gslot] = a /\ \A i \in Slot \ {gslot} : slot'[i] = slot[i]
      BY <1>0, <1>t DEF TypeOK
    <2>g. \A i \in Slot : ~SlotDangles(i) /\ ~SlotDangles(i)'
      BY <1>0, <1>n, <1>s, <1>t DEF TypeOK, SlotDangles, Actor
    <2>2. \A i \in Slot : slot[i] # a
      BY <1>0, <2>g, SessionsAssumption DEF IInv, SlotsOwnSessions
    <2>3. \A i \in Slot : slot'[i] # NULL => (obj'[slot'[i]].live <=> ~SlotDangles(i)')
      BY <2>1, <2>2, <2>g, <1>o, <1>t DEF IInv, SlotsOwnSessions, TypeOK
    <2>4. \A i, j \in Slot : slot'[i] # NULL /\ slot'[i] = slot'[j] => i = j
      BY <2>1, <2>2 DEF IInv, SlotsOwnSessions
    <2>5. \A b \in Addr : obj'[b].live => \E i \in Slot : slot'[i] = b
      <3> SUFFICES ASSUME NEW b \in Addr, obj'[b].live
                   PROVE  \E i \in Slot : slot'[i] = b
        OBVIOUS
      <3>1. CASE b = a
        BY <3>1, <2>1, <1>t DEF TypeOK
      <3>2. CASE b # a
        <4>1. PICK i \in Slot : slot[i] = b
          BY <3>2, <1>o DEF IInv, SlotsOwnSessions
        <4>2. i # gslot
          BY <4>1, <1>s, SessionsAssumption
        <4> QED BY <4>1, <4>2, <2>1
      <3> QED BY <3>1, <3>2
    <2> QED BY <2>3, <2>4, <2>5 DEF SlotsOwnSessions
  <1>3. LoginNeedsToken'
    <2>1. ub' = ub /\ authed' = authed
      BY DEF Create
    <2> QED BY <1>o, <2>1 DEF IInv, LoginNeedsToken
  <1>4. GsPlace'
    <2>1. pc'[Gs] = "idle"
      BY <1>0, <1>n, <1>t DEF TypeOK, Actor
    <2> QED BY <2>1 DEF GsPlace, GsHolds, GsLabels, CloseLabels
  <1>5. ThreadPlace'
    <2>1. /\ pc'[n] = "top" /\ loc'[n].obj = a
          /\ \A m \in Sid \ {n} : pc'[m] = pc[m] /\ loc'[m] = loc[m]
          /\ call' = call /\ ub' = ub /\ authed' = authed
      BY <1>0, <1>n, <1>t, SessionsAssumption DEF TypeOK, Actor, Create
    <2> QED BY <2>1 DEF IInv, ThreadPlace, Placed, PastToken, TokenLabels,
            ThreadLabels, CloseLabels
  <1> QED BY <1>1, <1>2, <1>3, <1>4, <1>5 DEF IInv

-----------------------------------------------------------------------------
\* Steps that change nothing keep the invariant.
LEMMA StutterStep ==
  ASSUME IInv, UNCHANGED vars PROVE IInv'
  <1> USE DEF vars, gsVars
  <1>1. TypeOK' /\ SlotsOwnSessions' /\ LoginNeedsToken'
    BY DEF IInv, TypeOK, SlotsOwnSessions, SlotDangles, LoginNeedsToken
  <1>2. GsPlace' /\ ThreadPlace'
    BY DEF IInv, GsPlace, GsHolds, ThreadPlace, Placed, PastToken
  <1> QED BY <1>1, <1>2 DEF IInv

(***************************************************************************)
(* The inductive invariant holds in every reachable state, for any number  *)
(* of slots, clients, accepted sessions and any choice of AfterUb.         *)
(***************************************************************************)
THEOREM InductiveInvariant == Spec => []IInv
  <1>1. IInv /\ [Next]_vars => IInv'
    <2> SUFFICES ASSUME IInv, [Next]_vars PROVE IInv'
      OBVIOUS
    <2>1. CASE Receive
      BY <2>1, GsPlainStep, GsCallStep DEF Receive
    <2>2. CASE GsWork
      BY <2>2, GsPlainStep, GsCallStep, FreeStep, ClearStep, CreateStep, CloseStepKeeps
         DEF GsWork, Actor
    <2>3. CASE Signal \/ ProcessExit
      BY <2>3, GsPlainStep
    <2>4. ASSUME NEW n \in Sid, ThreadStep(n) PROVE IInv'
      BY <2>4, ThreadStepKeeps
    <2>5. ASSUME NEW a \in Addr, PingLapses(a) PROVE IInv'
      BY <2>5, TimerStep
    <2>6. CASE UNCHANGED vars
      BY <2>6, StutterStep
    <2> QED BY <2>1, <2>2, <2>3, <2>4, <2>5, <2>6 DEF Next
  <1> QED BY <1>1, InitIInv, PTL DEF Spec

(***************************************************************************)
(* Type correctness: in particular the gameserver thread never follows a   *)
(* null slot when it deletes a session in accept or in stop.               *)
(***************************************************************************)
THEOREM TypeCorrect == Spec => []TypeOK
  <1>1. IInv => TypeOK
    BY DEF IInv
  <1> QED BY <1>1, InductiveInvariant, PTL

(***************************************************************************)
(* sessionList and the allocated Session objects match, whatever undefined *)
(* behaviour the other threads run into: an entry leads to freed memory    *)
(* exactly while the gameserver thread is between the delete of the        *)
(* session and the assignment of NULL, and in no other slot.               *)
(***************************************************************************)
THEOREM SlotTableSound == Spec => []SlotsOwnSessions
  <1>1. IInv => SlotsOwnSessions
    BY DEF IInv
  <1> QED BY <1>1, InductiveInvariant, PTL

(***************************************************************************)
(* Until a dangling pointer has been followed, only a session whose own    *)
(* thread accepted a token gets past TOKEN_WAIT or has a player.           *)
(***************************************************************************)
THEOREM LoginSound == Spec => []LoginNeedsToken
  <1>1. IInv => LoginNeedsToken
    BY DEF IInv
  <1> QED BY <1>1, InductiveInvariant, PTL
=============================================================================
