-------------------------- MODULE OwnershipProofs ---------------------------
(***************************************************************************)
(* Who owns what in Sessions, for every number of slots, clients, sessions *)
(* and addresses: KcpSession objects are neither leaked nor shared until a *)
(* dangling pointer has been followed (KcpOwned), and session threads are  *)
(* safe as long as each session is closed by its own thread only           *)
(* (LoneThreadSafe, ClosedStaysClosed).                                    *)
(*                                                                         *)
(* Both rest on PtrInv, which holds whatever undefined behaviour happens:  *)
(* an allocated Session is the one its thread was started with, and a      *)
(* running Session::close was called for a session id that has been given  *)
(* out, so that a new session at a reused address is never taken for it.   *)
(***************************************************************************)
EXTENDS SessionsProofs

\* Where Session::close is once kcpSession is NULL.
PastKcp == {"closePlayer", "closePlayerNull", "closeState"}

\* An allocated Session is the one thread n = sid was started with, and its
\* member kcpSession is the pointer that thread cached, or NULL.
LiveOwned ==
  \A a \in Addr : obj[a].live =>
    /\ obj[a].sid \in Sid /\ pc[obj[a].sid] # "none"
    /\ loc[obj[a].sid].obj = a
    /\ obj[a].kcp \in {NULL, loc[obj[a].sid].kcp}

\* What the running close of thread x knows of the object it was called for.
CallSound(x) ==
  pc[x] \in CloseLabels =>
    /\ Target(x) \in Addr /\ call[x].sid \in Sid /\ pc[call[x].sid] # "none"
    /\ TargetOk(x) /\ pc[x] = "closeNull" =>
         obj[Target(x)].kcp = NULL \/ ~MemberOk(Target(x))
    /\ TargetOk(x) /\ pc[x] \in PastKcp => obj[Target(x)].kcp = NULL

\* A close that is part of a delete works on the slot being deleted.
GsCall == pc[Gs] \in CloseLabels /\ call[Gs].ret # "idle" => Target(Gs) = slot[gslot]

\* A slot that is not empty leads to an object made for an id already given
\* out, freed or not: a close through it is a close for that id.
SlotsGiven ==
  \A i \in Slot : slot[i] # NULL =>
    obj[slot[i]].sid \in Sid /\ pc[obj[slot[i]].sid] # "none"

PtrInv == LiveOwned /\ SlotsGiven /\ (\A x \in Actor : CallSound(x)) /\ GsCall

\* When a Session is freed its KcpSession is gone.
FreeInv == ~ub /\ pc[Gs] \in {"free", "stopFree"} => obj[slot[gslot]].kcp = NULL

OwnInv == PtrInv /\ KcpOwned /\ FreeInv

\* Initially there is no object and no running close.
LEMMA InitOwn == Init => OwnInv
  <1> SUFFICES ASSUME Init PROVE OwnInv
    OBVIOUS
  <1>1. PtrInv
    BY SessionsAssumption DEF Init, PtrInv, LiveOwned, SlotsGiven, CallSound, GsCall,
       CloseLabels, Actor
  <1>2. KcpOwned /\ FreeInv
    BY DEF Init, KcpOwned, FreeInv, Actor
  <1> QED BY <1>1, <1>2 DEF OwnInv

-----------------------------------------------------------------------------
(***************************************************************************)
(* The frame.  A quiet step neither allocates nor frees and changes no     *)
(* pointer to a KcpSession; most steps are.                                *)
(***************************************************************************)
Quiet ==
  /\ \A a \in Addr : /\ obj'[a].live = obj[a].live /\ obj'[a].sid = obj[a].sid
                     /\ obj'[a].kcp = obj[a].kcp
  /\ \A k \in KAddr : kobj'[k].live = kobj[k].live /\ kobj'[k].sid = kobj[k].sid
  /\ \A n \in Sid : loc'[n].obj = loc[n].obj /\ loc'[n].kcp = loc[n].kcp
  /\ slot' = slot /\ (ub => ub')

\* What actor x does in a quiet step: it stays where it is, ...
Stays(x) == pc'[x] = pc[x] /\ call'[x] = call[x] /\ gslot' = gslot
\* ... it is outside of close afterwards, ...
Leaves(x) ==
  /\ pc[x] # "closeNull" /\ pc'[x] \notin CloseLabels \cup {"none"}
  /\ x # Gs => gslot' = gslot
  /\ x = Gs /\ pc'[Gs] \in {"free", "stopFree"} =>
       ub' \/ (gslot' = gslot /\ slot[gslot] \in Addr /\ obj[slot[gslot]].kcp = NULL)
\* ... it calls close, ...
Calls(x) ==
  /\ pc[x] # "closeNull" /\ pc'[x] = "closeTest"
  /\ call'[x].obj \in Addr /\ call'[x].sid \in Sid /\ pc[call'[x].sid] # "none"
  /\ x # Gs => gslot' = gslot
  /\ x = Gs /\ call'[Gs].ret # "idle" => call'[Gs].obj = slot[gslot']
\* ... or it goes on inside close.
GoesOn(x) ==
  /\ pc[x] \in CloseLabels \ {"closeNull"} /\ pc'[x] \in {"closeKcp"} \cup PastKcp
  /\ call'[x] = call[x] /\ gslot' = gslot
  /\ pc'[x] \in PastKcp /\ TargetOk(x) => obj[Target(x)].kcp = NULL

OthersStay(x) == \A y \in Actor \ {x} : pc'[y] = pc[y] /\ call'[y] = call[y]

\* A quiet step keeps what is known of the pointers.
LEMMA QuietKeeps ==
  ASSUME IInv, OwnInv, Quiet, NEW x \in Actor, OthersStay(x),
         Stays(x) \/ Leaves(x) \/ Calls(x) \/ GoesOn(x)
  PROVE  OwnInv'
  <1> USE DEF OthersStay
  <1>t. TypeOK
    BY DEF IInv
  <1>n. \A y \in Actor : pc[y] # "none" => pc'[y] # "none"
    BY DEF Stays, Leaves, Calls, GoesOn, CloseLabels, PastKcp
  <1>m. \A a \in Addr : obj[a].kcp # NULL => (MemberOk(a)' <=> MemberOk(a))
    BY <1>t DEF Quiet, MemberOk, TypeOK, SessionObj
  <1>1. LiveOwned'
    BY <1>n DEF OwnInv, PtrInv, LiveOwned, Quiet, Actor
  <1>g. SlotsGiven'
    BY <1>n, <1>t DEF OwnInv, PtrInv, SlotsGiven, Quiet, Actor, TypeOK
  <1>2. ASSUME NEW y \in Actor PROVE CallSound(y)'
    <2> SUFFICES ASSUME pc'[y] \in CloseLabels
                 PROVE  /\ call'[y].obj \in Addr /\ call'[y].sid \in Sid /\ pc'[call'[y].sid] # "none"
                        /\ TargetOk(y)' /\ pc'[y] = "closeNull" =>
                             obj'[call'[y].obj].kcp = NULL \/ ~MemberOk(call[y].obj)'
                        /\ TargetOk(y)' /\ pc'[y] \in PastKcp => obj'[call'[y].obj].kcp = NULL
      BY DEF CallSound, Target
    <2>c. CallSound(y)
      BY DEF OwnInv, PtrInv
    <2>1. CASE pc'[y] = pc[y] /\ call'[y] = call[y]
      <3>1. call[y].obj \in Addr /\ call[y].sid \in Sid /\ pc'[call[y].sid] # "none"
        BY <2>1, <2>c, <1>n DEF CallSound, Target, Actor
      <3>2. TargetOk(y)' <=> TargetOk(y)
        BY <2>1, <3>1, SMTT(60) DEF TargetOk, Target, Quiet
      <3>3. obj[call[y].obj].kcp # NULL => (MemberOk(call[y].obj)' <=> MemberOk(call[y].obj))
        BY <2>1, <3>1, <1>m DEF MemberOk
      <3> QED BY <2>1, <2>c, <3>1, <3>2, <3>3 DEF CallSound, Target, Quiet
    <2>2. CASE y = x /\ Calls(x)
      BY <2>2, <1>n DEF Calls, Actor, PastKcp
    <2>3. CASE y = x /\ GoesOn(x)
      <3>1. /\ call'[y] = call[y] /\ Target(y) \in Addr /\ call[y].sid \in Sid
            /\ pc'[y] # "closeNull" /\ pc[call[y].sid] # "none"
            /\ pc'[y] \in PastKcp /\ TargetOk(y) => obj[Target(y)].kcp = NULL
        BY <2>3, <2>c DEF GoesOn, CallSound, PastKcp
      <3> QED BY <3>1, <1>n DEF TargetOk, Target, Quiet, Actor
    <2> QED BY <2>1, <2>2, <2>3 DEF Stays, Leaves
  <1>3. GsCall'
    BY DEF OwnInv, PtrInv, GsCall, Quiet, Stays, Leaves, Calls, GoesOn, Target, Actor
  <1>4. KcpOwned'
    <2> SUFFICES ASSUME ~ub', ~ub
                 PROVE  /\ \A k \in KAddr : kobj'[k].live => \E a \in Addr :
                             obj'[a].live /\ obj'[a].kcp = k /\ obj'[a].sid = kobj'[k].sid
                        /\ \A a \in Addr : obj'[a].live /\ obj'[a].kcp # NULL =>
                             \/ MemberOk(a)'
                             \/ \E y \in Actor : pc'[y] = "closeNull" /\ call'[y].obj = a
      BY DEF KcpOwned, Quiet, Target
    <2>1. /\ \A k \in KAddr : kobj[k].live => \E a \in Addr :
               obj[a].live /\ obj[a].kcp = k /\ obj[a].sid = kobj[k].sid
          /\ \A a \in Addr : obj[a].live /\ obj[a].kcp # NULL =>
               \/ MemberOk(a)
               \/ \E y \in Actor : pc[y] = "closeNull" /\ call[y].obj = a
      BY DEF OwnInv, KcpOwned, Target
    <2>2. \A y \in Actor : pc[y] = "closeNull" => pc'[y] = pc[y] /\ call'[y] = call[y]
      BY DEF Stays, Leaves, Calls, GoesOn
    <2> QED BY <2>1, <2>2, <1>m DEF Quiet
  <1>5. FreeInv'
    <2> SUFFICES ASSUME ~ub', pc'[Gs] \in {"free", "stopFree"} PROVE obj'[slot'[gslot']].kcp = NULL
      BY DEF FreeInv
    <2>1. CASE Stays(Gs)
      <3>1. slot[gslot] \in Addr
        BY <2>1, <1>t DEF Stays, IInv, GsPlace, GsHolds, TypeOK
      <3> QED BY <2>1, <3>1 DEF Quiet, Stays, OwnInv, FreeInv
    <2>2. CASE Leaves(Gs)
      BY <2>2 DEF Leaves, Quiet
    <2>3. gslot' = gslot /\ x # Gs => Stays(Gs)
      BY DEF Stays, Actor
    <2>4. x # Gs => gslot' = gslot
      BY DEF Stays, Leaves, Calls, GoesOn
    <2> QED BY <2>1, <2>2, <2>3, <2>4 DEF Calls, GoesOn, PastKcp
  <1> QED BY <1>1, <1>g, <1>2, <1>3, <1>4, <1>5 DEF OwnInv, PtrInv

-----------------------------------------------------------------------------
(***************************************************************************)
(* Which steps are quiet.                                                  *)
(***************************************************************************)
SamePointers(f, g) ==
  \A a \in Addr : g[a].live = f[a].live /\ g[a].sid = f[a].sid /\ g[a].kcp = f[a].kcp

\* The writes of the session code to other members than kcpSession.
LEMMA WriteSame ==
  ASSUME NEW f \in [Addr -> SessionObj], NEW a, NEW v
  PROVE  /\ SamePointers(f, [f EXCEPT ![a].player = v])
         /\ SamePointers(f, [f EXCEPT ![a].plive = v])
         /\ SamePointers(f, [f EXCEPT ![a].state = v])
         /\ SamePointers(f, [f EXCEPT ![a].late = v])
  <1>1. SamePointers(f, [f EXCEPT ![a].player = v])
    BY DEF SamePointers, SessionObj
  <1>2. SamePointers(f, [f EXCEPT ![a].plive = v])
    BY DEF SamePointers, SessionObj
  <1>3. SamePointers(f, [f EXCEPT ![a].state = v])
    BY DEF SamePointers, SessionObj
  <1>4. SamePointers(f, [f EXCEPT ![a].late = v])
    BY DEF SamePointers, SessionObj
  <1> QED BY <1>1, <1>2, <1>3, <1>4

\* What setPlayer and setState write when a token was accepted.
LEMMA AttachSame ==
  ASSUME TypeOK, NEW n \in Sid, Attach(n)
  PROVE  SamePointers(obj, obj')
  <1> DEFINE r == [obj[loc[n].obj] EXCEPT !.player = loc[n].uid, !.plive = TRUE,
                                          !.state = "LOGIN_WAIT"]
  <1>1. obj' = [obj EXCEPT ![loc[n].obj] = r]
    BY DEF Attach
  <1>2. loc[n].obj \in Addr => /\ r.live = obj[loc[n].obj].live /\ r.sid = obj[loc[n].obj].sid
                               /\ r.kcp = obj[loc[n].obj].kcp
    BY DEF TypeOK, SessionObj
  <1> HIDE DEF r
  <1> QED BY <1>1, <1>2 DEF TypeOK, SamePointers

\* A step of one thread that writes no pointer is quiet.
LEMMA QuietFrame ==
  ASSUME SamePointers(obj, obj'), slot' = slot, ub => ub',
         \A k \in KAddr : kobj'[k].live = kobj[k].live /\ kobj'[k].sid = kobj[k].sid,
         \A n \in Sid : loc'[n].obj = loc[n].obj /\ loc'[n].kcp = loc[n].kcp
  PROVE  Quiet
  BY DEF Quiet, SamePointers

\* A thread's steps outside of close write none of these pointers.
LEMMA ThreadQuiet ==
  ASSUME IInv, OwnInv, NEW n \in Sid, ThreadStep(n), ~CloseStep(n)
  PROVE  Quiet
  <1>t. TypeOK
    BY DEF IInv
  <1> DEFINE Act == \/ Top(n) \/ Recv(n) \/ Ignored(n) \/ Token(n) \/ Login(n) \/ PingReq(n)
                    \/ SceneReq(n) \/ SceneNotify(n) \/ Reply(n) \/ HandlerError(n) \/ Fail(n)
                    \/ Update(n) \/ Ping(n) \/ Exit(n)
  <1>0. Act
    BY DEF ThreadStep
  <1> USE DEF Token, Login, Top, Ignored, TokenRefused, TokenRejected, TokenNewPlayer,
       TokenKnownPlayer, Kick, Attach, LoginRefused, LoginRejected, LoginAccepted, OnLogin,
       Notify, Activate, PingReq, SceneReq, SceneNotify, Reply, HandlerError, Fail,
       Update, Ping, Exit, SendPacket, SendFromPlayer, FollowNull, Follow
  <1>1. slot' = slot /\ (ub => ub')
    <2>1. slot' = slot
      BY <1>0, ZenonT(60) DEF Recv, gsVars
    <2>2. ub => ub'
      BY <1>0, <1>t DEF Recv, TypeOK
    <2> QED BY <2>1, <2>2
  <1>2. \A k \in KAddr : kobj'[k].live = kobj[k].live /\ kobj'[k].sid = kobj[k].sid
    <2>1. CASE Recv(n)
      BY <2>1, <1>t DEF Recv, TypeOK, KcpObj
    <2>2. CASE ~Recv(n)
      <3>1. kobj' = kobj
        BY <1>0, <2>2, Zenon
      <3> QED BY <3>1
    <2> QED BY <2>1, <2>2
  <1>3. \A m \in Sid : loc'[m].obj = loc[m].obj /\ loc'[m].kcp = loc[m].kcp
    <2>1. loc' = loc \/ \E u : loc' = [loc EXCEPT ![n].uid = u]
      BY <1>0, Zenon DEF Recv
    <2> QED BY <2>1, <1>t DEF TypeOK, Local
  <1>4. SamePointers(obj, obj')
    <2>1. CASE Attach(n)
      BY <2>1, <1>t, AttachSame
    <2>2. CASE ~Attach(n)
      <3>1. \/ obj' = obj
            \/ obj' = [obj EXCEPT ![loc[n].obj].state = "ACTIVE"]
            \/ obj' = [obj EXCEPT ![loc[n].obj].late = FALSE]
        BY <1>0, <2>2, Zenon DEF Recv
      <3>2. CASE obj' = obj
        BY <3>2 DEF SamePointers
      <3>3. CASE obj' = [obj EXCEPT ![loc[n].obj].state = "ACTIVE"]
        BY <3>3, <1>t, WriteSame DEF TypeOK
      <3>4. CASE obj' = [obj EXCEPT ![loc[n].obj].late = FALSE]
        BY <3>4, <1>t, WriteSame DEF TypeOK
      <3> QED BY <3>1, <3>2, <3>3, <3>4
    <2> QED BY <2>1, <2>2
  <1> QED BY <1>1, <1>2, <1>3, <1>4, QuietFrame

\* They leave the thread outside of close, or at the start of a close of its
\* own session or of one in the table.
LEMMA ThreadOwn ==
  ASSUME IInv, OwnInv, NEW n \in Sid, ThreadStep(n), ~CloseStep(n)
  PROVE  OwnInv'
  <1>t. TypeOK
    BY DEF IInv
  <1> DEFINE Act == \/ Top(n) \/ Recv(n) \/ Ignored(n) \/ Token(n) \/ Login(n) \/ PingReq(n)
                    \/ SceneReq(n) \/ SceneNotify(n) \/ Reply(n) \/ HandlerError(n) \/ Fail(n)
                    \/ Update(n) \/ Ping(n) \/ Exit(n)
  <1>0. Act
    BY DEF ThreadStep
  <1>n. n # Gs /\ n \in Actor
    BY SessionsAssumption DEF Actor
  <1> DEFINE Moved == \E l \in ThreadLabels \ {"none"} : pc' = [pc EXCEPT ![n] = l] /\ call' = call
             Self == \E r : /\ call' = [call EXCEPT ![n] = [obj |-> loc[n].obj, sid |-> n, ret |-> r]]
                            /\ pc' = [pc EXCEPT ![n] = "closeTest"]
             Other == \E i \in Slot :
                        /\ slot[i] # NULL
                        /\ call' = [call EXCEPT ![n] = [obj |-> slot[i], sid |-> obj[slot[i]].sid,
                                                        ret |-> "attach"]]
                        /\ pc' = [pc EXCEPT ![n] = "closeTest"]
  <1>1. gslot' = gslot /\ pc[n] \notin CloseLabels \cup {"none"}
    <2> USE DEF gsVars, CloseLabels, Token, Login, Top, Recv, Ignored, TokenRefused, TokenRejected,
       TokenNewPlayer, TokenKnownPlayer, Kick, Attach, LoginRefused, LoginRejected, LoginAccepted, OnLogin,
       Notify, Activate, PingReq, SceneReq, SceneNotify, Reply, HandlerError, Fail,
       Update, Ping, Exit, SendPacket, SendFromPlayer, FollowNull, ThreadAt
    <2>1. gslot' = gslot
      BY <1>0, ZenonT(60)
    <2>2. pc[n] \notin CloseLabels \cup {"none"}
      BY <1>0
    <2> QED BY <2>1, <2>2
  <1>2. FollowNull \/ Moved \/ Self \/ Other
    <2> USE DEF Goto, ThreadLabels, Requests
    <2>1. CASE Top(n) \/ Recv(n) \/ Ignored(n) \/ TokenRefused(n) \/ TokenNewPlayer(n) \/ Attach(n)
      BY <2>1 DEF Top, Recv, Ignored, TokenRefused, TokenNewPlayer, Attach
    <2>2. CASE \/ LoginRefused(n) \/ OnLogin(n) \/ Activate(n) \/ PingReq(n) \/ SceneReq(n)
               \/ HandlerError(n) \/ Fail(n) \/ Update(n)
      BY <2>2 DEF LoginRefused, OnLogin, Activate, PingReq, SceneReq, HandlerError, Fail, Update
    <2>3. CASE LoginAccepted(n) \/ Notify(n) \/ SceneNotify(n) \/ Reply(n)
      BY <2>3 DEF LoginAccepted, Notify, SceneNotify, Reply, SendPacket, SendFromPlayer
    <2>4. CASE TokenRejected(n) \/ LoginRejected(n) \/ Ping(n) \/ Exit(n)
      BY <2>4 DEF TokenRejected, LoginRejected, Ping, Exit, CallCloseSelf
    <2>5. CASE TokenKnownPlayer(n)
      BY <2>5 DEF TokenKnownPlayer
    <2>6. CASE Kick(n)
      BY <2>6 DEF Kick, SlotOfUid, HasPlayer, LooksAt, CallClose
    <2> QED BY <1>0, <2>1, <2>2, <2>3, <2>4, <2>5, <2>6 DEF Token, Login
  <1>3. OthersStay(n)
    BY <1>2, <1>t DEF OthersStay, FollowNull, TypeOK
  <1>4. CASE FollowNull
    BY <1>4, <1>1 , <1>n, <1>3, ThreadQuiet, QuietKeeps DEF Stays, FollowNull
  <1>5. CASE Moved
    <2>1. Leaves(n)
      BY <1>5, <1>1, <1>n, <1>t DEF Leaves, TypeOK, ThreadLabels, Requests, CloseLabels
    <2> QED BY <2>1, <1>n, <1>3, ThreadQuiet, QuietKeeps
  <1>6. CASE Self
    <2>1. Calls(n)
      <3>1. pc'[n] = "closeTest" /\ call'[n].obj = loc[n].obj /\ call'[n].sid = n
        BY <1>6, <1>n, <1>t DEF TypeOK
      <3>2. loc[n].obj \in Addr
        BY <1>1 DEF IInv, ThreadPlace, Placed
      <3> QED BY <3>1, <3>2, <1>1, <1>n DEF Calls, CloseLabels
    <2> QED BY <2>1, <1>n, <1>3, ThreadQuiet, QuietKeeps
  <1>7. CASE Other
    <2>1. Calls(n)
      <3>1. PICK i \in Slot : /\ slot[i] # NULL
               /\ pc'[n] = "closeTest" /\ call'[n].obj = slot[i] /\ call'[n].sid = obj[slot[i]].sid
        BY <1>7, <1>n, <1>t DEF TypeOK
      <3>2. slot[i] \in Addr
        BY <3>1, <1>t DEF TypeOK
      <3>3. obj[slot[i]].sid \in Sid /\ pc[obj[slot[i]].sid] # "none"
        BY <3>1 DEF OwnInv, PtrInv, SlotsGiven
      <3> QED BY <3>1, <3>2, <3>3, <1>1, <1>n DEF Calls, CloseLabels
    <2> QED BY <2>1, <1>n, <1>3, ThreadQuiet, QuietKeeps
  <1> QED BY <1>2, <1>4, <1>5, <1>6, <1>7

-----------------------------------------------------------------------------
(***************************************************************************)
(* Session::close.                                                         *)
(***************************************************************************)

\* The steps of close that leave kcpSession alone.
LEMMA CloseQuietOwn ==
  ASSUME IInv, OwnInv, NEW x \in Actor,
         CloseTest(x) \/ ClosePlayer(x) \/ ClosePlayerNull(x) \/ CloseState(x)
  PROVE  OwnInv'
  <1>t. TypeOK
    BY DEF IInv
  <1>c. CallSound(x)
    BY DEF OwnInv, PtrInv
  <1>1. Quiet
    <2> USE DEF CloseTest, ClosePlayer, ClosePlayerNull, CloseState, gsVars
    <2>1. slot' = slot /\ kobj' = kobj /\ loc' = loc
      OBVIOUS
    <2>2. ub => ub'
      BY <1>t DEF Follow, TypeOK
    <2>3. SamePointers(obj, obj')
      <3>1. \/ obj' = obj
            \/ obj' = [obj EXCEPT ![Target(x)].plive = FALSE]
            \/ obj' = [obj EXCEPT ![Target(x)].player = NULL]
            \/ obj' = [obj EXCEPT ![Target(x)].state = "NOT_CONNECTED"]
        BY Zenon
      <3>2. obj \in [Addr -> SessionObj]
        BY <1>t DEF TypeOK
      <3>3. SamePointers(obj, obj)
        BY DEF SamePointers
      <3>4. /\ SamePointers(obj, [obj EXCEPT ![Target(x)].plive = FALSE])
            /\ SamePointers(obj, [obj EXCEPT ![Target(x)].player = NULL])
            /\ SamePointers(obj, [obj EXCEPT ![Target(x)].state = "NOT_CONNECTED"])
        BY <3>2, WriteSame
      <3> QED BY <3>1, <3>3, <3>4, Zenon
    <2> QED BY <2>1, <2>2, <2>3, QuietFrame
  <1>2. gslot' = gslot /\ OthersStay(x)
    BY <1>t DEF CloseTest, ClosePlayer, ClosePlayerNull, CloseState, OthersStay, Goto, gsVars, TypeOK
  <1>3. CASE CloseTest(x)
    <2>1. GoesOn(x)
      BY <1>2, <1>3, <1>t DEF CloseTest, GoesOn, Goto, CloseLabels, PastKcp, TypeOK, gsVars
    <2> QED BY <1>1, <1>2, <2>1, QuietKeeps
  <1>4. CASE ClosePlayer(x) \/ ClosePlayerNull(x)
    <2>1. /\ pc[x] \in PastKcp /\ pc'[x] \in PastKcp /\ call' = call
      BY <1>4, <1>t DEF ClosePlayer, ClosePlayerNull, Goto, PastKcp, TypeOK
    <2>2. GoesOn(x)
      BY <2>1, <1>2, <1>c DEF GoesOn, CallSound, PastKcp, CloseLabels
    <2> QED BY <1>1, <1>2, <2>2, QuietKeeps
  <1>5. CASE CloseState(x)
    <2>1. /\ pc[x] = "closeState" /\ pc'[x] = call[x].ret
          /\ ub' \in BOOLEAN /\ (~ub' => TargetOk(x))
      BY <1>5, <1>t DEF CloseState, Goto, Follow, TypeOK
    <2>2. call[x].ret \notin CloseLabels \cup {"none"}
      <3>1. CASE x = Gs
        BY <2>1, <3>1 DEF IInv, GsPlace, CloseLabels
      <3>2. CASE x \in Sid
        BY <2>1, <3>2 DEF IInv, ThreadPlace, Placed, CloseLabels
      <3> QED BY <3>1, <3>2 DEF Actor
    <2>3. x = Gs /\ pc'[Gs] \in {"free", "stopFree"} =>
            ub' \/ (slot[gslot] \in Addr /\ obj[slot[gslot]].kcp = NULL)
      <3> SUFFICES ASSUME x = Gs, pc'[Gs] \in {"free", "stopFree"}, ~ub'
                   PROVE  slot[gslot] \in Addr /\ obj[slot[gslot]].kcp = NULL
        BY <2>1
      <3>1. Target(Gs) = slot[gslot]
        BY <2>1 DEF OwnInv, PtrInv, GsCall, CloseLabels
      <3>2. Target(x) \in Addr /\ obj[Target(x)].kcp = NULL
        BY <2>1, <1>c DEF CallSound, CloseLabels, PastKcp
      <3> QED BY <3>1, <3>2
    <2>4. Leaves(x)
      <3>1. pc[x] # "closeNull" /\ pc'[x] \notin CloseLabels \cup {"none"}
        BY <2>1, <2>2
      <3> QED BY <3>1, <2>1, <2>3, <1>2 DEF Leaves
    <2> QED BY <1>1, <1>2, <2>4, QuietKeeps
  <1> QED BY <1>3, <1>4, <1>5

\* `delete kcpSession': the object goes, and the pointer to it is dangling
\* until the next step of this thread.
LEMMA CloseKcpOwn ==
  ASSUME IInv, OwnInv, NEW x \in Actor, CloseKcp(x), ~FollowNull
  PROVE  OwnInv'
  <1>t. TypeOK
    BY DEF IInv
  <1> DEFINE t == Target(x)
             k == obj[t].kcp
  <1>1. /\ pc[x] = "closeKcp" /\ k # NULL
        /\ kobj' = [kobj EXCEPT ![k].live = FALSE]
        /\ pc' = [pc EXCEPT ![x] = "closeNull"]
        /\ UNCHANGED <<slot, gslot, obj, loc, call>>
        /\ ub => ub'
        /\ ~ub' => TargetOk(x) /\ MemberOk(t)
    BY <1>t DEF CloseKcp, Goto, Follow, gsVars, TypeOK
  <1>2. t \in Addr /\ k \in KAddr
    BY <1>1, <1>t DEF OwnInv, PtrInv, CallSound, CloseLabels, TypeOK, SessionObj
  <1> HIDE DEF k
  <1>3. /\ ~kobj'[k].live
        /\ \A j \in KAddr : kobj'[j].sid = kobj[j].sid /\ (j # k => kobj'[j] = kobj[j])
    BY <1>1, <1>2, <1>t DEF TypeOK, KcpObj
  <1>4. pc'[x] = "closeNull" /\ \A y \in Actor \ {x} : pc'[y] = pc[y]
    BY <1>1, <1>t DEF TypeOK
  <1>n. \A y \in Actor : pc[y] # "none" => pc'[y] # "none"
    BY <1>4
  <1>5. LiveOwned'
    BY <1>1, <1>n DEF OwnInv, PtrInv, LiveOwned, Actor
  <1>g. SlotsGiven'
    BY <1>1, <1>n, <1>t DEF OwnInv, PtrInv, SlotsGiven, Actor, TypeOK
  <1>6. ASSUME NEW y \in Actor PROVE CallSound(y)'
    <2>1. CallSound(y)
      BY SMTT(60) DEF OwnInv, PtrInv
    <2>2. call[y].obj \in Addr /\ obj[call[y].obj].kcp # NULL /\ ~MemberOk(call[y].obj)
            => ~MemberOk(call[y].obj)'
      BY <1>1, <1>3, <1>t DEF MemberOk, TypeOK, SessionObj
    <2>3. CASE y = x
      <3>1. ~MemberOk(call[y].obj)'
        BY <2>3, <1>1, <1>3 DEF MemberOk, Target, k
      <3>2. Target(y) \in Addr /\ call[y].sid \in Sid /\ pc'[call[y].sid] # "none"
        BY <2>1, <2>3, <1>1, <1>n DEF CallSound, CloseLabels, Actor
      <3> QED BY <3>1, <3>2, <2>3, <1>1, <1>4, SMTT(60) DEF CallSound, Target, PastKcp
    <2>4. CASE y # x
      BY <2>1, <2>2, <2>4, <1>1, <1>4, <1>n DEF CallSound, Target, TargetOk, Actor
    <2> QED BY <2>3, <2>4
  <1>7. GsCall'
    BY <1>1, <1>4 DEF OwnInv, PtrInv, GsCall, Target, CloseLabels, Actor
  <1>8. KcpOwned'
    <2> SUFFICES ASSUME ~ub', ~ub, TargetOk(x), MemberOk(t)
                 PROVE  /\ \A j \in KAddr : kobj'[j].live => \E a \in Addr :
                             obj'[a].live /\ obj'[a].kcp = j /\ obj'[a].sid = kobj'[j].sid
                        /\ \A a \in Addr : obj'[a].live /\ obj'[a].kcp # NULL =>
                             \/ MemberOk(a)'
                             \/ \E y \in Actor : pc'[y] = "closeNull" /\ call'[y].obj = a
      BY <1>1 DEF KcpOwned, Target
    <2>1. \A j \in KAddr : kobj'[j].live => \E a \in Addr :
            obj'[a].live /\ obj'[a].kcp = j /\ obj'[a].sid = kobj'[j].sid
      BY <1>1, <1>3 DEF OwnInv, KcpOwned
    <2>2. ASSUME NEW a \in Addr, obj'[a].live, obj'[a].kcp # NULL
          PROVE  MemberOk(a)' \/ \E y \in Actor : pc'[y] = "closeNull" /\ call'[y].obj = a
      <3>1. CASE a = t
        BY <3>1, <1>1, <1>4 DEF Target
      <3>2. CASE a # t /\ MemberOk(a) /\ obj[a].kcp = k
        <4>1. obj[a].sid = obj[t].sid /\ obj[a].live /\ obj[t].live
          BY <3>2, <2>2, <1>1 DEF MemberOk, k, TargetOk
        <4> QED BY <4>1, <3>2, <1>2 DEF OwnInv, PtrInv, LiveOwned
      <3>3. CASE MemberOk(a) /\ obj[a].kcp # k
        <4>1. obj[a].kcp \in KAddr
          BY <2>2, <1>1, <1>t DEF TypeOK, SessionObj
        <4> QED BY <4>1, <3>3, <1>1, <1>3 DEF MemberOk
      <3>4. CASE ~MemberOk(a)
        <4>1. PICK y \in Actor : pc[y] = "closeNull" /\ call[y].obj = a
          BY <3>4, <2>2, <1>1 DEF OwnInv, KcpOwned, Target
        <4> QED BY <4>1, <1>1, <1>4
      <3> QED BY <3>1, <3>2, <3>3, <3>4
    <2> QED BY <2>1, <2>2
  <1>9. FreeInv'
    BY <1>1, <1>4 DEF OwnInv, FreeInv, Actor
  <1> QED BY <1>5, <1>g, <1>6, <1>7, <1>8, <1>9 DEF OwnInv, PtrInv

\* `kcpSession = NULL': the pointer that was dangling is cleared.
LEMMA CloseNullOwn ==
  ASSUME IInv, OwnInv, NEW x \in Actor, CloseNull(x)
  PROVE  OwnInv'
  <1>t. TypeOK
    BY DEF IInv
  <1> DEFINE t == Target(x)
  <1>1. /\ pc[x] = "closeNull"
        /\ obj' = [obj EXCEPT ![t].kcp = NULL]
        /\ pc' = [pc EXCEPT ![x] = "closePlayer"]
        /\ UNCHANGED <<slot, gslot, kobj, loc, call>>
        /\ ub => ub'
        /\ ~ub' => TargetOk(x)
    BY <1>t DEF CloseNull, Goto, Follow, gsVars, TypeOK
  <1>2. t \in Addr
    BY <1>1 DEF OwnInv, PtrInv, CallSound, CloseLabels
  <1>3. /\ obj'[t].kcp = NULL
        /\ \A a \in Addr : /\ obj'[a].live = obj[a].live /\ obj'[a].sid = obj[a].sid
                           /\ a # t => obj'[a].kcp = obj[a].kcp
    BY <1>1, <1>2, <1>t DEF TypeOK, SessionObj
  <1>4. pc'[x] = "closePlayer" /\ \A y \in Actor \ {x} : pc'[y] = pc[y]
    BY <1>1, <1>t DEF TypeOK
  <1>n. \A y \in Actor : pc[y] # "none" => pc'[y] # "none"
    BY <1>4
  <1>5. LiveOwned'
    BY <1>1, <1>3, <1>n DEF OwnInv, PtrInv, LiveOwned, Actor
  <1>g. SlotsGiven'
    BY <1>1, <1>3, <1>n, <1>t DEF OwnInv, PtrInv, SlotsGiven, Actor, TypeOK
  <1>6. ASSUME NEW y \in Actor PROVE CallSound(y)'
    <2>1. CallSound(y)
      BY DEF OwnInv, PtrInv
    <2> SUFFICES ASSUME pc'[y] \in CloseLabels
                 PROVE  /\ call[y].obj \in Addr /\ call[y].sid \in Sid /\ pc'[call[y].sid] # "none"
                        /\ TargetOk(y)' /\ pc'[y] = "closeNull" =>
                             obj'[call[y].obj].kcp = NULL \/ ~MemberOk(call[y].obj)'
                        /\ TargetOk(y)' /\ pc'[y] \in PastKcp => obj'[call[y].obj].kcp = NULL
      BY <1>1 DEF CallSound, Target
    <2>2. pc[y] \in CloseLabels
      BY <1>1, <1>4 DEF CloseLabels
    <2>3. call[y].obj \in Addr /\ call[y].sid \in Sid /\ pc'[call[y].sid] # "none"
      BY <2>1, <2>2, <1>n DEF CallSound, Target, Actor
    <2>4. CASE call[y].obj = t
      BY <2>3, <2>4, <1>3
    <2>5. CASE call[y].obj # t
      <3>1. y # x
        BY <2>5 DEF Target
      <3>2. TargetOk(y)' <=> TargetOk(y)
        BY <2>3, <1>1, <1>3 DEF TargetOk, Target
      <3>3. MemberOk(call[y].obj)' <=> MemberOk(call[y].obj)
        BY <2>3, <2>5, <1>1, <1>3 DEF MemberOk
      <3> QED BY <2>1, <2>2, <2>3, <2>5, <3>1, <3>2, <3>3, <1>3, <1>4 DEF CallSound, Target
    <2> QED BY <2>4, <2>5
  <1>7. GsCall'
    BY <1>1, <1>4 DEF OwnInv, PtrInv, GsCall, Target, CloseLabels, Actor
  <1>8. KcpOwned'
    <2> SUFFICES ASSUME ~ub', ~ub, TargetOk(x)
                 PROVE  /\ \A j \in KAddr : kobj'[j].live => \E a \in Addr :
                             obj'[a].live /\ obj'[a].kcp = j /\ obj'[a].sid = kobj'[j].sid
                        /\ \A a \in Addr : obj'[a].live /\ obj'[a].kcp # NULL =>
                             \/ MemberOk(a)'
                             \/ \E y \in Actor : pc'[y] = "closeNull" /\ call'[y].obj = a
      BY <1>1 DEF KcpOwned, Target
    <2>1. obj[t].kcp = NULL \/ ~MemberOk(t)
      BY <1>1 DEF OwnInv, PtrInv, CallSound, CloseLabels
    <2>2. ASSUME NEW j \in KAddr, kobj'[j].live
          PROVE  \E a \in Addr : obj'[a].live /\ obj'[a].kcp = j /\ obj'[a].sid = kobj'[j].sid
      <3>1. PICK a \in Addr : obj[a].live /\ obj[a].kcp = j /\ obj[a].sid = kobj[j].sid
        BY <2>2, <1>1 DEF OwnInv, KcpOwned
      <3>2. a # t
        BY <3>1, <2>1, <2>2, <1>1, SessionsAssumption DEF MemberOk
      <3> QED BY <3>1, <3>2, <1>1, <1>3
    <2>3. ASSUME NEW a \in Addr, obj'[a].live, obj'[a].kcp # NULL
          PROVE  MemberOk(a)' \/ \E y \in Actor : pc'[y] = "closeNull" /\ call'[y].obj = a
      <3>1. a # t /\ obj[a].live /\ obj[a].kcp # NULL
        BY <2>3, <1>3
      <3>2. CASE MemberOk(a)
        BY <3>1, <3>2, <1>1, <1>3 DEF MemberOk
      <3>3. CASE ~MemberOk(a)
        <4>1. PICK y \in Actor : pc[y] = "closeNull" /\ call[y].obj = a
          BY <3>1, <3>3 DEF OwnInv, KcpOwned, Target
        <4>2. y # x
          BY <4>1, <3>1 DEF Target
        <4> QED BY <4>1, <4>2, <1>1, <1>4
      <3> QED BY <3>2, <3>3
    <2> QED BY <2>2, <2>3
  <1>9. FreeInv'
    <2> SUFFICES ASSUME ~ub, pc'[Gs] \in {"free", "stopFree"} PROVE obj'[slot[gslot]].kcp = NULL
      BY <1>1 DEF FreeInv
    <2>1. pc[Gs] \in {"free", "stopFree"}
      BY <1>4 DEF Actor
    <2>2. obj[slot[gslot]].kcp = NULL /\ slot[gslot] \in Addr
      BY <2>1, <1>t DEF OwnInv, FreeInv, IInv, GsPlace, GsHolds, TypeOK
    <2> QED BY <2>2, <1>3
  <1> QED BY <1>5, <1>g, <1>6, <1>7, <1>8, <1>9 DEF OwnInv, PtrInv

\* A crash changes nothing but ub and run.
LEMMA FollowNullOwn ==
  ASSUME IInv, OwnInv, FollowNull PROVE OwnInv'
  <1>1. Quiet /\ OthersStay(Gs) /\ Stays(Gs)
    BY DEF FollowNull, Quiet, OthersStay, Stays, gsVars
  <1> QED BY <1>1, QuietKeeps DEF Actor

\* Session::close, run by any thread.
LEMMA CloseOwn ==
  ASSUME IInv, OwnInv, NEW x \in Actor, CloseStep(x)
  PROVE  OwnInv'
  BY FollowNullOwn, CloseQuietOwn, CloseKcpOwn, CloseNullOwn DEF CloseStep, SaveCrashes

-----------------------------------------------------------------------------
(***************************************************************************)
(* The gameserver thread.                                                  *)
(***************************************************************************)

\* Steps that write no Session, and the ping timer.
LEMMA GsPlainOwn ==
  ASSUME IInv, OwnInv,
         \/ \E c \in Client : RecvHandshake(c) \/ RecvBogus(c)
         \/ \E c \in Client, s \in Sid : RecvData(c, s)
         \/ Push \/ Accept \/ LeaveLoop \/ Signal \/ ProcessExit
         \/ \E a \in Addr : PingLapses(a)
  PROVE  OwnInv'
  <1>t. TypeOK
    BY DEF IInv
  <1> USE DEF RecvHandshake, RecvBogus, RecvData, Push, Accept, LeaveLoop, Signal,
              ProcessExit, PingLapses, Arrives, GsAt
  <1>1. Quiet
    <2>1. slot' = slot /\ loc' = loc /\ (ub => ub')
      BY <1>t DEF gsVars, Follow, TypeOK
    <2>2. \A k \in KAddr : kobj'[k].live = kobj[k].live /\ kobj'[k].sid = kobj[k].sid
      BY <1>t DEF TypeOK, KcpObj
    <2>3. SamePointers(obj, obj')
      <3>1. obj' = obj \/ \E a \in Addr : obj' = [obj EXCEPT ![a].late = TRUE]
        OBVIOUS
      <3>2. SamePointers(obj, obj)
        BY DEF SamePointers
      <3>3. ASSUME NEW a \in Addr PROVE SamePointers(obj, [obj EXCEPT ![a].late = TRUE])
        BY <1>t, WriteSame DEF TypeOK
      <3> QED BY <3>1, <3>2, <3>3
    <2> QED BY <2>1, <2>2, <2>3, QuietFrame
  <1>2. OthersStay(Gs)
    BY <1>t DEF OthersStay, TypeOK, Goto
  <1>3. Stays(Gs) \/ Leaves(Gs)
    <2>1. \/ pc' = pc /\ call' = call /\ gslot' = gslot
          \/ /\ pc[Gs] # "closeNull"
             /\ \E l \in {"push", "idle", "accept", "create", "delete", "stop"} :
                  pc' = [pc EXCEPT ![Gs] = l]
      BY DEF gsVars, Goto
    <2> QED BY <2>1, <1>t DEF Stays, Leaves, TypeOK, Actor, CloseLabels
  <1> QED BY <1>1, <1>2, <1>3, QuietKeeps DEF Actor

\* Calls of Session::close: a shutdown request, the destructor, stop.
LEMMA GsCallOwn ==
  ASSUME IInv, OwnInv,
         \/ \E c \in Client, s \in Sid : RecvShutdown(c, s)
         \/ Delete("delete", "free") \/ Delete("stopDelete", "stopFree") \/ Stop
  PROVE  OwnInv'
  <1>t. TypeOK
    BY DEF IInv
  <1>1. Quiet /\ OthersStay(Gs)
    <2> USE DEF RecvShutdown, Delete, Stop, Arrives, GsAt
    <2>1. slot' = slot /\ loc' = loc /\ obj' = obj /\ kobj' = kobj /\ (ub => ub')
      BY <1>t DEF gsVars, Follow, TypeOK
    <2> QED BY <1>t, <2>1 DEF Quiet, OthersStay, CallClose, Goto, TypeOK
  <1>2. ASSUME NEW i \in Slot, NEW r, slot[i] # NULL, pc[Gs] # "closeNull",
               CallClose(Gs, slot[i], r), r # "idle" => gslot' = i
        PROVE  Calls(Gs)
    <2>1. pc'[Gs] = "closeTest" /\ call'[Gs].obj = slot[i] /\ call'[Gs].sid = obj[slot[i]].sid
          /\ call'[Gs].ret = r
      BY <1>2, <1>t DEF CallClose, Goto, TypeOK, Actor
    <2>2. slot[i] \in Addr
      BY <1>2, <1>t DEF TypeOK
    <2>3. obj[slot[i]].sid \in Sid /\ pc[obj[slot[i]].sid] # "none"
      BY <1>2 DEF OwnInv, PtrInv, SlotsGiven
    <2> QED BY <1>2, <2>1, <2>2, <2>3 DEF Calls
  <1>3. Stays(Gs) \/ Leaves(Gs) \/ Calls(Gs)
    <2>1. ASSUME NEW c \in Client, NEW s \in Sid, RecvShutdown(c, s)
          PROVE  Stays(Gs) \/ Calls(Gs)
      BY <2>1, <1>2 DEF RecvShutdown, ShutdownFor, FirstConnected, Connected, Stays,
         Arrives, GsAt
    <2>2. ASSUME NEW l, NEW r, Delete(l, r), l \in {"delete", "stopDelete"}
          PROVE  Calls(Gs)
      <3>1. slot[gslot] # NULL /\ gslot \in Slot /\ pc[Gs] # "closeNull"
        BY <2>2, <1>t DEF IInv, GsPlace, GsHolds, Delete, GsAt, TypeOK
      <3> QED BY <2>2, <3>1, <1>2 DEF Delete, gsVars
    <2>3. CASE Stop
      <3>1. CASE \E i \in FirstUsed : gslot' = i /\ CallClose(Gs, slot[i], "stopDelete")
        BY <2>3, <3>1, <1>2 DEF Stop, FirstUsed, GsAt
      <3>2. CASE Goto(Gs, "done")
        BY <2>3, <3>2, <1>t DEF Stop, GsAt, Leaves, Goto, TypeOK, Actor, CloseLabels
      <3> QED BY <2>3, <3>1, <3>2 DEF Stop
    <2> QED BY <2>1, <2>2, <2>3
  <1> QED BY <1>1, <1>3, QuietKeeps DEF Actor

\* The Session in the slot is freed; its KcpSession went with the close.
LEMMA FreeOwn ==
  ASSUME IInv, OwnInv, Free("free", "clear") \/ Free("stopFree", "stopClear")
  PROVE  OwnInv'
  <1>t. TypeOK
    BY DEF IInv
  <1> DEFINE t == slot[gslot]
  <1>1. /\ pc[Gs] \in {"free", "stopFree"}
        /\ obj' = [obj EXCEPT ![t].live = FALSE]
        /\ \E l \in {"clear", "stopClear"} : pc' = [pc EXCEPT ![Gs] = l]
        /\ UNCHANGED <<slot, gslot, kobj, loc, call, ub>>
    BY DEF Free, GsAt, Goto, gsVars
  <1>2. t \in Addr
    BY <1>1, <1>t DEF IInv, GsPlace, GsHolds, TypeOK
  <1> HIDE DEF t
  <1>3. /\ ~obj'[t].live
        /\ \A a \in Addr : /\ obj'[a].sid = obj[a].sid /\ obj'[a].kcp = obj[a].kcp
                           /\ a # t => obj'[a].live = obj[a].live
    <2>1. ASSUME NEW f \in [Addr -> SessionObj], NEW b \in Addr
          PROVE  /\ ~[f EXCEPT ![b].live = FALSE][b].live
                 /\ \A a \in Addr : /\ [f EXCEPT ![b].live = FALSE][a].sid = f[a].sid
                                    /\ [f EXCEPT ![b].live = FALSE][a].kcp = f[a].kcp
                                    /\ a # b => [f EXCEPT ![b].live = FALSE][a].live = f[a].live
      BY DEF SessionObj
    <2> QED BY <1>1, <1>2, <1>t, <2>1, ZenonT(60) DEF TypeOK
  <1>4. pc'[Gs] \in {"clear", "stopClear"} /\ \A y \in Actor \ {Gs} : pc'[y] = pc[y]
    BY <1>1, <1>t DEF TypeOK, Actor
  <1>n. \A y \in Actor : pc[y] # "none" => pc'[y] # "none"
    BY <1>4
  <1>5. LiveOwned'
    <2> SUFFICES ASSUME NEW a \in Addr, obj'[a].live
                 PROVE  /\ obj[a].sid \in Sid /\ pc'[obj[a].sid] # "none"
                        /\ loc[obj[a].sid].obj = a
                        /\ obj[a].kcp \in {NULL, loc[obj[a].sid].kcp}
      BY <1>1, <1>3 DEF LiveOwned
    <2>1. obj[a].live
      BY <1>3
    <2> QED BY <2>1, <1>n DEF OwnInv, PtrInv, LiveOwned, Actor
  <1>g. SlotsGiven'
    BY <1>1, <1>3, <1>n, <1>t DEF OwnInv, PtrInv, SlotsGiven, Actor, TypeOK
  <1>6. ASSUME NEW y \in Actor PROVE CallSound(y)'
    <2> SUFFICES ASSUME pc'[y] \in CloseLabels
                 PROVE  /\ call[y].obj \in Addr /\ call[y].sid \in Sid /\ pc'[call[y].sid] # "none"
                        /\ TargetOk(y)' /\ pc'[y] = "closeNull" =>
                             obj'[call[y].obj].kcp = NULL \/ ~MemberOk(call[y].obj)'
                        /\ TargetOk(y)' /\ pc'[y] \in PastKcp => obj'[call[y].obj].kcp = NULL
      BY <1>1 DEF CallSound, Target
    <2>1. y # Gs /\ pc'[y] = pc[y]
      BY <1>4 DEF CloseLabels
    <2>2. CallSound(y)
      BY DEF OwnInv, PtrInv
    <2>3. call[y].obj \in Addr /\ call[y].sid \in Sid /\ pc'[call[y].sid] # "none"
      BY <2>1, <2>2, <1>n DEF CallSound, Target, Actor
    <2>4. TargetOk(y)' => TargetOk(y)
      BY <2>3, <1>1, <1>3, SMTT(60) DEF TargetOk, Target
    <2>5. MemberOk(call[y].obj)' <=> MemberOk(call[y].obj)
      BY <2>3, <1>1, <1>3 DEF MemberOk
    <2> QED BY <2>1, <2>2, <2>3, <2>4, <2>5, <1>3 DEF CallSound, Target
  <1>7. GsCall'
    BY <1>4 DEF GsCall, CloseLabels
  <1>8. KcpOwned'
    <2> SUFFICES ASSUME ~ub
                 PROVE  /\ \A j \in KAddr : kobj[j].live => \E a \in Addr :
                             obj'[a].live /\ obj'[a].kcp = j /\ obj'[a].sid = kobj[j].sid
                        /\ \A a \in Addr : obj'[a].live /\ obj'[a].kcp # NULL =>
                             \/ MemberOk(a)'
                             \/ \E y \in Actor : pc'[y] = "closeNull" /\ call[y].obj = a
      BY <1>1 DEF KcpOwned, Target
    <2>1. obj[t].kcp = NULL
      BY <1>1 DEF OwnInv, FreeInv, t
    <2>2. ASSUME NEW j \in KAddr, kobj[j].live
          PROVE  \E a \in Addr : obj'[a].live /\ obj'[a].kcp = j /\ obj'[a].sid = kobj[j].sid
      <3>1. PICK a \in Addr : obj[a].live /\ obj[a].kcp = j /\ obj[a].sid = kobj[j].sid
        BY <2>2 DEF OwnInv, KcpOwned
      <3>2. a # t
        BY <3>1, <2>1, SessionsAssumption
      <3> QED BY <3>1, <3>2, <1>3
    <2>3. ASSUME NEW a \in Addr, obj'[a].live, obj'[a].kcp # NULL
          PROVE  MemberOk(a)' \/ \E y \in Actor : pc'[y] = "closeNull" /\ call[y].obj = a
      <3>1. obj[a].live /\ obj[a].kcp # NULL /\ (MemberOk(a)' <=> MemberOk(a))
        BY <2>3, <1>1, <1>3 DEF MemberOk
      <3>2. \A y \in Actor : pc[y] = "closeNull" => pc'[y] = pc[y]
        BY <1>1, <1>4
      <3> QED BY <3>1, <3>2 DEF OwnInv, KcpOwned, Target
    <2> QED BY <2>2, <2>3
  <1>9. FreeInv'
    BY <1>4 DEF FreeInv
  <1> QED BY <1>5, <1>g, <1>6, <1>7, <1>8, <1>9 DEF OwnInv, PtrInv

\* The slot is cleared: no pointer is left to what was freed.
LEMMA ClearOwn ==
  ASSUME IInv, OwnInv, ClearSlot("clear", "create") \/ ClearSlot("stopClear", "stop")
  PROVE  OwnInv'
  <1>t. TypeOK
    BY DEF IInv
  <1>1. /\ pc[Gs] \in {"clear", "stopClear"}
        /\ slot' = [slot EXCEPT ![gslot] = NULL]
        /\ \E l \in {"create", "stop"} : pc' = [pc EXCEPT ![Gs] = l]
        /\ UNCHANGED <<gslot, obj, kobj, loc, call, ub>>
    BY DEF ClearSlot, GsAt, Goto
  <1>2. pc'[Gs] \in {"create", "stop"} /\ \A y \in Actor \ {Gs} : pc'[y] = pc[y]
    BY <1>1, <1>t DEF TypeOK, Actor
  <1>n. \A y \in Actor : /\ pc[y] # "none" => pc'[y] # "none"
                         /\ pc[y] \in CloseLabels => pc'[y] = pc[y]
                         /\ pc'[y] \in CloseLabels => pc'[y] = pc[y]
    BY <1>1, <1>2 DEF CloseLabels
  <1>3. LiveOwned'
    BY <1>1, <1>n DEF OwnInv, PtrInv, LiveOwned, Actor
  <1>4. SlotsGiven'
    <2>1. \A i \in Slot : slot'[i] # NULL => slot'[i] = slot[i]
      BY <1>1, <1>t, SMTT(60) DEF TypeOK
    <2> QED BY <2>1, <1>1, <1>n DEF OwnInv, PtrInv, SlotsGiven, Actor
  <1>5. ASSUME NEW y \in Actor PROVE CallSound(y)'
    BY <1>1, <1>n DEF OwnInv, PtrInv, CallSound, Target, TargetOk, MemberOk, Actor
  <1>6. GsCall' /\ FreeInv'
    BY <1>2 DEF GsCall, FreeInv, CloseLabels
  <1>7. KcpOwned'
    BY <1>1, <1>n DEF OwnInv, KcpOwned, Target, MemberOk, CloseLabels
  <1> QED BY <1>3, <1>4, <1>5, <1>6, <1>7 DEF OwnInv, PtrInv

\* A new session with its KcpSession, at addresses that may have been used.
LEMMA CreateOwn ==
  ASSUME IInv, OwnInv, Create PROVE OwnInv'
  <1>t. TypeOK
    BY DEF IInv
  <1>0. PICK n \in NextSid, a \in Addr, k \in KAddr :
          /\ ~obj[a].live /\ ~kobj[k].live
          /\ obj' = [obj EXCEPT ![a] = [live |-> TRUE, sid |-> n, state |-> "TOKEN_WAIT",
                                        kcp |-> k, player |-> NULL, plive |-> FALSE,
                                        late |-> FALSE]]
          /\ kobj' = [kobj EXCEPT ![k] = [live |-> TRUE, sid |-> n, queue |-> 0]]
          /\ slot' = [slot EXCEPT ![gslot] = a]
          /\ loc' = [loc EXCEPT ![n] = [obj |-> a, kcp |-> k, uid |-> NULL]]
          /\ pc' = [pc EXCEPT ![n] = "top", ![Gs] = "idle"]
    BY ZenonT(60) DEF Create
  <1>1. n \in Sid /\ n # Gs /\ pc[n] = "none" /\ pc[Gs] = "create" /\ call' = call /\ ub' = ub
    BY SessionsAssumption DEF NextSid, Create, GsAt
  <1>2. /\ obj'[a].live /\ obj'[a].sid = n /\ obj'[a].kcp = k
        /\ \A b \in Addr \ {a} : obj'[b] = obj[b]
    BY <1>0, <1>t DEF TypeOK
  <1>3. /\ kobj'[k].live /\ kobj'[k].sid = n
        /\ \A j \in KAddr \ {k} : kobj'[j] = kobj[j]
    BY <1>0, <1>t DEF TypeOK
  <1>4. /\ loc'[n].obj = a /\ loc'[n].kcp = k
        /\ \A m \in Sid \ {n} : loc'[m] = loc[m]
    BY <1>0, <1>1, <1>t DEF TypeOK
  <1>5. /\ pc'[n] = "top" /\ pc'[Gs] = "idle"
        /\ \A y \in Actor \ {n, Gs} : pc'[y] = pc[y]
    BY <1>0, <1>1, <1>t DEF TypeOK, Actor
  <1>n. \A y \in Actor : pc[y] # "none" => pc'[y] # "none"
    BY <1>5
  <1>s. \A b \in Addr : obj[b].live => b # a /\ obj[b].sid \in Sid /\ obj[b].sid # n
    BY <1>0, <1>1 DEF OwnInv, PtrInv, LiveOwned
  <1>6. LiveOwned'
    <2> SUFFICES ASSUME NEW b \in Addr, obj'[b].live
                 PROVE  /\ obj'[b].sid \in Sid /\ pc'[obj'[b].sid] # "none"
                        /\ loc'[obj'[b].sid].obj = b
                        /\ obj'[b].kcp \in {NULL, loc'[obj'[b].sid].kcp}
      BY DEF LiveOwned
    <2>1. CASE b = a
      BY <2>1, <1>1, <1>2, <1>4, <1>5
    <2>2. CASE b # a
      BY <2>2, <1>2, <1>4, <1>n, <1>s DEF OwnInv, PtrInv, LiveOwned, Actor
    <2> QED BY <2>1, <2>2
  <1>g. SlotsGiven'
    <2>1. \A i \in Slot : slot'[i] = slot[i] \/ slot'[i] = a
      BY <1>0, <1>t DEF TypeOK
    <2> QED BY <2>1, <1>1, <1>2, <1>5, <1>n, <1>t DEF OwnInv, PtrInv, SlotsGiven, Actor, TypeOK
  <1>7. ASSUME NEW y \in Actor PROVE CallSound(y)'
    <2> SUFFICES ASSUME pc'[y] \in CloseLabels
                 PROVE  /\ call[y].obj \in Addr /\ call[y].sid \in Sid /\ pc'[call[y].sid] # "none"
                        /\ TargetOk(y)' /\ pc'[y] = "closeNull" =>
                             obj'[call[y].obj].kcp = NULL \/ ~MemberOk(call[y].obj)'
                        /\ TargetOk(y)' /\ pc'[y] \in PastKcp => obj'[call[y].obj].kcp = NULL
      BY <1>1 DEF CallSound, Target
    <2>1. y # Gs /\ y # n /\ pc'[y] = pc[y]
      BY <1>5 DEF CloseLabels
    <2>2. CallSound(y)
      BY DEF OwnInv, PtrInv
    <2>3. /\ call[y].obj \in Addr /\ call[y].sid \in Sid /\ pc'[call[y].sid] # "none"
          /\ call[y].sid # n
      BY <2>1, <2>2, <1>1, <1>n DEF CallSound, Target, Actor
    <2>4. CASE call[y].obj = a
      <3>1. ~TargetOk(y)'
        BY <2>3, <2>4, <1>1, <1>2 DEF TargetOk, Target
      <3> QED BY <3>1, <2>3
    <2>5. CASE call[y].obj # a
      <3>1. (TargetOk(y)' <=> TargetOk(y)) /\ obj'[call[y].obj] = obj[call[y].obj]
        BY <2>3, <2>5, <1>1, <1>2, SMTT(60) DEF TargetOk, Target
      <3>2. TargetOk(y) /\ obj[call[y].obj].kcp # NULL /\ ~MemberOk(call[y].obj)
              => ~MemberOk(call[y].obj)'
        <4> SUFFICES ASSUME TargetOk(y), obj[call[y].obj].kcp # NULL, ~MemberOk(call[y].obj)
                     PROVE  ~MemberOk(call[y].obj)'
          OBVIOUS
        <4>1. obj[call[y].obj].kcp \in KAddr /\ obj[call[y].obj].sid # n
          BY <2>3, <1>t, <1>s DEF TargetOk, Target, TypeOK, SessionObj
        <4> QED BY <4>1, <3>1, <1>1, <1>3 DEF MemberOk
      <3> QED BY <2>1, <2>2, <2>3, <3>1, <3>2 DEF CallSound, Target
    <2> QED BY <2>4, <2>5
  <1>8. GsCall'
    BY <1>5 DEF GsCall, CloseLabels
  <1>9. KcpOwned'
    <2> SUFFICES ASSUME ~ub
                 PROVE  /\ \A j \in KAddr : kobj'[j].live => \E b \in Addr :
                             obj'[b].live /\ obj'[b].kcp = j /\ obj'[b].sid = kobj'[j].sid
                        /\ \A b \in Addr : obj'[b].live /\ obj'[b].kcp # NULL =>
                             \/ MemberOk(b)'
                             \/ \E y \in Actor : pc'[y] = "closeNull" /\ call[y].obj = b
      BY <1>1 DEF KcpOwned, Target
    <2>1. ASSUME NEW j \in KAddr, kobj'[j].live
          PROVE  \E b \in Addr : obj'[b].live /\ obj'[b].kcp = j /\ obj'[b].sid = kobj'[j].sid
      <3>1. CASE j = k
        BY <3>1, <1>2, <1>3
      <3>2. CASE j # k
        <4>1. PICK b \in Addr : obj[b].live /\ obj[b].kcp = j /\ obj[b].sid = kobj[j].sid
          BY <2>1, <3>2, <1>3 DEF OwnInv, KcpOwned
        <4> QED BY <4>1, <3>2, <1>2, <1>3, <1>s
      <3> QED BY <3>1, <3>2
    <2>2. ASSUME NEW b \in Addr, obj'[b].live, obj'[b].kcp # NULL
          PROVE  MemberOk(b)' \/ \E y \in Actor : pc'[y] = "closeNull" /\ call[y].obj = b
      <3>1. CASE b = a
        BY <3>1, <1>2, <1>3 DEF MemberOk
      <3>2. CASE b # a /\ MemberOk(b)
        <4>1. obj'[b] = obj[b] /\ obj[b].kcp \in KAddr /\ obj[b].kcp # k
          BY <3>2, <2>2, <1>0, <1>2, <1>t DEF MemberOk, TypeOK, SessionObj
        <4> QED BY <4>1, <3>2, <1>3 DEF MemberOk
      <3>3. CASE b # a /\ ~MemberOk(b)
        <4>1. PICK y \in Actor : pc[y] = "closeNull" /\ call[y].obj = b
          BY <3>3, <2>2, <1>2 DEF OwnInv, KcpOwned, Target
        <4> QED BY <4>1, <1>1, <1>5
      <3> QED BY <3>1, <3>2, <3>3
    <2> QED BY <2>1, <2>2
  <1>10. FreeInv'
    BY <1>5 DEF FreeInv
  <1> QED BY <1>6, <1>g, <1>7, <1>8, <1>9, <1>10 DEF OwnInv, PtrInv

-----------------------------------------------------------------------------
(***************************************************************************)
(* The ownership invariant holds in every reachable state.                 *)
(***************************************************************************)
THEOREM OwnershipInvariant == Spec => []OwnInv
  <1>1. IInv /\ OwnInv /\ [Next]_vars => OwnInv'
    <2> SUFFICES ASSUME IInv, OwnInv, [Next]_vars PROVE OwnInv'
      OBVIOUS
    <2>1. CASE Receive
      BY <2>1, GsPlainOwn, GsCallOwn DEF Receive
    <2>2. CASE GsWork
      BY <2>2, GsPlainOwn, GsCallOwn, FreeOwn, ClearOwn, CreateOwn, CloseOwn DEF GsWork, Actor
    <2>3. CASE Signal \/ ProcessExit \/ \E a \in Addr : PingLapses(a)
      BY <2>3, GsPlainOwn
    <2>4. ASSUME NEW n \in Sid, ThreadStep(n) PROVE OwnInv'
      BY <2>4, ThreadOwn, CloseOwn DEF Actor
    <2>5. CASE UNCHANGED vars
      <3>1. Quiet /\ OthersStay(Gs) /\ Stays(Gs)
        BY <2>5 DEF vars, Quiet, OthersStay, Stays, gsVars
      <3> QED BY <3>1, QuietKeeps DEF Actor
    <2> QED BY <2>1, <2>2, <2>3, <2>4, <2>5 DEF Next
  <1> QED BY <1>1, InitOwn, InductiveInvariant, PTL DEF Spec

(***************************************************************************)
(* Until a dangling pointer has been followed, every KcpSession belongs to *)
(* the one Session it was created for, and a Session's kcpSession dangles  *)
(* only between the delete and the assignment of NULL in Session::close.   *)
(***************************************************************************)
THEOREM KcpSessionsOwned == Spec => []KcpOwned
  <1>1. OwnInv => KcpOwned
    BY DEF OwnInv
  <1> QED BY <1>1, OwnershipInvariant, PTL

-----------------------------------------------------------------------------
(***************************************************************************)
(* Sessions that only their own threads close.                             *)
(*                                                                         *)
(* While `foreign' is false, a thread that is not about to leave has its   *)
(* KcpSession; one that failed without it has closed its session and will  *)
(* leave (session.cpp, the test after processPacket); and the gameserver   *)
(* thread closes and frees only what a returned thread left behind.        *)
(***************************************************************************)
OpenLabels == ThreadLabels \ {"none", "done", "exit", "fail"}

Lone(n) ==
  /\ SessionOk(n)
  /\ Serving(n).kcp # NULL /\ pc[n] # "closeNull" => KcpOk(n)
  /\ pc[n] \in OpenLabels \cup {"closeKcp"} => Serving(n).kcp # NULL
  /\ pc[n] = "fail" /\ Serving(n).kcp = NULL => Serving(n).state = "NOT_CONNECTED"
  /\ pc[n] \in TokenLabels => Serving(n).state # "NOT_CONNECTED"
  /\ pc[n] \in CloseLabels => /\ Target(n) = loc[n].obj /\ call[n].sid = n
                              /\ call[n].ret # "attach"

LoneGs ==
  /\ pc[Gs] \notin {"stopDelete", "stopFree", "stopClear"}
  /\ pc[Gs] \in CloseLabels => call[Gs].ret = "free"
  /\ pc[Gs] \in CloseLabels \cup {"free"} => pc[obj[slot[gslot]].sid] = "done"

\* A thread that returned has deleted the KcpSession of its session.
LoneDone == \A a \in Addr : obj[a].live /\ pc[obj[a].sid] = "done" => obj[a].kcp = NULL

Running(n) == pc[n] \notin {"none", "done"}

LoneInv == ~foreign => /\ \A n \in Sid : Running(n) => Lone(n)
                       /\ LoneGs /\ LoneDone

\* Nothing runs initially.
LEMMA InitLone == Init => LoneInv
  BY SessionsAssumption DEF Init, LoneInv, Running, LoneGs, LoneDone, CloseLabels, Actor

\* It implies the safety of the threads.
LEMMA LoneImplies ==
  ASSUME IInv, OwnInv, LoneInv PROVE LoneThreadSafe
  <1> SUFFICES ASSUME ~foreign, NEW n \in Sid
               PROVE  /\ pc[n] \notin {"none", "done"} => SessionOk(n)
                      /\ pc[n] \in {"recv", "update"} => KcpOk(n)
                      /\ pc[n] \in {"reply", "replyOnly", "onLogin", "notify", "scene"} => ReplyOk(n)
    BY DEF LoneThreadSafe
  <1>1. CASE ~Running(n)
    BY <1>1 DEF Running
  <1>2. CASE Running(n)
    <2>1. Lone(n)
      BY <1>2 DEF LoneInv
    <2>2. ASSUME pc[n] \in {"recv", "update", "reply", "replyOnly", "onLogin", "notify", "scene"}
          PROVE  KcpOk(n) /\ Serving(n).kcp # NULL
      BY <2>1, <2>2 DEF Lone, OpenLabels, ThreadLabels, Requests
    <2>3. loc[n].obj \in Addr
      BY <1>2 DEF Running, IInv, ThreadPlace, Placed
    <2>4. Serving(n).kcp \in {NULL, loc[n].kcp}
      BY <2>1, <2>3 DEF Lone, SessionOk, Serving, OwnInv, PtrInv, LiveOwned
    <2> QED BY <2>1, <2>2, <2>4 DEF Lone, ReplyOk, MemberOk, KcpOk, SessionOk, Serving
  <1> QED BY <1>1, <1>2

\* The pointers of a running thread are those of its own objects.
LEMMA RunningPointers ==
  ASSUME IInv, OwnInv, LoneInv, ~foreign, NEW n \in Sid, Running(n)
  PROVE  /\ loc[n].obj \in Addr /\ Lone(n)
         /\ Serving(n).kcp # NULL => Serving(n).kcp = loc[n].kcp /\ loc[n].kcp \in KAddr
  <1>1. loc[n].obj \in Addr /\ Lone(n)
    BY DEF Running, IInv, ThreadPlace, Placed, LoneInv
  <1>2. Serving(n).kcp \in {NULL, loc[n].kcp} /\ Serving(n).kcp \in KAddr \cup {NULL}
    BY <1>1 DEF Lone, SessionOk, Serving, OwnInv, PtrInv, LiveOwned, IInv, TypeOK, SessionObj
  <1> QED BY <1>1, <1>2

\* The members of the Session at a that the invariant speaks of stay.
SameCore(a) ==
  /\ obj'[a].live = obj[a].live /\ obj'[a].sid = obj[a].sid
  /\ obj'[a].kcp = obj[a].kcp /\ obj'[a].state = obj[a].state

\* What a step leaves alone keeps the facts about a thread that rests.
LEMMA RestingLone ==
  ASSUME IInv, OwnInv, LoneInv, ~foreign, NEW m \in Sid, Running(m),
         pc'[m] = pc[m], call'[m] = call[m],
         loc'[m].obj = loc[m].obj, loc'[m].kcp = loc[m].kcp, SameCore(loc[m].obj),
         \A k \in KAddr : kobj[k].live /\ kobj[k].sid = m => kobj'[k].live /\ kobj'[k].sid = m
  PROVE  Lone(m)'
  <1>1. /\ loc[m].obj \in Addr /\ Lone(m)
        /\ Serving(m).kcp # NULL => loc[m].kcp \in KAddr
    BY RunningPointers
  <1>2. SessionOk(m)' /\ Serving(m).kcp' = Serving(m).kcp /\ Serving(m).state' = Serving(m).state
    BY <1>1 DEF Lone, SessionOk, Serving, SameCore
  <1>3. Serving(m).kcp # NULL /\ KcpOk(m) => KcpOk(m)'
    BY <1>1 DEF KcpOk
  <1> QED BY <1>1, <1>2, <1>3 DEF Lone, Target

\* A step of thread n that touches its own objects only.
OwnStep(n) ==
  /\ \A a \in Addr : /\ obj'[a].live = obj[a].live /\ obj'[a].sid = obj[a].sid
                     /\ a # loc[n].obj => SameCore(a)
  /\ \A k \in KAddr : /\ kobj'[k].sid = kobj[k].sid
                      /\ kobj[k].sid # n => kobj'[k].live = kobj[k].live
  /\ \A m \in Sid : loc'[m].obj = loc[m].obj /\ loc'[m].kcp = loc[m].kcp
  /\ slot' = slot /\ gslot' = gslot /\ OthersStay(n)

\* Such a step keeps the invariant when the thread itself stays sound.
LEMMA OwnStepLone ==
  ASSUME IInv, OwnInv, LoneInv, ~foreign, NEW n \in Sid, Running(n), OwnStep(n),
         pc'[n] # "none", pc'[n] = "done" => obj'[loc[n].obj].kcp = NULL,
         pc'[n] # "done" => Lone(n)'
  PROVE  LoneInv'
  <1>t. TypeOK
    BY DEF IInv
  <1>n. n # Gs /\ \A m \in Sid : m # Gs /\ m \in Actor
    BY SessionsAssumption DEF Actor
  <1>o. loc[n].obj \in Addr /\ SessionOk(n)
    BY RunningPointers DEF Lone
  <1>1. ASSUME NEW m \in Sid, Running(m)' PROVE Lone(m)'
    <2>1. CASE m = n
      BY <2>1, <1>1 DEF Running
    <2>2. CASE m # n
      <3>1. pc'[m] = pc[m] /\ call'[m] = call[m] /\ Running(m)
        BY <2>2, <1>1, <1>n DEF OwnStep, OthersStay, Running
      <3>2. loc[m].obj \in Addr /\ obj[loc[m].obj].sid = m
        BY <3>1, RunningPointers DEF Lone, SessionOk
      <3>3. SameCore(loc[m].obj)
        BY <2>2, <3>2, <1>o DEF OwnStep, SessionOk
      <3> QED BY <2>2, <3>1, <3>3, RestingLone DEF OwnStep
    <2> QED BY <2>1, <2>2
  <1>2. LoneGs'
    <2>1. LoneGs /\ pc'[Gs] = pc[Gs] /\ call'[Gs] = call[Gs] /\ slot' = slot /\ gslot' = gslot
      BY <1>n DEF LoneInv, OwnStep, OthersStay, Actor
    <2>2. ASSUME pc[Gs] \in CloseLabels \cup {"free"} PROVE pc'[obj'[slot[gslot]].sid] = "done"
      <3>1. slot[gslot] \in Addr
        BY <2>1, <2>2, <1>t DEF IInv, GsPlace, GsHolds, LoneGs, TypeOK
      <3>2. obj[slot[gslot]].sid \in Sid
        BY <3>1, <1>t, SessionsAssumption DEF TypeOK, OwnInv, PtrInv, SlotsGiven
      <3>3. pc[obj[slot[gslot]].sid] = "done" /\ obj[slot[gslot]].sid # n
        BY <2>1, <2>2 DEF LoneGs, Running
      <3> QED BY <3>1, <3>2, <3>3, <1>n DEF OwnStep, OthersStay
    <2> QED BY <2>1, <2>2 DEF LoneGs
  <1>3. LoneDone'
    <2> SUFFICES ASSUME NEW a \in Addr, obj'[a].live, pc'[obj'[a].sid] = "done"
                 PROVE  obj'[a].kcp = NULL
      BY DEF LoneDone
    <2>1. obj[a].live /\ obj'[a].sid = obj[a].sid
      BY DEF OwnStep
    <2>2. obj[a].sid \in Sid /\ loc[obj[a].sid].obj = a
      BY <2>1 DEF OwnInv, PtrInv, LiveOwned
    <2>3. CASE obj[a].sid = n
      BY <2>1, <2>2, <2>3
    <2>4. CASE obj[a].sid # n
      <3>1. a # loc[n].obj /\ pc[obj[a].sid] = "done"
        BY <2>1, <2>2, <2>4, <1>o, <1>n DEF SessionOk, OwnStep, OthersStay
      <3> QED BY <2>1, <3>1 DEF LoneInv, LoneDone, OwnStep, SameCore
    <2> QED BY <2>3, <2>4
  <1> QED BY <1>1, <1>2, <1>3 DEF LoneInv

\* A running thread that moves outside of close, its KcpSession untouched.
LEMMA MoveLone ==
  ASSUME IInv, OwnInv, LoneInv, ~foreign, NEW n \in Sid, Running(n), Quiet,
         NEW l \in ThreadLabels \ {"none", "done"}, pc' = [pc EXCEPT ![n] = l],
         call' = call, gslot' = gslot, pc[n] \notin CloseLabels,
         \A a \in Addr : a # loc[n].obj => obj'[a].state = obj[a].state,
         l \in OpenLabels => Serving(n).kcp # NULL,
         l = "fail" => pc[n] \in OpenLabels,
         l \in TokenLabels => obj'[loc[n].obj].state # "NOT_CONNECTED"
  PROVE  LoneInv'
  <1>t. TypeOK
    BY DEF IInv
  <1>n. n \in Actor /\ l \notin CloseLabels
    BY DEF Actor, ThreadLabels, Requests, CloseLabels
  <1>1. pc'[n] = l /\ OthersStay(n)
    BY <1>n, <1>t DEF TypeOK, OthersStay
  <1>2. OwnStep(n)
    BY <1>1 DEF OwnStep, Quiet, SameCore
  <1>3. /\ loc[n].obj \in Addr /\ Lone(n)
        /\ Serving(n).kcp # NULL => loc[n].kcp \in KAddr
    BY RunningPointers
  <1>4. /\ SessionOk(n)' /\ Serving(n).kcp' = Serving(n).kcp
        /\ Serving(n).kcp # NULL /\ KcpOk(n) => KcpOk(n)'
    BY <1>3 DEF Lone, Quiet, SessionOk, Serving, KcpOk
  <1>5. Serving(n).kcp # NULL => KcpOk(n)
    BY <1>3 DEF Lone, CloseLabels
  <1>6. l = "fail" => Serving(n).kcp # NULL
    BY <1>3 DEF Lone
  <1>7. l \in TokenLabels => Serving(n)'.state # "NOT_CONNECTED"
    BY DEF Serving, Quiet
  <1>8. Lone(n)'
    BY <1>n, <1>1, <1>4, <1>5, <1>6, <1>7 DEF Lone, CloseLabels
  <1> QED BY <1>1, <1>2, <1>8, OwnStepLone

\* A running thread that calls close on its own session.
LEMMA SelfLone ==
  ASSUME IInv, OwnInv, LoneInv, ~foreign, NEW n \in Sid, Running(n), Quiet,
         NEW r \in {"fail", "done"},
         call' = [call EXCEPT ![n] = [obj |-> loc[n].obj, sid |-> n, ret |-> r]],
         pc' = [pc EXCEPT ![n] = "closeTest"],
         gslot' = gslot, pc[n] \notin CloseLabels, obj' = obj
  PROVE  LoneInv'
  <1>t. TypeOK
    BY DEF IInv
  <1>1. /\ pc'[n] = "closeTest" /\ OthersStay(n)
        /\ call'[n].obj = loc[n].obj /\ call'[n].sid = n /\ call'[n].ret = r
    BY <1>t DEF TypeOK, OthersStay, Actor
  <1>2. OwnStep(n)
    BY <1>1 DEF OwnStep, Quiet, SameCore
  <1>3. /\ loc[n].obj \in Addr /\ Lone(n)
        /\ Serving(n).kcp # NULL => loc[n].kcp \in KAddr
    BY RunningPointers
  <1>4. /\ SessionOk(n)' /\ Serving(n).kcp' = Serving(n).kcp
        /\ Serving(n).kcp # NULL /\ KcpOk(n) => KcpOk(n)'
    BY <1>3 DEF Lone, Quiet, SessionOk, Serving, KcpOk
  <1>5. Serving(n).kcp # NULL => KcpOk(n)
    BY <1>3 DEF Lone, CloseLabels
  <1>6. loc'[n].obj = loc[n].obj
    BY DEF Quiet
  <1>7. Lone(n)'
    BY <1>1, <1>4, <1>5, <1>6 DEF Lone, Target, OpenLabels, ThreadLabels, Requests, TokenLabels
  <1> QED BY <1>1, <1>2, <1>7, OwnStepLone

\* A crash changes nothing the invariant speaks of.
LEMMA FollowNullLone ==
  ASSUME LoneInv, FollowNull PROVE LoneInv'
  BY DEF FollowNull, gsVars, LoneInv, Running, Lone, LoneGs, LoneDone, SessionOk, KcpOk,
     Serving, Target

\* The steps of a session thread outside of close.
LEMMA ThreadLone ==
  ASSUME IInv, OwnInv, LoneInv, NEW n \in Sid, ThreadStep(n), ~CloseStep(n), ~foreign'
  PROVE  LoneInv'
  <1>t. TypeOK
    BY DEF IInv
  <1>0. CASE FollowNull
    BY <1>0, FollowNullLone
  <1> SUFFICES ASSUME ~FollowNull PROVE LoneInv'
    BY <1>0
  <1>q. Quiet
    BY ThreadQuiet, SMTT(60)
  <1> USE DEF Goto
  <1>f. /\ foreign' = foreign \/ Kick(n)
        /\ foreign => foreign'
    BY <1>t DEF ThreadStep, Token, Login, Top, Recv, Ignored, TokenRefused, TokenRejected,
       TokenNewPlayer, TokenKnownPlayer, Kick, Attach, LoginRefused, LoginRejected, LoginAccepted, OnLogin,
       Notify, Activate, PingReq, SceneReq, SceneNotify, Reply, HandlerError, Fail,
       Update, Ping, Exit, SendPacket, SendFromPlayer, TypeOK
  <1>1. gslot' = gslot /\ Running(n) /\ pc[n] \notin CloseLabels
    <2>1. gslot' = gslot
      BY ZenonT(60) DEF gsVars, ThreadStep, Token, Login, Top, Recv, Ignored, TokenRefused, TokenRejected,
       TokenNewPlayer, TokenKnownPlayer, Kick, Attach, LoginRefused, LoginRejected, LoginAccepted, OnLogin,
       Notify, Activate, PingReq, SceneReq, SceneNotify, Reply, HandlerError, Fail,
       Update, Ping, Exit, SendPacket, SendFromPlayer
    <2>2. Running(n) /\ pc[n] \notin CloseLabels
      BY DEF ThreadStep, Token, Login, Top, Recv, Ignored, TokenRefused, TokenRejected,
       TokenNewPlayer, TokenKnownPlayer, Kick, Attach, LoginRefused, LoginRejected, LoginAccepted, OnLogin,
       Notify, Activate, PingReq, SceneReq, SceneNotify, Reply, HandlerError, Fail,
       Update, Ping, Exit, ThreadAt, Running, CloseLabels
    <2> QED BY <2>1, <2>2
  <1>2. ~foreign
    BY <1>f
  <1>3. Lone(n) /\ loc[n].obj \in Addr
    BY <1>1, <1>2, RunningPointers
  <1>4. pc[n] \in OpenLabels => Serving(n).kcp # NULL
    BY <1>3 DEF Lone
  <1>5. ASSUME TokenRejected(n) \/ LoginRejected(n) \/ Exit(n) \/ (Ping(n) /\ Serving(n).late)
        PROVE  LoneInv'
    <2>1. \E r \in {"fail", "done"} :
            /\ call' = [call EXCEPT ![n] = [obj |-> loc[n].obj, sid |-> n, ret |-> r]]
            /\ pc' = [pc EXCEPT ![n] = "closeTest"]
      BY <1>5 DEF TokenRejected, LoginRejected, Ping, Exit, CallCloseSelf
    <2>2. obj' = obj
      BY <1>5 DEF TokenRejected, LoginRejected, Ping, Exit
    <2> QED BY <2>1, <2>2, <1>q, <1>1, <1>2, SelfLone
  <1>6. ASSUME ~(TokenRejected(n) \/ LoginRejected(n) \/ Exit(n) \/ (Ping(n) /\ Serving(n).late))
        PROVE  LoneInv'
    <2> DEFINE Ok(l) == /\ pc' = [pc EXCEPT ![n] = l] /\ call' = call
                        /\ l \in OpenLabels => Serving(n).kcp # NULL
                        /\ l = "fail" => pc[n] \in OpenLabels
                        /\ l \in TokenLabels => obj'[loc[n].obj].state # "NOT_CONNECTED"
    <2> USE DEF OpenLabels, ThreadLabels, Requests, TokenLabels
    <2>1. \E l \in ThreadLabels \ {"none", "done"} : Ok(l)
      <3>1. CASE Top(n) \/ Ignored(n) \/ TokenRefused(n) \/ LoginRefused(n) \/ SceneReq(n)
        BY <3>1, <1>4 DEF Top, Ignored, TokenRefused, LoginRefused, SceneReq, ThreadAt
      <3>2. CASE Recv(n)
        BY <3>2, <1>4 DEF Recv, ThreadAt
      <3>3. CASE TokenNewPlayer(n)
        BY <3>3, <1>4 DEF TokenNewPlayer, ThreadAt, Serving
      <3>4. CASE TokenKnownPlayer(n)
        <4>1. /\ pc' = [pc EXCEPT ![n] = "kick"] /\ call' = call /\ obj' = obj
              /\ pc[n] = "tokenReq" /\ Serving(n).state = "TOKEN_WAIT"
          BY <3>4 DEF TokenKnownPlayer, ThreadAt
        <4> QED BY <4>1, <1>4 DEF Serving
      <3>k. CASE Kick(n)
        <4>1. /\ pc' = [pc EXCEPT ![n] = "attach"] /\ call' = call /\ obj' = obj
              /\ pc[n] = "kick"
          BY <3>k DEF Kick, ThreadAt
        <4>2. Serving(n).state # "NOT_CONNECTED"
          BY <4>1, <1>3 DEF Lone
        <4> QED BY <4>1, <4>2, <1>4 DEF Serving
      <3>5. CASE Attach(n) \/ PingReq(n) \/ Activate(n)
        BY <3>5, <1>4 DEF Attach, PingReq, Activate, ThreadAt
      <3>6. CASE OnLogin(n)
        <4>1. /\ pc[n] = "onLogin" /\ call' = call /\ obj' = obj
              /\ \E l \in {"update", "notify"} : pc' = [pc EXCEPT ![n] = l]
          BY <3>6 DEF OnLogin, ThreadAt
        <4>2. Serving(n).state # "NOT_CONNECTED"
          BY <4>1, <1>3 DEF Lone
        <4> QED BY <4>1, <4>2, <1>4 DEF Serving
      <3>7. CASE Notify(n)
        <4>1. /\ pc[n] = "notify" /\ call' = call /\ obj' = obj
              /\ pc' = [pc EXCEPT ![n] = "activate"]
          BY <3>7 DEF Notify, ThreadAt, SendFromPlayer
        <4>2. Serving(n).state # "NOT_CONNECTED"
          BY <4>1, <1>3 DEF Lone
        <4> QED BY <4>1, <4>2, <1>4 DEF Serving
      <3>8. CASE LoginAccepted(n)
        <4>1. /\ pc[n] = "loginReq" /\ call' = call /\ obj' = obj /\ Serving(n).state = "LOGIN_WAIT"
              /\ \E l \in {"onLogin", "fail"} : pc' = [pc EXCEPT ![n] = l]
          BY <3>8 DEF LoginAccepted, ThreadAt, SendFromPlayer
        <4> QED BY <4>1, <1>4 DEF Serving
      <3>9. CASE SceneNotify(n) \/ Reply(n)
        BY <3>9, <1>4 DEF SceneNotify, Reply, SendPacket, SendFromPlayer, ThreadAt
      <3>10. CASE HandlerError(n) \/ Update(n)
        BY <3>10, <1>4 DEF HandlerError, Update, ThreadAt
      <3>11. CASE Fail(n)
        <4>1. pc[n] = "fail" /\ call' = call
          BY <3>11 DEF Fail, ThreadAt
        <4>2. CASE Serving(n).state = "NOT_CONNECTED"
          <5>1. pc' = [pc EXCEPT ![n] = "exit"]
            BY <3>11, <4>2 DEF Fail
          <5>2. Ok("exit")
            BY <4>1, <5>1
          <5> HIDE DEF Ok
          <5> QED BY <5>2
        <4>3. CASE Serving(n).state # "NOT_CONNECTED"
          <5>1. pc' = [pc EXCEPT ![n] = "update"] /\ Serving(n).kcp # NULL
            BY <3>11, <4>1, <4>3, <1>3 DEF Fail, Lone
          <5>2. Ok("update")
            BY <4>1, <5>1
          <5> HIDE DEF Ok
          <5> QED BY <5>2
        <4> QED BY <4>2, <4>3
      <3>12. CASE Ping(n)
        BY <3>12, <1>4, <1>6 DEF Ping, ThreadAt
      <3> QED BY <1>6, <3>1, <3>2, <3>3, <3>4, <3>k, <3>5, <3>6, <3>7, <3>8, <3>9, <3>10, <3>11, <3>12
              DEF ThreadStep, Token, Login
    <2>2. \A a \in Addr : a # loc[n].obj => obj'[a].state = obj[a].state
      <3>1. \/ obj' = obj
            \/ \E e : obj' = [obj EXCEPT ![loc[n].obj] = e]
        BY Zenon DEF ThreadStep, Token, Login, Top, Recv, Ignored, TokenRefused, TokenRejected,
       TokenNewPlayer, TokenKnownPlayer, Kick, Attach, LoginRefused, LoginRejected, LoginAccepted, OnLogin,
       Notify, Activate, PingReq, SceneReq, SceneNotify, Reply, HandlerError, Fail,
       Update, Ping, Exit, SendPacket, SendFromPlayer
      <3> QED BY <3>1, <1>t DEF TypeOK
    <2> HIDE DEF OpenLabels, ThreadLabels, Requests, TokenLabels
    <2> QED BY <2>1, <2>2, <1>q, <1>1, <1>2, MoveLone
  <1> QED BY <1>5, <1>6

\* What one step of close writes, when its target is allocated.
CloseWrites(x) ==
  /\ \A a \in Addr : /\ obj'[a].live = obj[a].live /\ obj'[a].sid = obj[a].sid
                     /\ a # Target(x) => SameCore(a)
                     /\ obj'[a].kcp \in {obj[a].kcp, NULL}
  /\ UNCHANGED <<slot, gslot, loc, foreign>>

\* A step of Session::close that follows no null pointer writes only its target.
LEMMA CloseWriting ==
  ASSUME IInv, NEW x \in Actor, CloseStep(x), ~FollowNull
  PROVE  CloseWrites(x)
  <1>t. obj \in [Addr -> SessionObj]
    BY DEF IInv, TypeOK
  <1> USE DEF CloseStep, CloseTest, CloseKcp, CloseNull, ClosePlayer, SaveCrashes,
              ClosePlayerNull, CloseState
  <1>1. UNCHANGED <<slot, gslot, loc, foreign>>
    BY SMTT(60) DEF gsVars
  <1> DEFINE W(f, a, g) == \A b \in Addr : /\ g[b].live = f[b].live /\ g[b].sid = f[b].sid
                                           /\ b # a => g[b] = f[b]
                                           /\ g[b].kcp \in {f[b].kcp, NULL}
  <1>2. ASSUME NEW f \in [Addr -> SessionObj], NEW a
        PROVE  /\ W(f, a, [f EXCEPT ![a].kcp = NULL])
               /\ W(f, a, [f EXCEPT ![a].player = NULL])
               /\ W(f, a, [f EXCEPT ![a].plive = FALSE])
               /\ W(f, a, [f EXCEPT ![a].state = "NOT_CONNECTED"])
    <2>1. W(f, a, [f EXCEPT ![a].kcp = NULL])
      BY DEF SessionObj
    <2>2. W(f, a, [f EXCEPT ![a].player = NULL])
      BY DEF SessionObj
    <2>3. W(f, a, [f EXCEPT ![a].plive = FALSE])
      BY DEF SessionObj
    <2>4. W(f, a, [f EXCEPT ![a].state = "NOT_CONNECTED"])
      BY DEF SessionObj
    <2> QED BY <2>1, <2>2, <2>3, <2>4
  <1>3. \/ obj' = obj
        \/ obj' = [obj EXCEPT ![Target(x)].kcp = NULL]
        \/ obj' = [obj EXCEPT ![Target(x)].player = NULL]
        \/ obj' = [obj EXCEPT ![Target(x)].plive = FALSE]
        \/ obj' = [obj EXCEPT ![Target(x)].state = "NOT_CONNECTED"]
    BY Zenon
  <1>4. W(obj, Target(x), obj)
    BY SMTT(60)
  <1>5. /\ W(obj, Target(x), [obj EXCEPT ![Target(x)].kcp = NULL])
        /\ W(obj, Target(x), [obj EXCEPT ![Target(x)].player = NULL])
        /\ W(obj, Target(x), [obj EXCEPT ![Target(x)].plive = FALSE])
        /\ W(obj, Target(x), [obj EXCEPT ![Target(x)].state = "NOT_CONNECTED"])
    BY <1>t, <1>2
  <1> HIDE DEF W
  <1>6. W(obj, Target(x), obj')
    BY <1>3, <1>4, <1>5, Zenon
  <1> QED BY <1>1, <1>6 DEF W, CloseWrites, SameCore

\* A thread closes its own session.
LEMMA CloseSelfLone ==
  ASSUME IInv, OwnInv, LoneInv, NEW n \in Sid, CloseStep(n), ~FollowNull, ~foreign
  PROVE  LoneInv'
  <1>t. TypeOK
    BY DEF IInv
  <1>w. CloseWrites(n)
    BY CloseWriting DEF Actor
  <1>1. pc[n] \in CloseLabels /\ Running(n)
    BY DEF CloseStep, CloseTest, CloseKcp, CloseNull, ClosePlayer, SaveCrashes,
              ClosePlayerNull, CloseState, CloseLabels, Running
  <1>2. /\ loc[n].obj \in Addr /\ Lone(n)
        /\ Serving(n).kcp # NULL => Serving(n).kcp = loc[n].kcp /\ loc[n].kcp \in KAddr
    BY <1>1, RunningPointers
  <1>3. Target(n) = loc[n].obj /\ call[n].sid = n /\ SessionOk(n) /\ TargetOk(n)
    BY <1>1, <1>2 DEF Lone, SessionOk, TargetOk
  <1>4. pc[n] \in PastKcp => Serving(n).kcp = NULL
    BY <1>1, <1>3 DEF OwnInv, PtrInv, CallSound, Actor, Serving
  <1>5. OthersStay(n)
    BY <1>t DEF CloseStep, CloseTest, CloseKcp, CloseNull, ClosePlayer, SaveCrashes,
              ClosePlayerNull, CloseState, FollowNull, OthersStay, TypeOK, Goto
  <1>6. OwnStep(n)
    <2>1. \A k \in KAddr : /\ kobj'[k].sid = kobj[k].sid
                           /\ kobj[k].sid # n => kobj'[k].live = kobj[k].live
      <3>1. CASE CloseKcp(n)
        <4>1. /\ pc[n] = "closeKcp" /\ Serving(n).kcp # NULL
              /\ kobj' = [kobj EXCEPT ![Serving(n).kcp].live = FALSE]
          BY <3>1, <1>3 DEF CloseKcp, Serving
        <4>2. kobj[loc[n].kcp].sid = n
          BY <4>1, <1>2 DEF Lone, KcpOk
        <4> QED BY <4>1, <4>2, <1>2, <1>t, ZenonT(60) DEF TypeOK, KcpObj
      <3>2. CASE ~CloseKcp(n)
        BY <3>2 DEF CloseStep, CloseTest, CloseNull, ClosePlayer, SaveCrashes,
              ClosePlayerNull, CloseState
      <3> QED BY <3>1, <3>2
    <2> QED BY <2>1, <1>3, <1>5, <1>w DEF OwnStep, CloseWrites
  <1>7. /\ SessionOk(n)' /\ Serving(n).kcp' \in {Serving(n).kcp, NULL} /\ loc' = loc
    BY <1>2, <1>3, <1>w DEF CloseWrites, SessionOk, Serving
  <1> USE DEF Goto
  <1>8. CASE pc'[n] \in CloseLabels /\ call' = call
    <2>1. call'[n].ret # "attach"
      BY <1>1, <1>2, <1>8 DEF Lone
    <2>2. pc'[n] = "closeKcp" => Serving(n)'.kcp # NULL
      <3> SUFFICES ASSUME pc'[n] = "closeKcp" PROVE Serving(n)'.kcp # NULL
        OBVIOUS
      <3>0. call[n].ret # "closeKcp"
        BY <1>1 DEF IInv, ThreadPlace, Placed
      <3>1. CloseTest(n)
        BY <3>0, <1>t DEF CloseStep, CloseKcp, CloseNull, ClosePlayer, SaveCrashes,
              ClosePlayerNull, CloseState, TypeOK, Actor, NoCall, CloseLabels
      <3> QED BY <3>1, <1>3, <1>7, <1>t DEF CloseTest, Serving, TypeOK, Actor
    <2>3. Serving(n)'.kcp # NULL /\ pc'[n] # "closeNull" => KcpOk(n)'
      <3> SUFFICES ASSUME Serving(n)'.kcp # NULL, pc'[n] # "closeNull" PROVE KcpOk(n)'
        OBVIOUS
      <3>1. Serving(n).kcp # NULL /\ pc[n] \notin PastKcp
        BY <1>4, <1>7 DEF Serving
      <3>2. CASE pc[n] = "closeTest"
        <4>1. kobj' = kobj
          BY <3>2 DEF CloseStep, CloseTest, CloseKcp, CloseNull, ClosePlayer, SaveCrashes,
              ClosePlayerNull, CloseState
        <4> QED BY <4>1, <3>1, <3>2, <1>2, <1>7 DEF Lone, KcpOk
      <3>3. CASE pc[n] = "closeKcp"
        <4>1. pc'[n] = "closeNull"
          BY <3>3, <1>t DEF CloseStep, CloseTest, CloseKcp, CloseNull, ClosePlayer, SaveCrashes,
              ClosePlayerNull, CloseState, TypeOK, Actor
        <4> QED BY <4>1
      <3>4. CASE pc[n] = "closeNull"
        <4>1. obj' = [obj EXCEPT ![loc[n].obj].kcp = NULL]
          BY <3>4, <1>3 DEF CloseStep, CloseTest, CloseKcp, CloseNull, ClosePlayer, SaveCrashes,
              ClosePlayerNull, CloseState
        <4>2. obj'[loc[n].obj].kcp = NULL
          BY <4>1, <1>2, <1>t DEF TypeOK, SessionObj
        <4> QED BY <4>2, <1>7 DEF Serving
      <3> QED BY <1>1, <3>1, <3>2, <3>3, <3>4 DEF CloseLabels, PastKcp
    <2>4. Lone(n)'
      BY <1>3, <1>7, <1>8, <2>1, <2>2, <2>3 DEF Lone, Target, OpenLabels, ThreadLabels, Requests,
         CloseLabels, TokenLabels
    <2> QED BY <1>1, <1>2, <1>6, <1>8, <2>4, OwnStepLone DEF CloseLabels
  <1>9. CASE CloseState(n)
    <2>1. /\ pc[n] = "closeState" /\ pc'[n] = call[n].ret
          /\ obj'[loc[n].obj].state = "NOT_CONNECTED"
      BY <1>9, <1>2, <1>3, <1>t DEF CloseState, TypeOK, Actor, SessionObj
    <2>2. call[n].ret \in {"fail", "done"}
      BY <2>1, <1>1, <1>2 DEF Lone, IInv, ThreadPlace, Placed
    <2>3. Serving(n)'.kcp = NULL
      BY <2>1, <1>4, <1>7 DEF PastKcp, Serving
    <2>4. pc'[n] = "fail" => Lone(n)'
      BY <2>1, <2>3, <1>7 DEF Lone, Serving, OpenLabels, TokenLabels, CloseLabels
    <2> QED BY <2>1, <2>2, <2>3, <2>4, <1>1, <1>6, <1>7, OwnStepLone DEF Serving
  <1>10. (pc'[n] \in CloseLabels /\ call' = call) \/ CloseState(n)
    BY <1>t DEF CloseStep, CloseTest, CloseKcp, CloseNull, ClosePlayer, SaveCrashes,
              ClosePlayerNull, TypeOK, Actor, CloseLabels
  <1> QED BY <1>8, <1>9, <1>10

\* A step of the gameserver thread that leaves the running threads alone.
LEMMA GsStepLone ==
  ASSUME IInv, OwnInv, LoneInv, ~foreign, loc' = loc,
         \A m \in Sid : pc'[m] = pc[m] /\ call'[m] = call[m],
         \A m \in Sid : Running(m) => SameCore(loc[m].obj),
         \A k \in KAddr : kobj[k].live => kobj'[k].live /\ kobj'[k].sid = kobj[k].sid,
         \A a \in Addr : obj'[a].live => /\ obj[a].live /\ obj'[a].sid = obj[a].sid
                                         /\ obj'[a].kcp \in {obj[a].kcp, NULL},
         LoneGs'
  PROVE  LoneInv'
  <1>1. ASSUME NEW m \in Sid, Running(m)' PROVE Lone(m)'
    BY <1>1, RestingLone DEF Running
  <1>2. LoneDone'
    BY DEF LoneDone, LoneInv, OwnInv, PtrInv, LiveOwned
  <1> QED BY <1>1, <1>2 DEF LoneInv

\* Steps of the gameserver thread outside of close that free nothing.
LEMMA GsPlainLone ==
  ASSUME IInv, OwnInv, LoneInv, ~foreign',
         \/ \E c \in Client : RecvHandshake(c) \/ RecvBogus(c)
         \/ \E c \in Client, s \in Sid : RecvData(c, s) \/ RecvShutdown(c, s)
         \/ Push \/ Accept \/ LeaveLoop \/ Signal \/ ProcessExit
         \/ \E a \in Addr : PingLapses(a)
         \/ Delete("delete", "free") \/ Delete("stopDelete", "stopFree") \/ Stop
  PROVE  LoneInv'
  <1>t. TypeOK
    BY DEF IInv
  <1> USE DEF RecvHandshake, RecvBogus, RecvData, Push, Accept, LeaveLoop, Signal,
              ProcessExit, PingLapses, Arrives, GsAt, RecvShutdown, Delete, Stop
  <1>1. ~foreign /\ loc' = loc /\ slot' = slot
    BY <1>t DEF gsVars, TypeOK
  <1>2. /\ \A a \in Addr : SameCore(a)
        /\ \A k \in KAddr : kobj'[k].live = kobj[k].live /\ kobj'[k].sid = kobj[k].sid
    <2>1. obj' = obj \/ \E a \in Addr : obj' = [obj EXCEPT ![a].late = TRUE]
      BY DEF gsVars
    <2>2. ASSUME NEW a \in Addr, NEW b \in Addr, obj' = [obj EXCEPT ![b].late = TRUE]
          PROVE  SameCore(a)
      BY <2>2, <1>t DEF TypeOK, SessionObj, SameCore
    <2>3. \A k \in KAddr : kobj'[k].live = kobj[k].live /\ kobj'[k].sid = kobj[k].sid
      BY <1>t DEF TypeOK, KcpObj
    <2> QED BY <2>1, <2>2, <2>3 DEF SameCore
  <1>3. \A m \in Sid : pc'[m] = pc[m] /\ call'[m] = call[m]
    BY <1>t, SessionsAssumption DEF TypeOK, Actor, Goto, CallClose
  <1>4. LoneGs'
    <2>0. LoneGs
      BY <1>1 DEF LoneInv
    <2>1. CASE pc' = pc /\ call' = call /\ gslot' = gslot
      <3>1. pc[Gs] \in CloseLabels \cup {"free"} => slot[gslot] \in Addr
        BY <2>0, <1>t DEF LoneGs, IInv, GsPlace, GsHolds, TypeOK
      <3> QED BY <2>0, <2>1, <3>1, <1>1, <1>2 DEF LoneGs, SameCore
    <2>2. CASE \E l \in {"push", "idle", "accept", "create", "delete", "stop", "done"} :
                 pc' = [pc EXCEPT ![Gs] = l]
      BY <2>2, <1>t DEF LoneGs, TypeOK, Actor, CloseLabels
    <2>3. CASE Delete("delete", "free")
      <3>1. /\ pc'[Gs] = "closeTest" /\ call'[Gs].ret = "free" /\ obj' = obj /\ gslot' = gslot
            /\ pc[obj[slot[gslot]].sid] = "done"
        BY <2>3, <1>t DEF CallClose, Goto, TypeOK, Actor, gsVars
      <3>2. slot[gslot] \in Addr
        BY <2>3, <1>t DEF IInv, GsPlace, GsHolds, TypeOK
      <3>3. obj[slot[gslot]].sid \in Sid
        BY <3>2, <1>t, SessionsAssumption DEF TypeOK, OwnInv, PtrInv, SlotsGiven
      <3> QED BY <3>1, <3>3, <1>1, <1>3 DEF LoneGs
    <2>4. ~Delete("stopDelete", "stopFree")
      BY <2>0 DEF LoneGs
    <2> QED BY <2>1, <2>2, <2>3, <2>4 DEF Goto, gsVars
  <1>5. \A m \in Sid : Running(m) => loc[m].obj \in Addr
    BY <1>1, RunningPointers, SMTT(60)
  <1>6. /\ \A m \in Sid : Running(m) => SameCore(loc[m].obj)
        /\ \A a \in Addr : obj'[a].live => /\ obj[a].live /\ obj'[a].sid = obj[a].sid
                                           /\ obj'[a].kcp \in {obj[a].kcp, NULL}
    BY <1>2, <1>5 DEF SameCore
  <1> QED BY <1>1, <1>2, <1>3, <1>4, <1>6, GsStepLone

\* The session that the gameserver thread closes or frees has no thread.
LEMMA GsTarget ==
  ASSUME IInv, OwnInv, LoneInv, ~foreign, pc[Gs] \in CloseLabels \cup {"free"}
  PROVE  /\ slot[gslot] \in Addr /\ obj[slot[gslot]].live /\ obj[slot[gslot]].sid \in Sid
         /\ pc[obj[slot[gslot]].sid] = "done" /\ obj[slot[gslot]].kcp = NULL
         /\ pc[Gs] \in CloseLabels => Target(Gs) = slot[gslot] /\ call[Gs].ret = "free"
         /\ \A m \in Sid : Running(m) => loc[m].obj \in Addr /\ loc[m].obj # slot[gslot]
  <1>t. TypeOK /\ LoneGs /\ LoneDone
    BY DEF IInv, LoneInv
  <1>1. slot[gslot] \in Addr /\ obj[slot[gslot]].live
    <2>1. slot[gslot] \in Addr /\ slot[gslot] # NULL /\ gslot \in Slot
      BY <1>t, SessionsAssumption DEF LoneGs, IInv, GsPlace, GsHolds, TypeOK
    <2>2. ~SlotDangles(gslot)
      BY DEF SlotDangles, CloseLabels
    <2> QED BY <2>1, <2>2 DEF IInv, SlotsOwnSessions
  <1>2. /\ obj[slot[gslot]].sid \in Sid /\ pc[obj[slot[gslot]].sid] = "done"
        /\ obj[slot[gslot]].kcp = NULL
    BY <1>1, <1>t DEF OwnInv, PtrInv, LiveOwned, LoneGs, LoneDone
  <1>3. pc[Gs] \in CloseLabels => Target(Gs) = slot[gslot] /\ call[Gs].ret = "free"
    BY <1>t DEF LoneGs, OwnInv, PtrInv, GsCall
  <1>4. ASSUME NEW m \in Sid, Running(m) PROVE loc[m].obj \in Addr /\ loc[m].obj # slot[gslot]
    BY <1>2, <1>4, RunningPointers DEF Lone, SessionOk, Running
  <1> QED BY <1>1, <1>2, <1>3, <1>4

\* The destructor of a Session calls close.
LEMMA GsCloseLone ==
  ASSUME IInv, OwnInv, LoneInv, ~foreign, CloseStep(Gs), ~FollowNull
  PROVE  LoneInv'
  <1>t. TypeOK
    BY DEF IInv
  <1> USE DEF CloseStep, CloseTest, CloseKcp, CloseNull, ClosePlayer, SaveCrashes,
              ClosePlayerNull, CloseState
  <1>1. pc[Gs] \in CloseLabels
    BY DEF CloseLabels
  <1>2. /\ slot[gslot] \in Addr /\ obj[slot[gslot]].sid \in Sid
        /\ pc[obj[slot[gslot]].sid] = "done" /\ obj[slot[gslot]].kcp = NULL
        /\ Target(Gs) = slot[gslot] /\ call[Gs].ret = "free"
        /\ \A m \in Sid : Running(m) => loc[m].obj \in Addr /\ loc[m].obj # slot[gslot]
    BY <1>1, GsTarget
  <1>3. CloseWrites(Gs)
    BY CloseWriting DEF Actor
  <1>4. kobj' = kobj
    BY <1>2
  <1>5. /\ \A m \in Sid : pc'[m] = pc[m] /\ call'[m] = call[m]
        /\ (pc'[Gs] \in CloseLabels /\ call'[Gs] = call[Gs]) \/ pc'[Gs] = "free"
    BY <1>t, <1>2, SessionsAssumption DEF TypeOK, Actor, Goto, CloseLabels
  <1>6. LoneGs'
    BY <1>2, <1>3, <1>5 DEF LoneGs, CloseWrites, CloseLabels
  <1>7. /\ \A m \in Sid : Running(m) => SameCore(loc[m].obj)
        /\ \A a \in Addr : obj'[a].live => /\ obj[a].live /\ obj'[a].sid = obj[a].sid
                                           /\ obj'[a].kcp \in {obj[a].kcp, NULL}
    BY <1>2, <1>3 DEF CloseWrites
  <1> QED BY <1>3, <1>4, <1>5, <1>6, <1>7, GsStepLone DEF CloseWrites

\* It is freed after its thread has returned.
LEMMA FreeLone ==
  ASSUME IInv, OwnInv, LoneInv, ~foreign, Free("free", "clear") \/ Free("stopFree", "stopClear")
  PROVE  LoneInv'
  <1>t. TypeOK
    BY DEF IInv
  <1>0. pc[Gs] = "free"
    BY DEF LoneInv, LoneGs, Free, GsAt
  <1>1. /\ slot[gslot] \in Addr
        /\ \A m \in Sid : Running(m) => loc[m].obj \in Addr /\ loc[m].obj # slot[gslot]
    BY <1>0, GsTarget
  <1>2. /\ obj' = [obj EXCEPT ![slot[gslot]].live = FALSE]
        /\ pc' = [pc EXCEPT ![Gs] = "clear"]
        /\ UNCHANGED <<loc, call, kobj>>
    BY <1>0 DEF Free, GsAt, Goto
  <1>3. /\ \A a \in Addr : /\ a # slot[gslot] => SameCore(a)
                           /\ obj'[a].live => /\ obj[a].live /\ obj'[a].sid = obj[a].sid
                                              /\ obj'[a].kcp = obj[a].kcp
    <2>1. ASSUME NEW f \in [Addr -> SessionObj], NEW b \in Addr, NEW a \in Addr
          PROVE  /\ a # b => [f EXCEPT ![b].live = FALSE][a] = f[a]
                 /\ ~[f EXCEPT ![b].live = FALSE][b].live
      BY DEF SessionObj
    <2> QED BY <1>1, <1>2, <1>t, <2>1, ZenonT(60) DEF TypeOK, SameCore
  <1>4. pc'[Gs] = "clear" /\ \A m \in Sid : pc'[m] = pc[m] /\ call'[m] = call[m]
    BY <1>2, <1>t, SessionsAssumption DEF TypeOK, Actor
  <1>5. LoneGs'
    BY <1>4 DEF LoneGs, CloseLabels
  <1> QED BY <1>1, <1>2, <1>3, <1>4, <1>5, GsStepLone

\* Clearing the slot touches no object.
LEMMA ClearLone ==
  ASSUME IInv, OwnInv, LoneInv, ~foreign,
         ClearSlot("clear", "create") \/ ClearSlot("stopClear", "stop")
  PROVE  LoneInv'
  <1>t. TypeOK
    BY DEF IInv
  <1>1. /\ \E l \in {"create", "stop"} : pc' = [pc EXCEPT ![Gs] = l]
        /\ UNCHANGED <<obj, loc, call, kobj>>
    BY DEF ClearSlot, Goto
  <1>2. pc'[Gs] \in {"create", "stop"} /\ \A m \in Sid : pc'[m] = pc[m] /\ call'[m] = call[m]
    BY <1>1, <1>t, SessionsAssumption DEF TypeOK, Actor
  <1>3. LoneGs'
    BY <1>2 DEF LoneGs, CloseLabels
  <1>4. \A a : SameCore(a)
    BY <1>1 DEF SameCore
  <1> QED BY <1>1, <1>2, <1>3, <1>4, GsStepLone

\* A new session is its thread's alone.
LEMMA CreateLone ==
  ASSUME IInv, OwnInv, LoneInv, ~foreign, Create PROVE LoneInv'
  <1>t. TypeOK
    BY DEF IInv
  <1>0. PICK n \in NextSid, a \in Addr, k \in KAddr :
          /\ ~obj[a].live /\ ~kobj[k].live
          /\ obj' = [obj EXCEPT ![a] = [live |-> TRUE, sid |-> n, state |-> "TOKEN_WAIT",
                                        kcp |-> k, player |-> NULL, plive |-> FALSE,
                                        late |-> FALSE]]
          /\ kobj' = [kobj EXCEPT ![k] = [live |-> TRUE, sid |-> n, queue |-> 0]]
          /\ loc' = [loc EXCEPT ![n] = [obj |-> a, kcp |-> k, uid |-> NULL]]
          /\ pc' = [pc EXCEPT ![n] = "top", ![Gs] = "idle"]
    BY ZenonT(60) DEF Create
  <1>1. n \in Sid /\ n # Gs /\ pc[n] = "none" /\ call' = call
    BY SessionsAssumption DEF NextSid, Create
  <1>2. /\ obj'[a].live /\ obj'[a].sid = n /\ obj'[a].kcp = k /\ obj'[a].state = "TOKEN_WAIT"
        /\ \A b \in Addr \ {a} : obj'[b] = obj[b]
    BY <1>0, <1>t DEF TypeOK
  <1>3. /\ kobj'[k].live /\ kobj'[k].sid = n
        /\ \A j \in KAddr \ {k} : kobj'[j] = kobj[j]
    BY <1>0, <1>t DEF TypeOK
  <1>4. /\ loc'[n].obj = a /\ loc'[n].kcp = k
        /\ \A m \in Sid \ {n} : loc'[m] = loc[m]
    BY <1>0, <1>1, <1>t DEF TypeOK
  <1>5. /\ pc'[n] = "top" /\ pc'[Gs] = "idle"
        /\ \A m \in Sid \ {n} : pc'[m] = pc[m]
    BY <1>0, <1>1, <1>t, SessionsAssumption DEF TypeOK, Actor
  <1>6. ASSUME NEW m \in Sid, Running(m)' PROVE Lone(m)'
    <2>1. CASE m = n
      BY <2>1, <1>2, <1>3, <1>4, <1>5, SessionsAssumption DEF Lone, SessionOk, KcpOk, Serving,
         CloseLabels, TokenLabels
    <2>2. CASE m # n
      <3>1. Running(m) /\ pc'[m] = pc[m] /\ call'[m] = call[m] /\ loc'[m] = loc[m]
        BY <2>2, <1>1, <1>4, <1>5, <1>6 DEF Running
      <3>2. loc[m].obj \in Addr /\ loc[m].obj # a
        BY <3>1, <1>0, RunningPointers DEF Lone, SessionOk
      <3>3. SameCore(loc[m].obj)
        BY <3>2, <1>2 DEF SameCore
      <3>4. \A j \in KAddr : kobj[j].live /\ kobj[j].sid = m => kobj'[j].live /\ kobj'[j].sid = m
        BY <1>0, <1>3
      <3> QED BY <3>1, <3>3, <3>4, RestingLone
    <2> QED BY <2>1, <2>2
  <1>7. LoneGs'
    BY <1>5 DEF LoneGs, CloseLabels
  <1>8. LoneDone'
    <2> SUFFICES ASSUME NEW b \in Addr, obj'[b].live, pc'[obj'[b].sid] = "done"
                 PROVE  obj'[b].kcp = NULL
      BY DEF LoneDone
    <2>1. b # a
      BY <1>2, <1>5
    <2>2. obj'[b] = obj[b] /\ obj[b].sid \in Sid /\ obj[b].sid # n
      BY <2>1, <1>1, <1>2 DEF OwnInv, PtrInv, LiveOwned
    <2> QED BY <2>2, <1>5 DEF LoneInv, LoneDone
  <1> QED BY <1>6, <1>7, <1>8 DEF LoneInv

-----------------------------------------------------------------------------
\* Every step keeps the invariant: it speaks of states in which no thread
\* has closed another one's session yet.
LEMMA LoneNext ==
  ASSUME IInv, OwnInv, LoneInv, [Next]_vars PROVE LoneInv'
  <1>t. TypeOK
    BY DEF IInv
  <1> SUFFICES ASSUME ~foreign' PROVE LoneInv'
    BY DEF LoneInv
  <1>1. ASSUME NEW x \in Actor, CloseStep(x) PROVE LoneInv'
    <2>1. CASE FollowNull
      BY <2>1, FollowNullLone
    <2>2. CASE ~FollowNull
      <3>1. ~foreign
        BY <1>1, <2>2, CloseWriting DEF CloseWrites
      <3> QED BY <1>1, <2>2, <3>1, CloseSelfLone, GsCloseLone DEF Actor
    <2> QED BY <2>1, <2>2
  <1>2. CASE Receive
    BY <1>2, GsPlainLone DEF Receive
  <1>3. CASE GsWork
    <2>1. CASE Free("free", "clear") \/ Free("stopFree", "stopClear") \/ Create
      BY <2>1, FreeLone, CreateLone DEF Free, Create
    <2>2. CASE ClearSlot("clear", "create") \/ ClearSlot("stopClear", "stop")
      BY <2>2, ClearLone DEF ClearSlot
    <2> QED BY <1>1, <1>3, <2>1, <2>2, GsPlainLone DEF GsWork, Actor
  <1>4. CASE Signal \/ ProcessExit \/ \E a \in Addr : PingLapses(a)
    BY <1>4, GsPlainLone
  <1>5. ASSUME NEW n \in Sid, ThreadStep(n) PROVE LoneInv'
    BY <1>1, <1>5, ThreadLone DEF Actor
  <1>6. CASE UNCHANGED vars
    BY <1>6 DEF vars, gsVars, LoneInv, Running, Lone, LoneGs, LoneDone, SessionOk, KcpOk,
       Serving, Target
  <1> QED BY <1>2, <1>3, <1>4, <1>5, <1>6 DEF Next

(***************************************************************************)
(* A session thread never works with a dead pointer as long as no other    *)
(* thread closes or deletes a session that is being served: after its own  *)
(* close it leaves SessionMain without using the cached KcpSession.        *)
(***************************************************************************)
THEOREM LoneThreadsSafe == Spec => []LoneThreadSafe
  <1>1. Init => LoneInv
    BY InitLone
  <1>2. IInv /\ OwnInv /\ LoneInv /\ [Next]_vars => LoneInv'
    BY LoneNext
  <1>3. IInv /\ OwnInv /\ LoneInv => LoneThreadSafe
    BY LoneImplies
  <1> QED BY <1>1, <1>2, <1>3, InductiveInvariant, OwnershipInvariant, PTL DEF Spec

\* Only setState(LOGIN_WAIT), setState(ACTIVE) and a new session raise a state.
LEMMA StateLowers ==
  ASSUME IInv, Next, ~Create, \A n \in Sid : ~Attach(n) /\ ~Activate(n), NEW a \in Addr
  PROVE  obj'[a].state \in {obj[a].state, "NOT_CONNECTED"}
  <1>t. obj \in [Addr -> SessionObj]
    BY DEF IInv, TypeOK
  <1> DEFINE W(f, g) == g[a].state \in {f[a].state, "NOT_CONNECTED"}
  <1>1. ASSUME NEW f \in [Addr -> SessionObj], NEW b, NEW v
        PROVE  /\ W(f, [f EXCEPT ![b].kcp = v]) /\ W(f, [f EXCEPT ![b].player = v])
               /\ W(f, [f EXCEPT ![b].plive = v]) /\ W(f, [f EXCEPT ![b].late = v])
               /\ W(f, [f EXCEPT ![b].live = v])
               /\ W(f, [f EXCEPT ![b].state = "NOT_CONNECTED"])
    <2>1. W(f, [f EXCEPT ![b].kcp = v]) /\ W(f, [f EXCEPT ![b].player = v])
      BY DEF SessionObj
    <2>2. W(f, [f EXCEPT ![b].plive = v]) /\ W(f, [f EXCEPT ![b].late = v])
      BY DEF SessionObj
    <2>3. W(f, [f EXCEPT ![b].live = v]) /\ W(f, [f EXCEPT ![b].state = "NOT_CONNECTED"])
      BY DEF SessionObj
    <2> QED BY <2>1, <2>2, <2>3
  <1> DEFINE Wr == \/ obj' = obj
                   \/ \E b, v : obj' = [obj EXCEPT ![b].kcp = v]
                   \/ \E b, v : obj' = [obj EXCEPT ![b].player = v]
                   \/ \E b, v : obj' = [obj EXCEPT ![b].plive = v]
                   \/ \E b, v : obj' = [obj EXCEPT ![b].late = v]
                   \/ \E b, v : obj' = [obj EXCEPT ![b].live = v]
                   \/ \E b : obj' = [obj EXCEPT ![b].state = "NOT_CONNECTED"]
  <1>2. Wr
    <2>1. CASE Receive \/ Signal \/ ProcessExit
      BY <2>1, Zenon DEF Receive, RecvHandshake, RecvBogus, RecvData, RecvShutdown, Signal, ProcessExit
    <2>2. CASE \E b \in Addr : PingLapses(b)
      BY <2>2, Zenon DEF PingLapses
    <2>3. ASSUME NEW x \in Actor, CloseStep(x) PROVE Wr
      BY <2>3, Zenon DEF CloseStep, CloseTest, CloseKcp, CloseNull, ClosePlayer, SaveCrashes,
         ClosePlayerNull, CloseState, FollowNull
    <2>4. CASE GsWork /\ ~CloseStep(Gs)
      BY <2>4, Zenon DEF GsWork, Push, Accept, Delete, Free, ClearSlot, LeaveLoop, Stop
    <2>5. ASSUME NEW n \in Sid, ThreadStep(n), ~CloseStep(n) PROVE Wr
      BY <2>5, Zenon DEF ThreadStep, Token, Login, Top, Recv, Ignored, TokenRefused, TokenRejected,
       TokenNewPlayer, TokenKnownPlayer, Kick, LoginRefused, LoginRejected, LoginAccepted, OnLogin,
       Notify, PingReq, SceneReq, SceneNotify, Reply, HandlerError, Fail,
       Update, Ping, Exit, SendPacket, SendFromPlayer, FollowNull
    <2> QED BY <2>1, <2>2, <2>3, <2>4, <2>5 DEF Next, Actor
  <1>3. W(obj, obj)
    OBVIOUS
  <1>4. ASSUME NEW b, NEW v
        PROVE  /\ W(obj, [obj EXCEPT ![b].kcp = v]) /\ W(obj, [obj EXCEPT ![b].player = v])
               /\ W(obj, [obj EXCEPT ![b].plive = v]) /\ W(obj, [obj EXCEPT ![b].late = v])
               /\ W(obj, [obj EXCEPT ![b].live = v])
               /\ W(obj, [obj EXCEPT ![b].state = "NOT_CONNECTED"])
    BY <1>t, <1>1
  <1> HIDE DEF W
  <1>5. W(obj, obj')
    <2>1. CASE obj' = obj
      BY <2>1, <1>3
    <2>2. CASE \E b, v : obj' = [obj EXCEPT ![b].kcp = v]
      <3>1. PICK b, v : obj' = [obj EXCEPT ![b].kcp = v]
        BY <2>2
      <3>2. W(obj, [obj EXCEPT ![b].kcp = v])
        BY <1>4
      <3> QED BY <3>1, <3>2, Zenon
    <2>3. CASE \E b, v : obj' = [obj EXCEPT ![b].player = v]
      <3>1. PICK b, v : obj' = [obj EXCEPT ![b].player = v]
        BY <2>3
      <3>2. W(obj, [obj EXCEPT ![b].player = v])
        BY <1>4
      <3> QED BY <3>1, <3>2, Zenon
    <2>4. CASE \E b, v : obj' = [obj EXCEPT ![b].plive = v]
      <3>1. PICK b, v : obj' = [obj EXCEPT ![b].plive = v]
        BY <2>4
      <3>2. W(obj, [obj EXCEPT ![b].plive = v])
        BY <1>4
      <3> QED BY <3>1, <3>2, Zenon
    <2>5. CASE \E b, v : obj' = [obj EXCEPT ![b].late = v]
      <3>1. PICK b, v : obj' = [obj EXCEPT ![b].late = v]
        BY <2>5
      <3>2. W(obj, [obj EXCEPT ![b].late = v])
        BY <1>4
      <3> QED BY <3>1, <3>2, Zenon
    <2>6. CASE \E b, v : obj' = [obj EXCEPT ![b].live = v]
      <3>1. PICK b, v : obj' = [obj EXCEPT ![b].live = v]
        BY <2>6
      <3>2. W(obj, [obj EXCEPT ![b].live = v])
        BY <1>4
      <3> QED BY <3>1, <3>2, Zenon
    <2>7. CASE \E b : obj' = [obj EXCEPT ![b].state = "NOT_CONNECTED"]
      BY <2>7, <1>4
    <2> QED BY <1>2, <2>1, <2>2, <2>3, <2>4, <2>5, <2>6, <2>7
  <1> QED BY <1>5 DEF W

\* No step reopens a closed session while only its own thread closes it.
LEMMA ClosedStep ==
  ASSUME IInv, OwnInv, LoneInv, Next, ~foreign', NEW a \in Addr,
         obj[a].live, obj[a].state = "NOT_CONNECTED", obj'[a].live
  PROVE  obj'[a].state = "NOT_CONNECTED"
  <1>t. TypeOK
    BY DEF IInv
  <1>1. CASE Create
    BY <1>1, <1>t DEF Create, TypeOK
  <1>2. ASSUME NEW n \in Sid, Attach(n) \/ Activate(n)
        PROVE  obj'[a].state = "NOT_CONNECTED"
    <2>1. ~foreign /\ pc[n] \in TokenLabels /\ Running(n)
      BY <1>2 DEF Attach, Activate, ThreadAt, TokenLabels, Running
    <2>2. Serving(n).state # "NOT_CONNECTED"
      BY <2>1, RunningPointers DEF Lone
    <2>3. \E e : obj' = [obj EXCEPT ![loc[n].obj] = e]
      BY <1>2, Zenon DEF Attach, Activate
    <2>4. a # loc[n].obj
      BY <2>2 DEF Serving
    <2> QED BY <2>3, <2>4, <1>t DEF TypeOK
  <1> QED BY <1>1, <1>2, StateLowers

(***************************************************************************)
(* Closing is final as long as each session is closed by its own thread:   *)
(* no setState of a handler brings a session back, so a slot that accept   *)
(* found free stays free.                                                  *)
(***************************************************************************)
THEOREM ClosingIsFinal == Spec => ClosedStaysClosed
  <1>1. Init => LoneInv
    BY InitLone
  <1>2. IInv /\ OwnInv /\ LoneInv /\ [Next]_vars => LoneInv'
    BY LoneNext
  <1>3. IInv /\ OwnInv /\ LoneInv /\ [Next]_vars =>
          [\A a \in Addr :
             ~foreign' /\ obj[a].live /\ obj[a].state = "NOT_CONNECTED" /\ obj'[a].live
               => obj'[a].state = "NOT_CONNECTED"]_vars
    BY ClosedStep
  <1> QED BY <1>1, <1>2, <1>3, InductiveInvariant, OwnershipInvariant, PTL
          DEF Spec, ClosedStaysClosed
=============================================================================
