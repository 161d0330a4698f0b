--------------------------- MODULE AccountsProofs ---------------------------
(***************************************************************************)
(* Proofs about Accounts, for any number of accounts, players, names,      *)
(* session threads, tokens and crashes.                                    *)
(***************************************************************************)
EXTENDS Accounts, Induction

(***************************************************************************)
(* What the copies of the threads are at each place: beside the types, the *)
(* parts of the inductive invariant that never depend on the database.     *)
(***************************************************************************)

\* An endpoint keeps the name, and the combo token unless it answers one.
DispOK ==
  /\ disp.pc \in {"idle", "save"}
  /\ disp.pc = "save" =>
       /\ disp.aid \in Aid /\ disp.seen \in Account /\ disp.acc \in Account
       /\ disp.acc.name = disp.seen.name
       /\ \/ disp.acc.combo = disp.seen.combo
          \/ disp.answer = disp.acc.combo /\ disp.answer # NoToken

\* The console saves a second time what it saved or read.
ConsOK ==
  /\ cons.pc # "save"
  /\ cons.pc = "alloc" => cons.name \in Name
  /\ cons.pc \in {"saveNew", "saveIds", "resave"} => cons.aid \in Aid /\ cons.acc \in Account
  /\ cons.pc \in {"saveIds", "resave"} => cons.seen = cons.acc
  /\ cons.pc = "saveNew" => cons.acc.combo = NoToken
  /\ cons.pc = "delete" => cons.aid \in Aid

\* A session has an account, and a player once it was found or made.
SessOK ==
  \A t \in Thread :
    /\ sess[t].pc \in {"none", "find", "alloc"} => sess[t].uid = NULL
    /\ sess[t].pc \notin {"none", "find", "alloc"} => sess[t].uid \in Uid
    /\ sess[t].pc # "none" => sess[t].aid \in Aid

TypeInv == TypeOK /\ DispOK /\ ConsOK /\ SessOK

\* At the start every record is absent and every thread idle.
LEMMA TypeInit == Init => TypeInv
<1> SUFFICES ASSUME Init
             PROVE  TypeInv
  OBVIOUS
<1> USE AccountsAssumption, RecordAssumption DEF NoToken, Token, Aid, Uid
<1>1. Idle \in Work /\ Idle.pc = "idle" /\ NoSession \in Session
      /\ [aid |-> 0, uid |-> 0] \in Ids
  BY DEF Idle, Work, NoSession, Session, NoPlayer, Player, Ids
<1>2. TypeOK
  <2>1. acct \in [Aid -> Account \cup {NULL}] /\ plyr \in [Uid -> Player \cup {NULL}]
        /\ inv \in [Uid -> BOOLEAN] /\ latest \in [Aid -> Token \cup {NoToken}]
        /\ sess \in [Thread -> Session]
    BY <1>1 DEF Init
  <2>2. drawn \in 0..MaxTokens /\ logins \in 0..MaxLogins /\ crashes \in 0..MaxCrashes
    BY DEF Init
  <2> QED
    BY <1>1, <2>1, <2>2 DEF Init, TypeOK
<1>3. DispOK /\ ConsOK
  BY <1>1 DEF Init, DispOK, ConsOK
<1>4. SessOK
  BY DEF Init, SessOK, NoSession
<1> QED
  BY <1>2, <1>3, <1>4 DEF TypeInv

\* A step of the dispatch server leaves the others' copies alone, and what
\* failed stays recorded.
LEMMA DispatchFrame ==
  ASSUME Dispatch
  PROVE  /\ UNCHANGED <<plyr, inv, diskIds, nextIds, cons, sess, hisVars>>
         /\ failed => failed'
<1>1. ASSUME NEW a, NEW acc, NEW answer, DispatchWith(a, acc, answer)
      PROVE  UNCHANGED <<plyr, inv, diskIds, nextIds, cons, sess, hisVars, failed>>
  BY <1>1 DEF DispatchWith, dbVars
<1>2. CASE DispatchSave
  BY <1>2 DEF DispatchSave, Put
<1>3. CASE \E a \in Aid : \/ ActionTicket(a) \/ BindRealname(a)
                         \/ \E guest \in BOOLEAN : Login(a, guest) \/ Combo(a, guest)
  <2>1. \E a, acc, answer : DispatchWith(a, acc, answer)
    BY <1>3, Zenon DEF ActionTicket, BindRealname, Login, Combo
  <2> QED
    BY <1>1, <2>1
<1> QED
  BY <1>2, <1>3, Zenon DEF Dispatch

\* The endpoints of the dispatch server.
LEMMA TypeDispatch ==
  ASSUME TypeInv, Dispatch
  PROVE  TypeInv'
<1> USE AccountsAssumption, RecordAssumption DEF TypeInv, TypeOK, DispOK, NoToken, Token
<1>a. UNCHANGED <<plyr, inv, diskIds, nextIds, cons, sess, hisVars>>
  BY DispatchFrame
<1>b. ConsOK' /\ SessOK'
  BY <1>a DEF ConsOK, SessOK
<1>1. ASSUME NEW a \in Aid, NEW acc \in Account, NEW answer \in Token \cup {NoToken},
             acct[a] # NULL, acc.name = acct[a].name,
             acc.combo = acct[a].combo \/ (answer = acc.combo /\ answer # NoToken),
             drawn' \in 0..MaxTokens,
             DispatchWith(a, acc, answer)
      PROVE  TypeInv'
  <2>1. acct[a] \in Account
    BY <1>1
  <2>2. disp' \in Work /\ disp'.pc = "save" /\ disp'.aid = a /\ disp'.seen = acct[a]
        /\ disp'.acc = acc /\ disp'.answer = answer
    BY <1>1, <2>1 DEF DispatchWith, Idle, Work
  <2>3. TypeOK'
    BY <1>1, <1>a, <2>2 DEF DispatchWith, dbVars, hisVars
  <2>4. DispOK'
    BY <1>1, <2>1, <2>2
  <2> QED
    BY <2>3, <2>4, <1>b
<1>2. ASSUME NEW a \in Aid, acct[a] # NULL, CanDraw
      PROVE  /\ Draw \in Token /\ Draw # NoToken /\ Draw \in 0..MaxTokens
             /\ [acct[a] EXCEPT !.auth = Draw] \in Account
             /\ [acct[a] EXCEPT !.combo = Draw] \in Account
             /\ [acct[a] EXCEPT !.ticket = Draw] \in Account
             /\ acct[a] \in Account
  <2>1. acct[a] \in Account
    BY <1>2
  <2>2. Draw \in Token /\ Draw # NoToken /\ Draw \in 0..MaxTokens
    BY <1>2 DEF CanDraw, Draw
  <2> QED
    BY <2>1, <2>2 DEF Account
<1>3. ASSUME NEW a \in Aid, NEW guest \in BOOLEAN, Login(a, guest)
      PROVE  TypeInv'
  <2> DEFINE acc == [acct[a] EXCEPT !.auth = Draw]
  <2>1. acct[a] # NULL /\ CanDraw
    BY <1>3 DEF Login
  <2>2. acc \in Account /\ acc.name = acct[a].name /\ acc.combo = acct[a].combo
        /\ (IF guest THEN NoToken ELSE Draw) \in Token \cup {NoToken}
    BY <2>1, <1>2, ZenonT(60) DEF Account
  <2>3. drawn' \in 0..MaxTokens /\ DispatchWith(a, acc, IF guest THEN NoToken ELSE Draw)
    BY <2>1, <1>2, <1>3 DEF Login
  <2> HIDE DEF acc
  <2> QED
    BY <2>1, <2>2, <2>3, <1>1
<1>4. ASSUME NEW a \in Aid, NEW guest \in BOOLEAN, Combo(a, guest)
      PROVE  TypeInv'
  <2> DEFINE acc == [acct[a] EXCEPT !.combo = Draw]
  <2>1. acct[a] # NULL /\ CanDraw
    BY <1>4 DEF Combo
  <2>2. acc \in Account /\ acc.name = acct[a].name /\ acc.combo = Draw
        /\ Draw \in Token \cup {NoToken} /\ Draw # NoToken
    BY <2>1, <1>2, ZenonT(60) DEF Account
  <2>3. drawn' \in 0..MaxTokens /\ DispatchWith(a, acc, Draw)
    BY <2>1, <1>2, <1>4 DEF Combo
  <2> HIDE DEF acc
  <2> QED
    BY <2>1, <2>2, <2>3, <1>1
<1>5. ASSUME NEW a \in Aid, ActionTicket(a)
      PROVE  TypeInv'
  <2> DEFINE acc == [acct[a] EXCEPT !.ticket = Draw]
  <2>1. acct[a] # NULL /\ CanDraw
    BY <1>5 DEF ActionTicket, AuthMatches
  <2>2. acc \in Account /\ acc.name = acct[a].name /\ acc.combo = acct[a].combo
        /\ Draw \in Token \cup {NoToken}
    BY <2>1, <1>2, ZenonT(60) DEF Account
  <2>3. drawn' \in 0..MaxTokens /\ DispatchWith(a, acc, Draw)
    BY <2>1, <1>2, <1>5 DEF ActionTicket
  <2> HIDE DEF acc
  <2> QED
    BY <2>1, <2>2, <2>3, <1>1
<1>6. ASSUME NEW a \in Aid, BindRealname(a)
      PROVE  TypeInv'
  <2>1. acct[a] # NULL /\ acct[a] \in Account
    BY <1>6 DEF BindRealname
  <2>2. drawn' \in 0..MaxTokens /\ DispatchWith(a, acct[a], NoToken)
    BY <1>6 DEF BindRealname
  <2> QED
    BY <2>1, <2>2, <1>1
<1>7. CASE DispatchSave
  <2>1. disp' = Idle /\ drawn' = drawn /\ disp.aid \in Aid /\ disp.acc \in Account
    BY <1>7 DEF DispatchSave
  <2>2. DispOK' /\ disp' \in Work
    BY <2>1 DEF Idle, Work
  <2>3. acct' \in [Aid -> Account \cup {NULL}] /\ failed' \in BOOLEAN
    BY <1>7, <2>1 DEF DispatchSave, Put
  <2>4. raced' \in BOOLEAN
    BY <1>7 DEF DispatchSave
  <2>5. disp.answer \in Token \cup {NoToken}
    BY DEF Work
  <2>6. given' \subseteq Token /\ latest' \in [Aid -> Token \cup {NoToken}]
    BY <1>7, <2>1, <2>5 DEF DispatchSave, Answer
  <2> QED
    BY <2>1, <2>2, <2>3, <2>4, <2>6, <1>a, <1>b DEF hisVars
<1> QED
  BY <1>3, <1>4, <1>5, <1>6, <1>7 DEF Dispatch

\* A step of the console leaves the others' copies alone.
LEMMA ConsoleFrame ==
  Console => UNCHANGED <<plyr, inv, disp, sess, drawn, given, hisVars>>
BY DEF Console, Create, CreateAlloc, CreateSave, CreateSaveIds, CreateResave, DeleteFind,
       Delete, dbVars, tokVars

\* The console commands account create and account delete.
LEMMA TypeConsole == TypeInv /\ Console => TypeInv'
<1> SUFFICES ASSUME TypeInv, Console
             PROVE  TypeInv'
  OBVIOUS
<1> USE AccountsAssumption, RecordAssumption DEF TypeInv, NoToken, Token
<1>a. DispOK' /\ SessOK'
  BY ConsoleFrame DEF DispOK, SessOK
<1>b. ASSUME acct' \in [Aid -> Account \cup {NULL}], diskIds' \in Ids, nextIds' \in Ids,
             cons' \in Work, latest' \in [Aid -> Token \cup {NoToken}],
             failed' \in BOOLEAN, raced' \in BOOLEAN
      PROVE  TypeOK'
  BY <1>b, ConsoleFrame DEF TypeOK, hisVars
<1>1. ASSUME NEW n \in Name, Create(n)
      PROVE  TypeInv'
  <2>1. UNCHANGED <<acct, diskIds, nextIds, latest, failed, raced>>
    BY <1>1 DEF Create, dbVars, tokVars
  <2>2. CASE cons' = [Idle EXCEPT !.pc = "alloc", !.name = n]
    <3>1. cons' \in Work /\ cons'.pc = "alloc" /\ cons'.name = n
      BY <2>2 DEF Idle, Work
    <3> QED
      BY <1>a, <1>b, <2>1, <3>1 DEF TypeOK, ConsOK
  <2>3. ASSUME NEW a \in Named(n),
               cons' = [Idle EXCEPT !.pc = "resave", !.aid = a, !.seen = acct[a], !.acc = acct[a]]
        PROVE  TypeInv'
    <3>1. a \in Aid /\ acct[a] \in Account
      BY DEF Named, TypeOK
    <3>2. cons' \in Work /\ cons'.pc = "resave" /\ cons'.aid = a /\ cons'.seen = acct[a]
          /\ cons'.acc = acct[a]
      BY <2>3, <3>1 DEF Idle, Work
    <3> QED
      BY <1>a, <1>b, <2>1, <3>1, <3>2 DEF TypeOK, ConsOK
  <2> QED
    BY <1>1, <2>2, <2>3 DEF Create
<1>2. CASE CreateAlloc
  <2>1. PICK a \in FirstFree(acct, Aid, StartAt(nextIds.aid)) :
          /\ nextIds' = [nextIds EXCEPT !.aid = a]
          /\ cons' = [cons EXCEPT !.pc = "saveNew", !.aid = a,
                               !.acc = [name |-> cons.name, auth |-> NoToken,
                                        combo |-> NoToken, ticket |-> NoToken]]
    BY <1>2 DEF CreateAlloc
  <2>2. a \in Aid
    BY DEF FirstFree
  <2>3. cons.name \in Name /\ cons \in Work
    BY <1>2 DEF CreateAlloc, ConsOK, TypeOK
  <2> DEFINE acc == [name |-> cons.name, auth |-> NoToken, combo |-> NoToken, ticket |-> NoToken]
  <2>4. acc \in Account /\ acc.combo = NoToken
    BY <2>3 DEF Account
  <2> HIDE DEF acc
  <2>5. cons' = [cons EXCEPT !.pc = "saveNew", !.aid = a, !.acc = acc]
    BY <2>1 DEF acc
  <2>6. cons' \in Work /\ cons'.pc = "saveNew" /\ cons'.aid = a /\ cons'.acc = acc
    BY <2>2, <2>3, <2>4, <2>5 DEF Work
  <2>7. nextIds' \in Ids
    BY <2>1, <2>2, SMTT(60) DEF TypeOK, Ids, Aid
  <2>8. UNCHANGED <<acct, diskIds, latest, failed, raced>>
    BY <1>2 DEF CreateAlloc, dbVars, tokVars
  <2> QED
    BY <1>a, <1>b, <2>2, <2>4, <2>6, <2>7, <2>8 DEF TypeOK, ConsOK
<1>3. CASE CreateSave
  <2>1. cons.pc = "saveNew" /\ cons.aid \in Aid /\ cons.acc \in Account /\ cons \in Work
    BY <1>3 DEF CreateSave, ConsOK, TypeOK
  <2>2. cons' \in Work /\ cons'.pc = "saveIds" /\ cons'.seen = cons.acc
        /\ cons'.acc = cons.acc /\ cons'.aid = cons.aid
    BY <1>3, <2>1 DEF CreateSave, Work
  <2>3. acct' \in [Aid -> Account \cup {NULL}] /\ failed' \in BOOLEAN
    BY <1>3, <2>1 DEF CreateSave, Put, TypeOK
  <2>4. latest' \in [Aid -> Token \cup {NoToken}] /\ UNCHANGED <<diskIds, nextIds, raced>>
    BY <1>3 DEF CreateSave, TypeOK
  <2> QED
    BY <1>a, <1>b, <2>1, <2>2, <2>3, <2>4 DEF TypeOK, ConsOK
<1>4. CASE CreateSaveIds
  <2>1. cons.pc = "saveIds" /\ cons \in Work
    BY <1>4 DEF CreateSaveIds, TypeOK
  <2>2. cons' \in Work /\ cons'.pc = "resave" /\ cons'.seen = cons.seen
        /\ cons'.acc = cons.acc /\ cons'.aid = cons.aid
    BY <1>4, <2>1 DEF CreateSaveIds, Work
  <2>3. diskIds' \in Ids /\ failed' \in BOOLEAN
    BY <1>4 DEF CreateSaveIds, PutIds, TypeOK
  <2>4. UNCHANGED <<acct, nextIds, latest, raced>>
    BY <1>4 DEF CreateSaveIds, tokVars
  <2> QED
    BY <1>a, <1>b, <2>1, <2>2, <2>3, <2>4 DEF TypeOK, ConsOK
<1>5. ASSUME cons' = Idle
      PROVE  cons' \in Work /\ ConsOK'
  BY <1>5 DEF Idle, Work, ConsOK
<1>6. CASE CreateResave
  <2>1. acct' \in [Aid -> Account \cup {NULL}] /\ failed' \in BOOLEAN
    BY <1>6 DEF CreateResave, Put, TypeOK, ConsOK
  <2>2. raced' \in BOOLEAN /\ UNCHANGED <<diskIds, nextIds, latest>> /\ cons' = Idle
    BY <1>6 DEF CreateResave, TypeOK, tokVars
  <2> QED
    BY <1>a, <1>b, <1>5, <2>1, <2>2 DEF TypeOK
<1>7. ASSUME NEW a \in Aid, DeleteFind(a)
      PROVE  TypeInv'
  <2>1. cons' \in Work /\ cons'.pc = "delete" /\ cons'.aid = a
    BY <1>7 DEF DeleteFind, Idle, Work
  <2>2. UNCHANGED <<acct, diskIds, nextIds, latest, failed, raced>>
    BY <1>7 DEF DeleteFind, dbVars, tokVars
  <2> QED
    BY <1>a, <1>b, <2>1, <2>2 DEF TypeOK, ConsOK
<1>8. CASE Delete
  <2>1. acct' \in [Aid -> Account \cup {NULL}] /\ failed' \in BOOLEAN
    BY <1>8 DEF Delete, Put, TypeOK
  <2>2. latest' \in [Aid -> Token \cup {NoToken}] /\ UNCHANGED <<diskIds, nextIds, raced>>
        /\ cons' = Idle
    BY <1>8 DEF Delete, TypeOK
  <2> QED
    BY <1>a, <1>b, <1>5, <2>1, <2>2 DEF TypeOK
<1> QED
  BY <1>1, <1>2, <1>3, <1>4, <1>6, <1>7, <1>8 DEF Console
\* A session thread leaves accounts and the other kinds of thread alone.
LEMMA SessionFrame ==
  ASSUME NEW t \in Thread, SessionStep(t)
  PROVE  UNCHANGED <<acct, disp, cons, tokVars, raced>>
BY ZenonT(60) DEF SessionStep, TokenReq, FindPlayer, Kick, Kicked, Attach, OnLogin, Play, Close,
       SavePlayer, NewPlayer, NewPlayerSave, NewPlayerSaveIds, Own, dbVars

\* What a session's record has to be.
SessionOK(s) ==
  /\ s \in Session
  /\ s.pc \in {"none", "find", "alloc"} => s.uid = NULL
  /\ s.pc \notin {"none", "find", "alloc"} => s.uid \in Uid
  /\ s.pc # "none" => s.aid \in Aid

\* The ways in which a session's record changes keep it in shape.
LEMMA SessionRecords ==
  ASSUME NEW s, SessionOK(s)
  PROVE  /\ SessionOK(NoSession)
         /\ \A a \in Aid : s.pc = "none" => SessionOK([s EXCEPT !.pc = "find", !.aid = a])
         /\ s.pc = "find" => SessionOK([s EXCEPT !.pc = "alloc"])
         /\ \A u \in Uid, p \in Player :
              s.pc = "find" => SessionOK([s EXCEPT !.pc = "kick", !.uid = u, !.player = p])
         /\ \A u \in Uid : s.pc = "alloc" => SessionOK([s EXCEPT !.pc = "saveNew", !.uid = u])
         /\ s.pc \notin {"none", "find", "alloc"} =>
              /\ \A p \in {"kicked", "saveIds", "own", "attach", "playing", "player"} :
                   SessionOK([s EXCEPT !.pc = p])
              /\ \A p \in Player : SessionOK([s EXCEPT !.pc = "attach", !.player = p])
              /\ SessionOK([s EXCEPT !.player.team = TRUE])
              /\ s.player.progress < MaxProgress =>
                   SessionOK([s EXCEPT !.player.progress = @ + 1])
<1> USE AccountsAssumption DEF SessionOK
<1>1. SessionOK(NoSession)
  BY DEF NoSession, Session, NoPlayer, Player
<1>2. \A a \in Aid : s.pc = "none" => SessionOK([s EXCEPT !.pc = "find", !.aid = a])
  BY DEF Session
<1>3. s.pc = "find" => SessionOK([s EXCEPT !.pc = "alloc"])
  BY DEF Session
<1>4. \A u \in Uid, p \in Player :
        s.pc = "find" => SessionOK([s EXCEPT !.pc = "kick", !.uid = u, !.player = p])
  BY DEF Session
<1>5. \A u \in Uid : s.pc = "alloc" => SessionOK([s EXCEPT !.pc = "saveNew", !.uid = u])
  BY DEF Session
<1>6. ASSUME s.pc \notin {"none", "find", "alloc"}
      PROVE  \A p \in {"kicked", "saveIds", "own", "attach", "playing", "player"} :
               SessionOK([s EXCEPT !.pc = p])
  BY <1>6 DEF Session
<1>7. ASSUME s.pc \notin {"none", "find", "alloc"}
      PROVE  \A p \in Player : SessionOK([s EXCEPT !.pc = "attach", !.player = p])
  BY <1>7 DEF Session
<1>8. s.player \in Player
  BY DEF Session
<1>9. ASSUME s.pc \notin {"none", "find", "alloc"}, NEW p \in Player
      PROVE  SessionOK([s EXCEPT !.player = p])
  BY <1>9 DEF Session
<1>10. [s.player EXCEPT !.team = TRUE] \in Player
  BY <1>8 DEF Player
<1>11. s.player.progress < MaxProgress => [s.player EXCEPT !.progress = @ + 1] \in Player
  BY <1>8 DEF Player
<1> QED
  BY <1>1, <1>2, <1>3, <1>4, <1>5, <1>6, <1>7, <1>9, <1>10, <1>11

\* The Player that newPlayer saves.
LEMMA NoPlayerIsPlayer == NoPlayer \in Player /\ NoPlayer # NULL
<1>1. NoPlayer \in Player
  BY AccountsAssumption DEF NoPlayer, Player
<1> QED
  BY <1>1, RecordAssumption

\* The steps of a session thread, from the token request to the save.
LEMMA TypeSession ==
  ASSUME TypeInv, NEW t \in Thread, SessionStep(t)
  PROVE  TypeInv'
<1> USE AccountsAssumption, RecordAssumption
<1> DEFINE s == sess[t]
<1>a. DispOK' /\ ConsOK'
  BY SessionFrame DEF TypeInv, DispOK, ConsOK
<1>b. \A x \in Thread : SessionOK(sess[x])
  BY DEF TypeInv, TypeOK, SessOK, SessionOK
<1>c. ASSUME plyr' \in [Uid -> Player \cup {NULL}], inv' \in [Uid -> BOOLEAN],
             diskIds' \in Ids, nextIds' \in Ids, sess' \in [Thread -> Session],
             \A x \in Thread : SessionOK(sess'[x]),
             logins' \in 0..MaxLogins, crashes' = crashes,
             failed' \in BOOLEAN, crowded' \in BOOLEAN, shared' \in BOOLEAN
      PROVE  TypeInv'
  <2>1. TypeOK'
    BY <1>c, SessionFrame DEF TypeInv, TypeOK, tokVars
  <2>2. SessOK'
    BY <1>c DEF SessOK, SessionOK
  <2> QED
    BY <1>a, <2>1, <2>2 DEF TypeInv
<1>d. ASSUME NEW r, SessionOK(r), sess' = [sess EXCEPT ![t] = r]
      PROVE  sess' \in [Thread -> Session] /\ \A x \in Thread : SessionOK(sess'[x])
  BY <1>b, <1>d DEF TypeInv, TypeOK, SessionOK
<1>e. ASSUME NEW u, NEW p \in Player, Put(u, p, plyr)
      PROVE  plyr' \in [Uid -> Player \cup {NULL}] /\ failed' \in BOOLEAN
  BY <1>e, ZenonT(60) DEF Put, TypeInv, TypeOK
<1>f. ASSUME NEW x \in Thread, BeginSave(x)
      PROVE  plyr' \in [Uid -> Player \cup {NULL}] /\ failed' \in BOOLEAN /\ inv' \in [Uid -> BOOLEAN]
  <2>1. sess[x].player \in Player
    BY SMTT(60) DEF TypeInv, TypeOK, Session
  <2> QED
    BY <1>f, <2>1 DEF BeginSave, Put, TypeInv, TypeOK
<1>g. ASSUME NEW x \in Thread, sess[x].pc = "playing"
      PROVE  SessionOK(Begun(x))
  BY <1>b, <1>g, SessionRecords DEF Begun
<1>h. SessionOK(s) /\ s \in Session /\ sess \in [Thread -> Session]
  BY <1>b DEF TypeInv, TypeOK
<1>i. NoPlayer \in Player
  BY NoPlayerIsPlayer
<1>1. ASSUME NEW a \in Aid, TokenReq(t, a)
      PROVE  TypeInv'
  <2>1. sess' = [sess EXCEPT ![t] = [s EXCEPT !.pc = "find", !.aid = a]]
    BY <1>1, <1>h DEF TokenReq
  <2>2. SessionOK([s EXCEPT !.pc = "find", !.aid = a])
    BY <1>1, <1>h, SessionRecords DEF TokenReq
  <2>3. logins' \in 0..MaxLogins /\ crowded' \in BOOLEAN
    BY <1>1 DEF TokenReq, TypeInv, TypeOK
  <2> QED
    BY <1>1, <1>c, <1>d, <2>1, <2>2, <2>3 DEF TokenReq, TypeInv, TypeOK, dbVars
<1>2. CASE FindPlayer(t)
  <2>1. UNCHANGED <<plyr, inv, diskIds, nextIds, logins, crashes, crowded, failed>>
    BY <1>2 DEF FindPlayer, dbVars
  <2>2. ASSUME NEW u \in PlayerOf(s.aid), NEW p, 
               p = [aid |-> IF acct[s.aid] = NULL THEN NULL ELSE s.aid,
                    progress |-> plyr[u].progress, team |-> FALSE],
               sess' = [sess EXCEPT ![t].pc = "kick", ![t].uid = u, ![t].player = p],
               shared' = (shared \/ \E x \in Thread \ {t} : sess[x].uid = u)
        PROVE  TypeInv'
    <3>1. u \in Uid /\ plyr[u] \in Player /\ s.aid \in Aid
      BY <1>2, <1>h DEF PlayerOf, TypeInv, TypeOK, FindPlayer, SessionOK
    <3>2. p \in Player
      BY <2>2, <3>1 DEF Player
    <3>3. sess' = [sess EXCEPT ![t] = [s EXCEPT !.pc = "kick", !.uid = u, !.player = p]]
      BY <2>2, <1>h
    <3>4. SessionOK([s EXCEPT !.pc = "kick", !.uid = u, !.player = p])
      BY <1>2, <1>h, <3>1, <3>2, SessionRecords DEF FindPlayer
    <3> QED
      BY <1>c, <1>d, <2>1, <2>2, <3>3, <3>4 DEF TypeInv, TypeOK
  <2>3. CASE sess' = [sess EXCEPT ![t].pc = "alloc"] /\ shared' = shared
    <3>1. sess' = [sess EXCEPT ![t] = [s EXCEPT !.pc = "alloc"]]
      BY <2>3, <1>h
    <3>2. SessionOK([s EXCEPT !.pc = "alloc"])
      BY <1>2, <1>h, SessionRecords DEF FindPlayer
    <3> QED
      BY <1>c, <1>d, <2>1, <2>3, <3>1, <3>2 DEF TypeInv, TypeOK
  <2> QED
    BY <1>2, <2>2, <2>3 DEF FindPlayer
<1>3. CASE Kick(t)
  <2>1. UNCHANGED <<diskIds, nextIds, logins, crashes, crowded, shared>> /\ s.pc = "kick"
    BY <1>3, SMTT(60) DEF Kick, hisVars
  <2>2. SessionOK([s EXCEPT !.pc = "kicked"]) /\ SessionOK([s EXCEPT !.pc = "attach"])
    BY <1>h, <2>1, SessionRecords
  <2>3. ASSUME NEW x \in Thread, sess[x].pc = "playing", BeginSave(x),
               sess' = [sess EXCEPT ![x] = Begun(x), ![t].pc = "kicked"]
        PROVE  TypeInv'
    <3>1. x # t
      BY <2>1, <2>3
    <3>2. \A y \in Thread : sess'[y] = IF y = t THEN [s EXCEPT !.pc = "kicked"]
                                      ELSE IF y = x THEN Begun(x) ELSE sess[y]
      BY <1>h, <2>3, <3>1
    <3>3. \A y \in Thread : SessionOK(sess'[y])
      BY <1>b, <1>g, <2>2, <2>3, <3>2
    <3>4. sess' \in [Thread -> Session]
      <4>1. \A y \in Thread : sess'[y] \in Session
        BY <3>3 DEF SessionOK
      <4> QED
        BY <4>1, <2>3, <1>h
    <3> QED
      BY <1>c, <1>f, <2>1, <2>3, <3>3, <3>4 DEF TypeInv, TypeOK
  <2>4. CASE sess' = [sess EXCEPT ![t].pc = "attach"] /\ UNCHANGED <<plyr, inv, failed>>
    <3>1. sess' = [sess EXCEPT ![t] = [s EXCEPT !.pc = "attach"]]
      BY <2>4, <1>h
    <3> QED
      BY <1>c, <1>d, <2>1, <2>2, <2>4, <3>1 DEF TypeInv, TypeOK
  <2> QED
    BY <1>3, <2>3, <2>4 DEF Kick
<1>4. CASE Kicked(t) \/ Attach(t)
  <2>1. PICK p \in {"attach", "playing"} : sess' = [sess EXCEPT ![t].pc = p]
    BY <1>4 DEF Kicked, Attach
  <2>2. sess' = [sess EXCEPT ![t] = [s EXCEPT !.pc = p]]
    BY <2>1, <1>h
  <2>3. SessionOK([s EXCEPT !.pc = p])
    BY <1>4, <1>h, SessionRecords DEF Kicked, Attach
  <2> QED
    BY <1>4, <1>c, <1>d, <2>2, <2>3 DEF Kicked, Attach, TypeInv, TypeOK, dbVars, hisVars
<1>5. CASE OnLogin(t)
  <2>1. sess' = [sess EXCEPT ![t] = [s EXCEPT !.player.team = TRUE]]
    BY <1>5, <1>h DEF OnLogin
  <2>2. SessionOK([s EXCEPT !.player.team = TRUE])
    BY <1>5, <1>h, SessionRecords DEF OnLogin
  <2> QED
    BY <1>5, <1>c, <1>d, <2>1, <2>2 DEF OnLogin, TypeInv, TypeOK, dbVars, hisVars
<1>6. CASE Play(t)
  <2>1. sess' = [sess EXCEPT ![t] = [s EXCEPT !.player.progress = @ + 1]]
    BY <1>6, <1>h DEF Play
  <2>2. SessionOK([s EXCEPT !.player.progress = @ + 1])
    BY <1>6, <1>h, SessionRecords DEF Play
  <2> QED
    BY <1>6, <1>c, <1>d, <2>1, <2>2 DEF Play, TypeInv, TypeOK, dbVars, hisVars
<1>7. CASE Close(t)
  <2>1. SessionOK(Begun(t)) /\ sess' = [sess EXCEPT ![t] = Begun(t)]
    BY <1>7, <1>g DEF Close
  <2> QED
    BY <1>7, <1>c, <1>d, <1>f, <2>1 DEF Close, TypeInv, TypeOK, hisVars
<1>8. CASE SavePlayer(t)
  <2>1. SessionOK(NoSession) /\ sess' = [sess EXCEPT ![t] = NoSession] /\ s.player \in Player
    BY <1>8, <1>h, SessionRecords DEF SavePlayer, Session
  <2> QED
    BY <1>8, <1>c, <1>d, <1>e, <2>1 DEF SavePlayer, TypeInv, TypeOK, hisVars
<1>9. CASE NewPlayer(t)
  <2>1. PICK u \in FirstFree(plyr, Uid, StartAt(nextIds.uid)) :
          /\ nextIds' = [nextIds EXCEPT !.uid = u]
          /\ sess' = [sess EXCEPT ![t].pc = "saveNew", ![t].uid = u]
    BY <1>9 DEF NewPlayer
  <2>2. u \in Uid
    BY DEF FirstFree
  <2>3. nextIds' \in Ids
    <3>1. u \in 0..MaxUid /\ nextIds \in Ids
      BY <2>2 DEF TypeInv, TypeOK, Uid
    <3> QED
      BY <2>1, <3>1 DEF Ids
  <2>4. sess' = [sess EXCEPT ![t] = [s EXCEPT !.pc = "saveNew", !.uid = u]]
    BY <2>1, <1>h
  <2>5. SessionOK([s EXCEPT !.pc = "saveNew", !.uid = u])
    BY <1>9, <1>h, <2>2, SessionRecords DEF NewPlayer
  <2> QED
    BY <1>9, <1>c, <1>d, <2>3, <2>4, <2>5 DEF NewPlayer, TypeInv, TypeOK, dbVars, hisVars
<1>10. CASE NewPlayerSave(t)
  <2>1. sess' = [sess EXCEPT ![t] = [s EXCEPT !.pc = "saveIds"]]
    BY <1>10, <1>h DEF NewPlayerSave
  <2>2. SessionOK([s EXCEPT !.pc = "saveIds"])
    BY <1>10, <1>h, SessionRecords DEF NewPlayerSave
  <2> QED
    BY <1>10, <1>c, <1>d, <1>e, <1>i, <2>1, <2>2 DEF NewPlayerSave, TypeInv, TypeOK, hisVars
<1>11. CASE NewPlayerSaveIds(t)
  <2>1. sess' = [sess EXCEPT ![t] = [s EXCEPT !.pc = "own"]]
    BY <1>11, <1>h DEF NewPlayerSaveIds
  <2>2. SessionOK([s EXCEPT !.pc = "own"])
    BY <1>11, <1>h, SessionRecords DEF NewPlayerSaveIds
  <2>3. diskIds' \in Ids /\ failed' \in BOOLEAN
    BY <1>11 DEF NewPlayerSaveIds, PutIds, TypeInv, TypeOK
  <2> QED
    BY <1>11, <1>c, <1>d, <2>1, <2>2, <2>3 DEF NewPlayerSaveIds, TypeInv, TypeOK, hisVars
<1>12. CASE Own(t)
  <2> DEFINE p == [NoPlayer EXCEPT !.aid = s.aid]
  <2>1. p \in Player
    <3>1. s.aid \in Aid \cup {NULL}
      BY <1>h DEF Session
    <3> QED
      BY <1>i, <3>1 DEF Player
  <2>2. Put(s.uid, p, plyr) /\ sess' = [sess EXCEPT ![t].pc = "attach", ![t].player = p]
    BY <1>12 DEF Own
  <2> HIDE DEF p
  <2>3. sess' = [sess EXCEPT ![t] = [s EXCEPT !.pc = "attach", !.player = p]]
    BY <2>2, <1>h
  <2>4. SessionOK([s EXCEPT !.pc = "attach", !.player = p])
    BY <1>12, <1>h, <2>1, SessionRecords DEF Own
  <2> QED
    BY <1>12, <1>c, <1>d, <1>e, <2>1, <2>2, <2>3, <2>4 DEF Own, TypeInv, TypeOK, hisVars
<1> QED
  BY <1>1, <1>2, <1>3, <1>4, <1>5, <1>6, <1>7, <1>8, <1>9, <1>10, <1>11, <1>12 DEF SessionStep

\* A crash or an orderly end: the threads begin anew.
LEMMA TypeRestart ==
  ASSUME TypeInv, NEW clean \in BOOLEAN, Restart(clean)
  PROVE  TypeInv'
<1> USE AccountsAssumption, RecordAssumption
<1>1. Idle \in Work /\ Idle.pc = "idle" /\ NoSession \in Session
  BY DEF Idle, Work, NoSession, Session, NoPlayer, Player, NoToken
<1>2. diskIds' \in Ids /\ nextIds' \in Ids /\ crashes' \in 0..MaxCrashes
  BY DEF Restart, TypeInv, TypeOK
<1>3. disp' = Idle /\ cons' = Idle /\ sess' = [t \in Thread |-> NoSession]
  BY DEF Restart
<1>4. TypeOK'
  BY <1>1, <1>2, <1>3 DEF Restart, TypeInv, TypeOK, tokVars
<1>5. DispOK' /\ ConsOK'
  BY <1>1, <1>3 DEF DispOK, ConsOK
<1>6. SessOK'
  BY <1>3 DEF SessOK, NoSession
<1> QED
  BY <1>4, <1>5, <1>6 DEF TypeInv

\* A step of nothing.
LEMMA TypeStutter == TypeInv /\ UNCHANGED vars => TypeInv'
BY DEF TypeInv, TypeOK, DispOK, ConsOK, SessOK, vars, dbVars, tokVars, hisVars

\* Every step of the process.
LEMMA TypeStep == TypeInv /\ [Next]_vars => TypeInv'
BY TypeDispatch, TypeConsole, TypeSession, TypeRestart, TypeStutter DEF Next

\* The types and places hold in every reachable state.
LEMMA TypeInvariant == Spec => []TypeInv
BY TypeInit, TypeStep, PTL DEF Spec

(***************************************************************************)
(* Every variable keeps its shape, and so do the copies the threads work   *)
(* on (all of dbgate.cpp, account.cpp and the handlers around them).       *)
(***************************************************************************)
THEOREM TypeCorrect == Spec => []TypeOK
<1>1. TypeInv => TypeOK
  BY DEF TypeInv
<1> QED
  BY <1>1, TypeInvariant, PTL

-----------------------------------------------------------------------------
(***************************************************************************)
(* Accounts: names, identity and tokens.                                   *)
(***************************************************************************)
\* While no copy was written over a newer record: the name the console is
\* about to create is not taken, and neither is the id.
NameFree ==
  ~raced =>
    /\ cons.pc = "alloc" => \A a \in Aid : acct[a] # NULL => acct[a].name # cons.name
    /\ cons.pc = "saveNew" =>
         /\ acct[cons.aid] = NULL
         /\ \A a \in Aid : acct[a] # NULL => acct[a].name # cons.acc.name

AcctInv == NameFree /\ NamesUnique /\ LatestTokenStored

\* getAccountByUsername finds an account if there is one.
LEMMA NamedFinds ==
  ASSUME TypeOK, NEW n \in Name, Named(n) = {}
  PROVE  \A a \in Aid : acct[a] # NULL => acct[a].name # n
<1> SUFFICES ASSUME NEW a \in Aid, acct[a] # NULL, acct[a].name = n
             PROVE  FALSE
  OBVIOUS
<1> USE AccountsAssumption
<1> DEFINE T == {b \in Aid : acct[b] # NULL /\ acct[b].name = n}
<1>1. T \in SUBSET Nat /\ T # {}
  BY DEF Aid
<1>2. PICK m \in T : \A k \in T : m <= k
  BY <1>1, LeastElement
<1>3. \A b \in 1..(m - 1) : acct[b] # NULL => acct[b].name # n
  <2> SUFFICES ASSUME NEW b \in 1..(m - 1), b \in T
               PROVE  FALSE
    BY DEF Aid
  <2> QED
    BY <1>2 DEF Aid
<1>4. m \in Named(n)
  BY <1>3 DEF Named
<1> QED
  BY <1>4

\* There is no account at the start.
LEMMA AcctInit == Init => AcctInv
BY DEF Init, AcctInv, NameFree, NamesUnique, LatestTokenStored, Idle

\* Other threads' steps, which do not touch what AcctInv is about.
LEMMA AcctFrame ==
  ASSUME AcctInv, UNCHANGED <<acct, cons, raced, latest>>, failed => failed'
  PROVE  AcctInv'
BY SMTT(60) DEF AcctInv, NameFree, NamesUnique, LatestTokenStored

\* The endpoints write back the account they read, under the same name.
LEMMA AcctDispatch == TypeInv /\ AcctInv /\ Dispatch => AcctInv'
<1> SUFFICES ASSUME TypeInv, AcctInv, Dispatch
             PROVE  AcctInv'
  OBVIOUS
<1> USE AccountsAssumption, RecordAssumption
<1>1. CASE UNCHANGED <<acct, cons, raced, latest, failed>>
  BY <1>1, AcctFrame
<1>2. CASE DispatchSave
  <2> SUFFICES ASSUME ~raced'
               PROVE  AcctInv'
    BY DEF AcctInv, NameFree, NamesUnique, LatestTokenStored
  <2>1. ~raced /\ acct[disp.aid] = disp.seen
    BY <1>2 DEF DispatchSave, Stale, TypeInv, TypeOK
  <2>2. disp.aid \in Aid /\ disp.acc \in Account /\ disp.seen \in Account
        /\ disp.acc.name = disp.seen.name
    BY <1>2 DEF DispatchSave, TypeInv, DispOK
  <2>3. \A a \in Aid : acct'[a] # NULL => acct[a] # NULL /\ acct'[a].name = acct[a].name
    BY <1>2, <2>1, <2>2 DEF DispatchSave, Put, TypeInv, TypeOK
  <2>4. cons' = cons
    BY <1>2 DEF DispatchSave
  <2>5. NameFree'
    <3>1. cons.pc = "saveNew" => acct'[cons.aid] = NULL
      BY <2>1, <2>3, <2>4 DEF AcctInv, NameFree, TypeInv, ConsOK
    <3> QED
      BY <3>1, <2>1, <2>3, <2>4 DEF AcctInv, NameFree
  <2>6. NamesUnique'
    BY <2>1, <2>3 DEF AcctInv, NamesUnique
  <2>7. LatestTokenStored'
    <3> SUFFICES ASSUME ~failed', NEW a \in Aid, acct'[a] # NULL
                 PROVE  acct'[a].combo = latest'[a]
      BY DEF LatestTokenStored
    <3>1. ~failed /\ acct' = [acct EXCEPT ![disp.aid] = disp.acc]
      BY <1>2 DEF DispatchSave, Put
    <3>2. acct[disp.aid].combo = latest[disp.aid]
      BY <2>1, <2>2, <3>1 DEF AcctInv, LatestTokenStored
    <3>3. CASE a # disp.aid
      BY <1>2, <2>1, <3>1, <3>3 DEF DispatchSave, Answer, AcctInv, LatestTokenStored, TypeInv, TypeOK
    <3>4. CASE a = disp.aid
      <4>1. acct'[a] = disp.acc
        BY <3>1, <3>4 DEF TypeInv, TypeOK
      <4>2. \/ disp.acc.combo = disp.seen.combo
            \/ disp.answer = disp.acc.combo /\ disp.answer # NoToken
        BY <1>2 DEF DispatchSave, TypeInv, DispOK
      <4>3. CASE disp.answer # NoToken /\ disp.answer = disp.acc.combo
        BY <1>2, <3>4, <4>1, <4>3 DEF DispatchSave, Answer, TypeInv, TypeOK
      <4>4. CASE ~(disp.answer # NoToken /\ disp.answer = disp.acc.combo)
        <5>1. latest' = latest
          BY <1>2, <4>4 DEF DispatchSave, Answer
        <5> QED
          BY <2>1, <3>2, <3>4, <4>1, <4>2, <4>4, <5>1
      <4> QED
        BY <4>3, <4>4
    <3> QED
      BY <3>3, <3>4
  <2> QED
    BY <2>5, <2>6, <2>7 DEF AcctInv
<1> QED
  BY <1>1, <1>2 DEF Dispatch, ActionTicket, BindRealname, Login, Combo, DispatchWith, dbVars

\* account create takes a name and an id that are free, account delete a whole record.
LEMMA AcctConsole == TypeInv /\ AcctInv /\ Console => AcctInv'
<1> SUFFICES ASSUME TypeInv, AcctInv, Console
             PROVE  AcctInv'
  OBVIOUS
<1> USE AccountsAssumption, RecordAssumption
<1>a. ASSUME UNCHANGED <<acct, raced, latest>>, failed => failed', NameFree'
      PROVE  AcctInv'
  BY <1>a DEF AcctInv, NamesUnique, LatestTokenStored
<1>1. ASSUME NEW n \in Name, Create(n)
      PROVE  AcctInv'
  <2>1. CASE Named(n) = {} /\ cons' = [Idle EXCEPT !.pc = "alloc", !.name = n]
    <3>1. cons'.pc = "alloc" /\ cons'.name = n
      BY <2>1 DEF Idle
    <3>2. \A a \in Aid : acct[a] # NULL => acct[a].name # n
      BY <2>1, NamedFinds DEF TypeInv
    <3> QED
      BY <1>1, <1>a, <3>1, <3>2 DEF Create, NameFree, dbVars, tokVars
  <2>2. CASE cons'.pc = "resave"
    BY <1>1, <1>a, <2>2 DEF Create, NameFree, dbVars, tokVars
  <2> QED
    BY <1>1, <2>1, <2>2 DEF Create, Idle
<1>2. CASE CreateAlloc
  <2>1. PICK a \in FirstFree(acct, Aid, StartAt(nextIds.aid)) :
          cons' = [cons EXCEPT !.pc = "saveNew", !.aid = a,
                               !.acc = [name |-> cons.name, auth |-> NoToken,
                                        combo |-> NoToken, ticket |-> NoToken]]
    BY <1>2 DEF CreateAlloc
  <2>2. a \in Aid /\ acct[a] = NULL
    BY DEF FirstFree
  <2>3. cons'.pc = "saveNew" /\ cons'.aid = a /\ cons'.acc.name = cons.name
    BY <2>1 DEF TypeInv, TypeOK, Work
  <2> QED
    BY <1>2, <1>a, <2>2, <2>3 DEF CreateAlloc, AcctInv, NameFree, dbVars, tokVars
<1>3. CASE CreateSave
  <2>1. cons.pc = "saveNew" /\ cons.aid \in Aid /\ cons.acc \in Account
        /\ cons.acc.combo = NoToken /\ raced' = raced
    BY <1>3 DEF CreateSave, TypeInv, ConsOK
  <2>2. cons'.pc = "saveIds"
    BY <1>3 DEF CreateSave, TypeInv, TypeOK, Work
  <2>3. NameFree'
    BY <2>2 DEF NameFree
  <2>4. NamesUnique'
    BY <1>3, <2>1 DEF CreateSave, Put, AcctInv, NameFree, NamesUnique, TypeInv, TypeOK
  <2>5. LatestTokenStored'
    BY <1>3, <2>1 DEF CreateSave, Put, AcctInv, LatestTokenStored, TypeInv, TypeOK
  <2> QED
    BY <2>3, <2>4, <2>5 DEF AcctInv
<1>4. CASE CreateSaveIds
  <2>1. cons'.pc = "resave"
    BY <1>4 DEF CreateSaveIds, TypeInv, TypeOK, Work
  <2> QED
    BY <1>4, <1>a, <2>1 DEF CreateSaveIds, PutIds, NameFree, tokVars
<1>5. CASE CreateResave
  <2>1. cons'.pc = "idle"
    BY <1>5 DEF CreateResave, Idle
  <2>2. CASE raced'
    BY <2>2 DEF AcctInv, NameFree, NamesUnique, LatestTokenStored
  <2>3. CASE ~raced'
    <3>1. acct[cons.aid] = cons.acc /\ ~raced
      BY <1>5, <2>3 DEF CreateResave, Stale, TypeInv, ConsOK, TypeOK
    <3>2. acct' = acct
      BY <1>5, <3>1 DEF CreateResave, Put, TypeInv, TypeOK
    <3> QED
      BY <1>5, <1>a, <2>1, <2>3, <3>1, <3>2
         DEF CreateResave, Put, NameFree, AcctInv, NamesUnique, LatestTokenStored, tokVars
  <2> QED
    BY <2>2, <2>3
<1>6. ASSUME NEW a \in Aid, DeleteFind(a)
      PROVE  AcctInv'
  <2>1. cons'.pc = "delete"
    BY <1>6 DEF DeleteFind, Idle
  <2> QED
    BY <1>6, <1>a, <2>1 DEF DeleteFind, NameFree, dbVars, tokVars
<1>7. CASE Delete
  <2>1. cons'.pc = "idle" /\ cons.aid \in Aid
    BY <1>7 DEF Delete, Idle, TypeInv, ConsOK
  <2>2. NameFree'
    BY <2>1 DEF NameFree
  <2>3. NamesUnique' /\ LatestTokenStored'
    BY <1>7, <2>1, SMTT(60) DEF Delete, Put, AcctInv, NamesUnique, LatestTokenStored, TypeInv, TypeOK
  <2> QED
    BY <2>2, <2>3 DEF AcctInv
<1> QED
  BY <1>1, <1>2, <1>3, <1>4, <1>5, <1>6, <1>7 DEF Console
\* No step takes back that a write failed.
LEMMA FailedStays ==
  ASSUME NEW t \in Thread, SessionStep(t)
  PROVE  failed => failed'
BY DEF SessionStep, TokenReq, FindPlayer, Kick, Kicked, Attach, OnLogin, Play, Close, BeginSave,
       SavePlayer, NewPlayer, NewPlayerSave, NewPlayerSaveIds, Own, Put, PutIds

\* Every step of the process keeps the invariant of the accounts.
LEMMA AcctStep == TypeInv /\ AcctInv /\ [Next]_vars => AcctInv'
<1> SUFFICES ASSUME TypeInv, AcctInv, [Next]_vars
             PROVE  AcctInv'
  OBVIOUS
<1>1. CASE Dispatch \/ Console
  BY <1>1, AcctDispatch, AcctConsole
<1>2. ASSUME NEW t \in Thread, SessionStep(t)
      PROVE  AcctInv'
  BY <1>2, SessionFrame, FailedStays, AcctFrame DEF tokVars
<1>3. ASSUME NEW clean \in BOOLEAN, Restart(clean)
      PROVE  AcctInv'
  <2>1. cons'.pc = "idle"
    BY <1>3 DEF Restart, Idle
  <2> QED
    BY <1>3, <2>1 DEF Restart, AcctInv, NameFree, NamesUnique, LatestTokenStored, tokVars
<1>4. CASE UNCHANGED vars
  BY <1>4, AcctFrame DEF vars, dbVars, tokVars
<1> QED
  BY <1>1, <1>2, <1>3, <1>4 DEF Next

\* It holds in every reachable state.
LEMMA AcctInvariant == Spec => []AcctInv
BY AcctInit, AcctStep, TypeInvariant, PTL DEF Spec

(***************************************************************************)
(* No two accounts have the same username while no copy was written over a *)
(* newer record, whatever fails or crashes (dbGate::createAccount).        *)
(***************************************************************************)
THEOREM NamesStayUnique == Spec => []NamesUnique
<1>1. AcctInv => NamesUnique
  BY DEF AcctInv
<1> QED
  BY <1>1, AcctInvariant, PTL

(***************************************************************************)
(* The combo token a client was given last is the stored one, unless a     *)
(* write failed or a copy was written over a newer record (handleCombo).   *)
(***************************************************************************)
THEOREM LatestTokenKept == Spec => []LatestTokenStored
<1>1. AcctInv => LatestTokenStored
  BY DEF AcctInv
<1> QED
  BY <1>1, AcctInvariant, PTL

\* A step leaves the name of every account that stays.
LEMMA NamesKept ==
  ASSUME TypeInv, AcctInv, [Next]_vars, ~raced',
         NEW a \in Aid, acct[a] # NULL, acct'[a] # NULL
  PROVE  acct'[a].name = acct[a].name
<1> USE AccountsAssumption, RecordAssumption
<1>1. CASE acct' = acct
  BY <1>1
<1>2. CASE DispatchSave
  <2>1. acct[disp.aid] = disp.seen /\ disp.acc.name = disp.seen.name
    BY <1>2 DEF DispatchSave, Stale, TypeInv, TypeOK, DispOK
  <2> QED
    BY <1>2, <2>1 DEF DispatchSave, Put, TypeInv, TypeOK
<1>3. CASE CreateSave
  <2>1. acct[cons.aid] = NULL
    BY <1>3 DEF CreateSave, AcctInv, NameFree
  <2> QED
    BY <1>3, <2>1 DEF CreateSave, Put, TypeInv, TypeOK
<1>4. CASE CreateResave
  <2>1. acct[cons.aid] = cons.acc
    BY <1>4 DEF CreateResave, Stale, TypeInv, ConsOK, TypeOK
  <2> QED
    BY <1>4, <2>1 DEF CreateResave, Put, TypeInv, TypeOK
<1>5. CASE Delete
  BY <1>5 DEF Delete, Put, TypeInv, TypeOK
<1>6. acct' = acct \/ DispatchSave \/ CreateSave \/ CreateResave \/ Delete
  <2>1. CASE Dispatch \/ Console
    BY <2>1 DEF Dispatch, ActionTicket, BindRealname, Login, Combo, DispatchWith, Console,
                Create, CreateAlloc, CreateSaveIds, DeleteFind, dbVars
  <2>2. ASSUME NEW t \in Thread, SessionStep(t)
        PROVE  acct' = acct
    BY <2>2, SessionFrame
  <2>3. ASSUME NEW clean \in BOOLEAN, Restart(clean)
        PROVE  acct' = acct
    BY <2>3 DEF Restart
  <2> QED
    BY <2>1, <2>2, <2>3 DEF Next, vars, dbVars
<1> QED
  BY <1>1, <1>2, <1>3, <1>4, <1>5, <1>6

(***************************************************************************)
(* An account id never turns into the id of another username while its     *)
(* record exists and no copy was written over a newer record               *)
(* (createAccount, saveAccount).                                           *)
(***************************************************************************)
THEOREM IdentityHolds == Spec => IdentityKept
<1> DEFINE A == \A a \in Aid : ~raced' /\ acct[a] # NULL /\ acct'[a] # NULL
                                => acct'[a].name = acct[a].name
<1>1. TypeInv /\ AcctInv /\ [Next]_vars => [A]_vars
  BY NamesKept
<1> HIDE DEF A
<1>2. Spec => [][A]_vars
  BY <1>1, TypeInvariant, AcctInvariant, PTL DEF Spec
<1> QED
  BY <1>2 DEF A, IdentityKept

-----------------------------------------------------------------------------
(***************************************************************************)
(* Players.                                                                *)
(***************************************************************************)
\* Nothing has happened that the properties about players leave out.
Quiet == ~failed /\ ~crowded /\ ~shared

\* Token requests are handled one at a time, and no two sessions have the
\* same player.
Alone ==
  /\ ~crowded => \A s, t \in Thread : Handling(s) /\ Handling(t) => s = t
  /\ Quiet => \A s, t \in Thread : sess[s].uid = sess[t].uid /\ sess[s].uid # NULL => s = t

\* How a session s and its copy of the player relate to the stored players,
\* and that an account for which a player is made has none.
RecordOK(s, db) ==
  /\ s.pc = "saveNew" => db[s.uid] = NULL
  /\ s.pc \in {"saveIds", "own"} => db[s.uid] = NoPlayer
  /\ s.pc \in {"kick", "kicked", "attach", "playing", "player"} =>
       /\ db[s.uid] # NULL
       /\ s.player.aid \in {NULL, db[s.uid].aid}
       /\ s.player.progress >= db[s.uid].progress
  /\ s.pc \in {"alloc", "saveNew", "saveIds", "own"} =>
       \A u \in Uid : db[u] # NULL => db[u].aid # s.aid

Records == Quiet => \A t \in Thread : RecordOK(sess[t], plyr)

\* Before the player's record the inventory is written.
InventoryFirst ==
  ~failed => \A t \in Thread : sess[t].pc = "player" => inv[sess[t].uid]

PlyrInv ==
  Alone /\ Records /\ OnePlayerPerAccount /\ InventoryFirst /\ StoredTeamsResolve

\* getPlayerByAid finds a player if there is one.
LEMMA PlayerFinds ==
  ASSUME TypeOK, NEW a \in Aid, PlayerOf(a) = {}
  PROVE  \A u \in Uid : plyr[u] # NULL => plyr[u].aid # a
<1> SUFFICES ASSUME NEW u \in Uid, plyr[u] # NULL, plyr[u].aid = a
             PROVE  FALSE
  OBVIOUS
<1> USE AccountsAssumption
<1> DEFINE T == {v \in Uid : plyr[v] # NULL /\ plyr[v].aid = a}
<1>1. T \in SUBSET Nat /\ T # {}
  BY DEF Uid
<1>2. PICK m \in T : \A k \in T : m <= k
  BY <1>1, LeastElement
<1>3. \A v \in 1..(m - 1) : plyr[v] # NULL => plyr[v].aid # a
  <2> SUFFICES ASSUME NEW v \in 1..(m - 1), v \in T
               PROVE  FALSE
    BY DEF Uid
  <2> QED
    BY <1>2 DEF Uid
<1>4. m \in PlayerOf(a)
  BY <1>3 DEF PlayerOf
<1> QED
  BY <1>4

\* There is no player at the start.
LEMMA PlyrInit == Init => PlyrInv
<1> SUFFICES ASSUME Init
             PROVE  PlyrInv
  OBVIOUS
<1>1. \A t \in Thread : sess[t].pc = "none" /\ sess[t].uid = NULL
  BY DEF Init, NoSession
<1>2. \A u \in Uid : plyr[u] = NULL
  BY DEF Init
<1> QED
  BY <1>1, <1>2 DEF PlyrInv, Alone, Handling, Saving, Records, RecordOK, OnePlayerPerAccount, InventoryFirst,
                    StoredTeamsResolve

\* The other kinds of thread do not touch what PlyrInv is about.
LEMMA PlyrFrame ==
  ASSUME PlyrInv, UNCHANGED <<plyr, inv, sess, crowded, shared>>, failed => failed'
  PROVE  PlyrInv'
BY DEF PlyrInv, Alone, Handling, Saving, Records, Quiet, OnePlayerPerAccount, InventoryFirst,
       StoredTeamsResolve

\* Steps by which no session begins to handle a request or gets a player.
LEMMA AloneKeeps ==
  ASSUME Alone, crowded => crowded', shared => shared', failed => failed',
         \A x \in Thread : Handling(x)' => Handling(x),
         \A x \in Thread : sess'[x].uid \in {NULL, sess[x].uid}
  PROVE  Alone'
BY DEF Alone, Quiet

\* What follows for all sessions when only one changes, and no player.
LEMMA RecordsKeep ==
  ASSUME Records, Quiet' => Quiet, plyr' = plyr, NEW t \in Thread,
         \A x \in Thread \ {t} : sess'[x] = sess[x],
         Quiet' => RecordOK(sess'[t], plyr)
  PROVE  Records'
BY DEF Records, RecordOK

\* A player that is saved keeps its account or has none, so that the other
\* sessions' records and the uniqueness of players are not touched.
LEMMA WriteKeeps ==
  ASSUME TypeInv, PlyrInv, Quiet, NEW t \in Thread, NEW p \in Player, sess[t].uid \in Uid,
         plyr' = [plyr EXCEPT ![sess[t].uid] = p],
         p.aid = NULL \/ (plyr[sess[t].uid] # NULL /\ p.aid = plyr[sess[t].uid].aid)
  PROVE  /\ \A x \in Thread \ {t} : RecordOK(sess[x], plyr')
         /\ OnePlayerPerAccount'
<1> USE AccountsAssumption, RecordAssumption
<1>1. plyr \in [Uid -> Player \cup {NULL}] /\ p # NULL
  BY DEF TypeInv, TypeOK
<1>2. \A u \in Uid : plyr'[u] = IF u = sess[t].uid THEN p ELSE plyr[u]
  BY <1>1
<1>3. ASSUME NEW x \in Thread \ {t}
      PROVE  RecordOK(sess[x], plyr')
  <2>1. sess[x].uid # sess[t].uid
    BY DEF PlyrInv, Alone
  <2>2. sess[x].pc \notin {"none", "find", "alloc"} => plyr'[sess[x].uid] = plyr[sess[x].uid]
    BY <1>2, <2>1 DEF TypeInv, SessOK
  <2>3. RecordOK(sess[x], plyr)
    BY DEF PlyrInv, Records
  <2>4. sess[x].pc # "none" => sess[x].aid \in Aid
    BY DEF TypeInv, SessOK
  <2>5. sess[x].pc \in {"alloc", "saveNew", "saveIds", "own"} =>
          \A u \in Uid : plyr'[u] # NULL => plyr'[u].aid # sess[x].aid
    BY <1>2, <2>3, <2>4 DEF RecordOK
  <2> QED
    BY <2>2, <2>3, <2>5 DEF RecordOK
<1>4. OnePlayerPerAccount'
  BY <1>1, <1>2 DEF PlyrInv, OnePlayerPerAccount, Quiet
<1> QED
  BY <1>3, <1>4

\* How a successful write of a session's player leads to the invariants.
LEMMA WriteRecords ==
  ASSUME TypeInv, PlyrInv, Quiet' => Quiet, NEW t \in Thread, NEW p \in Player,
         sess[t].uid \in Uid, Put(sess[t].uid, p, plyr),
         \A x \in Thread \ {t} : sess'[x] = sess[x],
         p.aid = NULL \/ (Quiet => plyr[sess[t].uid] # NULL /\ p.aid = plyr[sess[t].uid].aid),
         Quiet' /\ plyr'[sess[t].uid] = p => RecordOK(sess'[t], plyr')
  PROVE  Records' /\ OnePlayerPerAccount'
<1>1. CASE ~Quiet'
  BY <1>1 DEF Records, OnePlayerPerAccount, Quiet
<1>2. CASE Quiet'
  <2>1. plyr' = [plyr EXCEPT ![sess[t].uid] = p] /\ Quiet
    BY <1>2 DEF Put, Quiet
  <2>2. plyr'[sess[t].uid] = p
    BY <2>1 DEF TypeInv, TypeOK
  <2>3. /\ \A x \in Thread \ {t} : RecordOK(sess[x], plyr')
        /\ OnePlayerPerAccount'
    BY <2>1, WriteKeeps
  <2> QED
    BY <1>2, <2>2, <2>3 DEF Records
<1> QED
  BY <1>1, <1>2

\* Steps that write no player and begin no save.
LEMMA TeamsKeep ==
  ASSUME InventoryFirst, StoredTeamsResolve, failed => failed', UNCHANGED <<plyr, inv>>,
         \A x \in Thread : sess'[x].pc = "player" => sess'[x] = sess[x]
  PROVE  InventoryFirst' /\ StoredTeamsResolve'
BY DEF InventoryFirst, StoredTeamsResolve

\* A step that only changes one session, to record r.
LEMMA QuietStep ==
  ASSUME TypeInv, PlyrInv, NEW t \in Thread, NEW r,
         sess' = [sess EXCEPT ![t] = r], UNCHANGED <<plyr, inv, crowded, shared>>,
         failed => failed',
         r.pc \notin {"none", "playing", "player"} =>
           sess[t].pc \notin {"none", "playing", "player"},
         r.pc # "player", r.uid = sess[t].uid,
         Quiet => RecordOK(r, plyr)
  PROVE  PlyrInv'
<1>1. \A x \in Thread : sess'[x] = IF x = t THEN r ELSE sess[x]
  BY DEF TypeInv, TypeOK
<1>2. Quiet' => Quiet
  BY DEF Quiet
<1>3. Alone'
  <2>1. \A x \in Thread : Handling(x)' => Handling(x)
    BY <1>1 DEF Handling, Saving
  <2>2. \A x \in Thread : sess'[x].uid \in {NULL, sess[x].uid}
    BY <1>1
  <2> QED
    BY <2>1, <2>2, AloneKeeps DEF PlyrInv
<1>4. Records'
  BY <1>1, <1>2, RecordsKeep DEF PlyrInv
<1>5. OnePlayerPerAccount'
  BY DEF PlyrInv, OnePlayerPerAccount
<1>6. InventoryFirst' /\ StoredTeamsResolve'
  BY <1>1, TeamsKeep DEF PlyrInv
<1> QED
  BY <1>3, <1>4, <1>5, <1>6 DEF PlyrInv

\* A request begins.
LEMMA PlyrTokenReq ==
  ASSUME TypeInv, PlyrInv, NEW t \in Thread, NEW a \in Aid, TokenReq(t, a)
  PROVE  PlyrInv'
<1> DEFINE r == [sess[t] EXCEPT !.pc = "find", !.aid = a]
<1>1. sess \in [Thread -> Session] /\ sess[t].pc = "none"
  BY DEF TypeInv, TypeOK, TokenReq
<1>2. sess' = [sess EXCEPT ![t] = r]
  BY <1>1 DEF TokenReq
<1>3. r.pc = "find" /\ r.uid = sess[t].uid /\ r.uid = NULL
  BY <1>1 DEF Session, TypeInv, SessOK
<1> HIDE DEF r
<1>4. \A x \in Thread : sess'[x] = IF x = t THEN r ELSE sess[x]
  BY <1>1, <1>2
<1>5. UNCHANGED <<plyr, inv, failed, shared>> /\ (crowded => crowded')
  BY DEF TokenReq, dbVars
<1>6. Alone'
  <2>1. ~crowded' => \A x \in Thread : Handling(x)' => x = t
    BY <1>3, <1>4 DEF TokenReq, Handling, Saving
  <2>2. Quiet' => \A x, y \in Thread : sess'[x].uid = sess'[y].uid /\ sess'[x].uid # NULL => x = y
    BY <1>3, <1>4, <1>5 DEF PlyrInv, Alone, Quiet
  <2> QED
    BY <2>1, <2>2 DEF Alone
<1>7. Records'
  <2>1. RecordOK(r, plyr)
    BY <1>3 DEF RecordOK
  <2> QED
    BY <1>4, <1>5, <2>1, RecordsKeep DEF PlyrInv, Quiet
<1>8. OnePlayerPerAccount'
  BY <1>5 DEF PlyrInv, OnePlayerPerAccount
<1>9. InventoryFirst' /\ StoredTeamsResolve'
  BY <1>3, <1>4, <1>5, TeamsKeep DEF PlyrInv
<1> QED
  BY <1>6, <1>7, <1>8, <1>9 DEF PlyrInv

\* A session gets a player that no other session has.
LEMMA PlyrGets ==
  ASSUME TypeInv, PlyrInv, NEW t \in Thread, NEW r, NEW u \in Uid,
         sess' = [sess EXCEPT ![t] = r], UNCHANGED <<plyr, inv, crowded, failed>>,
         shared => shared',
         sess[t].pc \in {"find", "alloc"}, r.pc \in {"kick", "saveNew"}, r.uid = u,
         Quiet' => \A x \in Thread \ {t} : sess[x].uid # u,
         Quiet' => RecordOK(r, plyr)
  PROVE  PlyrInv'
<1>1. \A x \in Thread : sess'[x] = IF x = t THEN r ELSE sess[x]
  BY DEF TypeInv, TypeOK
<1>2. Quiet' => Quiet
  BY DEF Quiet
<1>3. Alone'
  <2>1. \A x \in Thread : Handling(x)' => Handling(x)
    BY <1>1 DEF Handling, Saving
  <2>2. Quiet' => \A x, y \in Thread : sess'[x].uid = sess'[y].uid /\ sess'[x].uid # NULL => x = y
    BY <1>1, <1>2 DEF PlyrInv, Alone
  <2> QED
    BY <2>1, <2>2 DEF PlyrInv, Alone
<1>4. Records'
  BY <1>1, <1>2, RecordsKeep DEF PlyrInv
<1>5. OnePlayerPerAccount'
  BY DEF PlyrInv, OnePlayerPerAccount
<1>6. InventoryFirst' /\ StoredTeamsResolve'
  BY <1>1, TeamsKeep DEF PlyrInv
<1> QED
  BY <1>3, <1>4, <1>5, <1>6 DEF PlyrInv

\* The search for the player of an account takes the one there is.
LEMMA PlyrFindPlayer ==
  ASSUME TypeInv, PlyrInv, NEW t \in Thread, FindPlayer(t)
  PROVE  PlyrInv'
<1> USE AccountsAssumption, RecordAssumption
<1> DEFINE s == sess[t]
<1>1. sess \in [Thread -> Session] /\ s.pc = "find" /\ s \in Session /\ s.uid = NULL /\ s.aid \in Aid
  BY DEF TypeInv, TypeOK, FindPlayer, SessOK
<1>2. UNCHANGED <<plyr, inv, crowded, failed>>
  BY DEF FindPlayer, dbVars
<1>3. ASSUME NEW u \in PlayerOf(s.aid), NEW p,
             p = [aid |-> IF acct[s.aid] = NULL THEN NULL ELSE s.aid,
                  progress |-> plyr[u].progress, team |-> FALSE],
             sess' = [sess EXCEPT ![t].pc = "kick", ![t].uid = u, ![t].player = p],
             shared' = (shared \/ \E x \in Thread \ {t} : sess[x].uid = u)
      PROVE  PlyrInv'
  <2> DEFINE r == [s EXCEPT !.pc = "kick", !.uid = u, !.player = p]
  <2>1. sess' = [sess EXCEPT ![t] = r] /\ r.pc = "kick" /\ r.uid = u /\ r.player = p
    BY <1>1, <1>3 DEF Session
  <2> HIDE DEF r
  <2>2. u \in Uid /\ plyr[u] # NULL /\ plyr[u].aid = s.aid /\ plyr[u] \in Player
    BY DEF PlayerOf, TypeInv, TypeOK
  <2>3. p.aid \in {NULL, plyr[u].aid} /\ p.progress >= plyr[u].progress
    BY <1>3, <2>2 DEF Player
  <2>4. RecordOK(r, plyr)
    BY <2>1, <2>2, <2>3 DEF RecordOK
  <2>5. Quiet' => \A x \in Thread \ {t} : sess[x].uid # u
    BY <1>3 DEF Quiet
  <2>6. shared => shared'
    BY <1>3
  <2> QED
    BY <1>1, <1>2, <2>1, <2>2, <2>4, <2>5, <2>6, PlyrGets
<1>4. CASE PlayerOf(s.aid) = {} /\ sess' = [sess EXCEPT ![t].pc = "alloc"] /\ shared' = shared
  <2> DEFINE r == [s EXCEPT !.pc = "alloc"]
  <2>1. sess' = [sess EXCEPT ![t] = r] /\ r.pc = "alloc" /\ r.uid = s.uid /\ r.aid = s.aid
    BY <1>1, <1>4 DEF Session
  <2> HIDE DEF r
  <2>2. RecordOK(r, plyr)
    BY <1>1, <1>4, <2>1, PlayerFinds DEF RecordOK, TypeInv
  <2> QED
    BY <1>1, <1>2, <1>4, <2>1, <2>2, QuietStep
<1> QED
  BY <1>3, <1>4 DEF FindPlayer

\* A new player gets an id that no stored player and no session has.
LEMMA PlyrNewPlayer ==
  ASSUME TypeInv, PlyrInv, NEW t \in Thread, NewPlayer(t)
  PROVE  PlyrInv'
<1> USE AccountsAssumption, RecordAssumption
<1> DEFINE s == sess[t]
<1>1. sess \in [Thread -> Session] /\ s.pc = "alloc" /\ s \in Session
  BY DEF TypeInv, TypeOK, NewPlayer
<1>2. UNCHANGED <<plyr, inv, crowded, shared, failed>>
  BY DEF NewPlayer, dbVars, hisVars
<1>3. PICK u \in FirstFree(plyr, Uid, StartAt(nextIds.uid)) :
        sess' = [sess EXCEPT ![t].pc = "saveNew", ![t].uid = u]
  BY DEF NewPlayer
<1>4. u \in Uid /\ plyr[u] = NULL
  BY DEF FirstFree
<1> DEFINE r == [s EXCEPT !.pc = "saveNew", !.uid = u]
<1>5. sess' = [sess EXCEPT ![t] = r] /\ r.pc = "saveNew" /\ r.uid = u /\ r.aid = s.aid
  BY <1>1, <1>3 DEF Session
<1> HIDE DEF r
<1>6. Quiet => RecordOK(r, plyr)
  BY <1>1, <1>4, <1>5 DEF RecordOK, PlyrInv, Records
<1>7. Quiet => \A x \in Thread \ {t} : sess[x].uid # u
  <2> SUFFICES ASSUME Quiet, NEW x \in Thread \ {t}, sess[x].uid = u
               PROVE  FALSE
    OBVIOUS
  <2>1. sess[x].pc \notin {"none", "find", "alloc"} /\ sess[x] \in Session
    BY <1>4 DEF TypeInv, TypeOK, SessOK
  <2>2. sess[x].pc # "saveNew"
    BY <1>1, <2>1 DEF PlyrInv, Alone, Quiet, Handling, Saving
  <2>3. NoPlayer # NULL
    BY NoPlayerIsPlayer
  <2> QED
    BY <1>4, <2>1, <2>2, <2>3 DEF PlyrInv, Records, RecordOK, Session
<1> QED
  BY <1>1, <1>2, <1>4, <1>5, <1>6, <1>7, PlyrGets DEF Quiet

\* ~Player begins: the inventory is written, or the player that has none.
LEMMA PlyrClose ==
  ASSUME TypeInv, PlyrInv, NEW t \in Thread, NEW x \in Thread,
         sess[x].pc = "playing", BeginSave(x),
         UNCHANGED <<crowded, shared>>,
         \/ sess' = [sess EXCEPT ![x] = Begun(x)]
         \/ /\ sess[t].pc = "kick" /\ sess[x].uid = sess[t].uid
            /\ sess' = [sess EXCEPT ![x] = Begun(x), ![t].pc = "kicked"]
  PROVE  PlyrInv'
<1> USE AccountsAssumption, RecordAssumption
<1> DEFINE s == sess[x]
<1>1. sess \in [Thread -> Session] /\ s \in Session /\ s.player \in Player /\ s.uid \in Uid
  BY DEF TypeInv, TypeOK, SessOK, Session
<1>2. failed => failed'
  BY DEF BeginSave, Put
<1>3. Quiet' => Quiet
  BY <1>2 DEF Quiet
<1>4. \/ \A y \in Thread : sess'[y] = IF y = x THEN Begun(x) ELSE sess[y]
      \/ /\ x # t /\ sess[t].pc = "kick" /\ sess[x].uid = sess[t].uid
         /\ \A y \in Thread : sess'[y] = IF y = t THEN [sess[t] EXCEPT !.pc = "kicked"]
                                        ELSE IF y = x THEN Begun(x) ELSE sess[y]
  BY <1>1
<1>5. /\ s.player.team => Begun(x) = [s EXCEPT !.pc = "player"]
      /\ ~s.player.team => Begun(x) = NoSession
      /\ Begun(x).pc \in {"none", "player"} /\ Begun(x).uid \in {NULL, s.uid}
      /\ s.player.team => Begun(x).pc = "player" /\ Begun(x).uid = s.uid /\ Begun(x).player = s.player
      /\ ~s.player.team => Begun(x).pc = "none"
  BY <1>1 DEF Begun, NoSession, Session
<1>6. [sess[t] EXCEPT !.pc = "kicked"].pc = "kicked"
      /\ [sess[t] EXCEPT !.pc = "kicked"].uid = sess[t].uid
  BY <1>1 DEF Session
<1>7. Alone'
  <2>1. \A y \in Thread : Handling(y)' => Handling(y)
    BY <1>4, <1>5, <1>6 DEF Handling, Saving
  <2>2. \A y \in Thread : sess'[y].uid \in {NULL, sess[y].uid}
    BY <1>4, <1>5, <1>6
  <2> QED
    BY <1>2, <2>1, <2>2, AloneKeeps DEF PlyrInv
<1>8. Quiet => \A y \in Thread : sess'[y] = IF y = x THEN Begun(x) ELSE sess[y]
  BY <1>1, <1>4 DEF PlyrInv, Alone
<1>9. Records' /\ OnePlayerPerAccount'
  <2>1. CASE ~Quiet'
    BY <2>1 DEF Records, OnePlayerPerAccount, Quiet
  <2>2. CASE Quiet' /\ s.player.team
    <3>1. plyr' = plyr
      BY <2>2 DEF BeginSave
    <3>2. RecordOK(Begun(x), plyr)
      BY <1>3, <1>5, <2>2 DEF PlyrInv, Records, RecordOK
    <3>3. \A y \in Thread \ {x} : sess'[y] = sess[y]
      BY <1>3, <1>8, <2>2
    <3>4. RecordOK(sess'[x], plyr)
      BY <1>3, <1>8, <2>2, <3>2
    <3>5. Records'
      BY <1>3, <3>1, <3>3, <3>4, RecordsKeep DEF PlyrInv
    <3> QED
      BY <3>1, <3>5, <1>3, <2>2 DEF PlyrInv, OnePlayerPerAccount, Quiet
  <2>3. CASE Quiet' /\ ~s.player.team
    <3>1. Put(s.uid, s.player, plyr) /\ Quiet
      BY <1>3, <2>3 DEF BeginSave
    <3>2. s.player.aid = NULL \/ (plyr[s.uid] # NULL /\ s.player.aid = plyr[s.uid].aid)
      BY <3>1 DEF PlyrInv, Records, RecordOK
    <3>3. RecordOK(sess'[x], plyr')
      BY <1>5, <1>8, <2>3, <3>1 DEF RecordOK
    <3>4. \A y \in Thread \ {x} : sess'[y] = sess[y]
      BY <1>8, <3>1
    <3> QED
      BY <1>1, <1>3, <3>1, <3>2, <3>3, <3>4, WriteRecords
  <2> QED
    BY <2>1, <2>2, <2>3
<1>10. ASSUME ~failed'
       PROVE  (\A y \in Thread : sess'[y].pc = "player" => inv'[sess'[y].uid])
              /\ \A u \in Uid : plyr'[u] # NULL /\ plyr'[u].team => inv'[u]
  <2>1. ~failed
    BY <1>2, <1>10
  <2>2. CASE s.player.team
    <3>1. inv' = [inv EXCEPT ![s.uid] = TRUE] /\ plyr' = plyr
      BY <1>10, <2>2 DEF BeginSave, Put
    <3>2. \A u \in Uid : inv'[u] = (u = s.uid \/ inv[u])
      BY <3>1 DEF TypeInv, TypeOK
    <3>3. \A y \in Thread : sess'[y].pc = "player" => y = x \/ sess'[y] = sess[y]
      BY <1>4, <1>6
    <3>4. ASSUME NEW y \in Thread, sess'[y].pc = "player"
          PROVE  inv'[sess'[y].uid]
      <4>1. CASE y = x
        BY <1>1, <1>4, <1>5, <2>2, <3>2, <4>1, ZenonT(60)
      <4>2. CASE y # x
        <5>1. sess[y].pc = "player" /\ sess'[y] = sess[y]
          BY <3>3, <3>4, <4>2
        <5>2. sess[y].uid \in Uid
          BY <5>1 DEF TypeInv, SessOK
        <5> QED
          BY <2>1, <3>2, <5>1, <5>2 DEF PlyrInv, InventoryFirst
      <4> QED
        BY <4>1, <4>2
    <3> QED
      BY <2>1, <3>1, <3>2, <3>4 DEF PlyrInv, StoredTeamsResolve
  <2>3. CASE ~s.player.team
    <3>1. plyr' = [plyr EXCEPT ![s.uid] = s.player] /\ inv' = inv
      BY <1>10, <2>3 DEF BeginSave, Put
    <3>2. \A y \in Thread : sess'[y].pc = "player" => sess'[y] = sess[y]
      BY <1>4, <1>5, <1>6, <2>3
    <3> QED
      BY <2>1, <2>3, <3>1, <3>2 DEF PlyrInv, InventoryFirst, StoredTeamsResolve, TypeInv, TypeOK
  <2> QED
    BY <2>2, <2>3
<1>11. InventoryFirst' /\ StoredTeamsResolve'
  BY <1>10 DEF InventoryFirst, StoredTeamsResolve
<1> QED
  BY <1>7, <1>9, <1>11 DEF PlyrInv

\* A step that writes one player and ends or continues its session.
LEMMA PlyrWrites ==
  ASSUME TypeInv, PlyrInv, NEW t \in Thread, NEW p \in Player, NEW r,
         sess[t].uid \in Uid, Put(sess[t].uid, p, plyr), sess' = [sess EXCEPT ![t] = r],
         UNCHANGED <<inv, crowded, shared>>,
         r.pc \notin {"none", "playing", "player"} =>
           sess[t].pc \notin {"none", "playing", "player"},
         r.pc # "player", r.uid \in {NULL, sess[t].uid},
         ~failed /\ p.team => inv[sess[t].uid],
         \/ p.aid = NULL
         \/ Quiet => plyr[sess[t].uid] # NULL /\ p.aid = plyr[sess[t].uid].aid,
         Quiet' /\ plyr'[sess[t].uid] = p => RecordOK(r, plyr')
  PROVE  PlyrInv'
<1>1. \A x \in Thread : sess'[x] = IF x = t THEN r ELSE sess[x]
  BY DEF TypeInv, TypeOK
<1>2. failed => failed'
  BY DEF Put
<1>3. Quiet' => Quiet
  BY <1>2 DEF Quiet
<1>4. Alone'
  <2>1. \A x \in Thread : Handling(x)' => Handling(x)
    BY <1>1 DEF Handling, Saving
  <2>2. \A x \in Thread : sess'[x].uid \in {NULL, sess[x].uid}
    BY <1>1
  <2> QED
    BY <1>2, <2>1, <2>2, AloneKeeps DEF PlyrInv
<1>5. Records' /\ OnePlayerPerAccount'
  BY <1>1, <1>3, WriteRecords
<1>6. InventoryFirst'
  BY <1>1, <1>2 DEF PlyrInv, InventoryFirst
<1>7. StoredTeamsResolve'
  BY <1>2 DEF PlyrInv, StoredTeamsResolve, Put, TypeInv, TypeOK
<1> QED
  BY <1>4, <1>5, <1>6, <1>7 DEF PlyrInv

\* The player is written after the inventory it refers to.
LEMMA PlyrSavePlayer ==
  ASSUME TypeInv, PlyrInv, NEW t \in Thread, SavePlayer(t)
  PROVE  PlyrInv'
<1> DEFINE s == sess[t]
<1>1. s.pc = "player" /\ s.uid \in Uid /\ s.player \in Player
  BY DEF SavePlayer, TypeInv, TypeOK, SessOK, Session
<1>2. NoSession.pc = "none" /\ NoSession.uid = NULL
  BY DEF NoSession
<1>3. RecordOK(NoSession, plyr')
  BY <1>2 DEF RecordOK
<1>4. s.player.aid = NULL \/ (Quiet => plyr[s.uid] # NULL /\ s.player.aid = plyr[s.uid].aid)
  BY <1>1 DEF PlyrInv, Records, RecordOK
<1>5. ~failed => inv[s.uid]
  BY <1>1 DEF PlyrInv, InventoryFirst
<1>6. /\ Put(s.uid, s.player, plyr) /\ sess' = [sess EXCEPT ![t] = NoSession]
      /\ UNCHANGED <<inv, crowded, shared>>
  BY DEF SavePlayer, hisVars
<1> QED
  BY <1>1, <1>2, <1>3, <1>4, <1>5, <1>6, PlyrWrites

\* A new player is written for an account that has none.
LEMMA PlyrNewPlayerSave ==
  ASSUME TypeInv, PlyrInv, NEW t \in Thread, NewPlayerSave(t)
  PROVE  PlyrInv'
<1> DEFINE s == sess[t]
<1> DEFINE r == [s EXCEPT !.pc = "saveIds"]
<1>1. s.pc = "saveNew" /\ s.uid \in Uid /\ s.aid \in Aid /\ s \in Session
      /\ sess \in [Thread -> Session]
  BY DEF NewPlayerSave, TypeInv, TypeOK, SessOK
<1>2. sess' = [sess EXCEPT ![t] = r] /\ r.pc = "saveIds" /\ r.uid = s.uid /\ r.aid = s.aid
  BY <1>1 DEF NewPlayerSave, Session
<1> HIDE DEF r
<1>3. NoPlayer.aid = NULL /\ NoPlayer.team = FALSE
  BY DEF NoPlayer
<1>4. Put(s.uid, NoPlayer, plyr) /\ UNCHANGED <<inv, crowded, shared>>
  BY DEF NewPlayerSave, hisVars
<1>5. ASSUME Quiet', plyr'[s.uid] = NoPlayer
      PROVE  RecordOK(r, plyr')
  <2>1. Quiet /\ plyr' = [plyr EXCEPT ![s.uid] = NoPlayer]
    BY <1>4, <1>5 DEF Quiet, Put
  <2>2. \A u \in Uid : plyr[u] # NULL => plyr[u].aid # s.aid
    BY <1>1, <2>1 DEF PlyrInv, Records, RecordOK
  <2>3. \A u \in Uid : plyr'[u] = IF u = s.uid THEN NoPlayer ELSE plyr[u]
    BY <2>1 DEF TypeInv, TypeOK
  <2>4. NULL # s.aid
    BY <1>1, AccountsAssumption
  <2>5. \A u \in Uid : plyr'[u] # NULL => plyr'[u].aid # s.aid
    BY <1>3, <2>2, <2>3, <2>4
  <2> QED
    BY <1>2, <1>5, <2>5 DEF RecordOK
<1> QED
  BY <1>1, <1>2, <1>3, <1>4, <1>5, NoPlayerIsPlayer, PlyrWrites

\* The new player is given its account, which has no other one.
LEMMA PlyrOwn ==
  ASSUME TypeInv, PlyrInv, NEW t \in Thread, Own(t)
  PROVE  PlyrInv'
<1> USE AccountsAssumption, RecordAssumption
<1> DEFINE s == sess[t]
           p == [NoPlayer EXCEPT !.aid = s.aid]
           r == [s EXCEPT !.pc = "attach", !.player = p]
<1>1. s.pc = "own" /\ s.uid \in Uid /\ s.aid \in Aid /\ s \in Session
      /\ sess \in [Thread -> Session]
  BY DEF Own, TypeInv, TypeOK, SessOK
<1>2. p \in Player /\ p.aid = s.aid /\ p.team = FALSE /\ p.progress = 0
  <2>1. p \in Player
    BY <1>1, NoPlayerIsPlayer DEF Player
  <2>2. p.aid = s.aid /\ p.team = FALSE /\ p.progress = 0
    BY DEF NoPlayer
  <2> QED
    BY <2>1, <2>2
<1>3. Put(s.uid, p, plyr) /\ UNCHANGED <<inv, crowded, shared>>
      /\ sess' = [sess EXCEPT ![t].pc = "attach", ![t].player = p]
  BY DEF Own, hisVars
<1> HIDE DEF p
<1>4. sess' = [sess EXCEPT ![t] = r] /\ r.pc = "attach" /\ r.uid = s.uid /\ r.player = p
  BY <1>1, <1>3 DEF Session
<1> HIDE DEF r
<1>5. \A x \in Thread : sess'[x] = IF x = t THEN r ELSE sess[x]
  BY <1>1, <1>4
<1>6. failed => failed'
  BY <1>3 DEF Put
<1>7. Alone'
  <2>1. \A x \in Thread : Handling(x)' => Handling(x)
    BY <1>1, <1>4, <1>5 DEF Handling, Saving
  <2>2. \A x \in Thread : sess'[x].uid \in {NULL, sess[x].uid}
    BY <1>4, <1>5
  <2> QED
    BY <1>3, <1>6, <2>1, <2>2, AloneKeeps DEF PlyrInv
<1>8. ASSUME Quiet'
      PROVE  /\ \A x \in Thread : RecordOK(sess'[x], plyr')
             /\ OnePlayerPerAccount'
  <2>1. Quiet /\ plyr' = [plyr EXCEPT ![s.uid] = p] /\ p # NULL
    BY <1>2, <1>3, <1>6, <1>8 DEF Quiet, Put
  <2>2. \A u \in Uid : plyr'[u] = IF u = s.uid THEN p ELSE plyr[u]
    BY <2>1 DEF TypeInv, TypeOK
  <2>3. \A u \in Uid : plyr[u] # NULL => plyr[u].aid # s.aid
    BY <1>1, <2>1 DEF PlyrInv, Records, RecordOK
  <2>4. OnePlayerPerAccount'
    BY <1>2, <2>1, <2>2, <2>3 DEF PlyrInv, OnePlayerPerAccount, Quiet
  <2>5. RecordOK(r, plyr')
    BY <1>1, <1>2, <1>4, <2>1, <2>2 DEF RecordOK
  <2>6. ASSUME NEW x \in Thread, x # t
        PROVE  RecordOK(sess[x], plyr')
    <3>1. sess[x].pc \in {"none", "playing", "player"}
      BY <1>1, <2>1, <2>6 DEF PlyrInv, Alone, Quiet, Handling, Saving
    <3>2. sess[x].pc # "none" => sess[x].uid # s.uid /\ sess[x].uid \in Uid
      BY <1>1, <2>1, <2>6, <3>1 DEF PlyrInv, Alone, TypeInv, SessOK
    <3> QED
      BY <2>1, <2>2, <3>1, <3>2 DEF PlyrInv, Records, RecordOK
  <2> QED
    BY <1>5, <2>4, <2>5, <2>6
<1>9. Records' /\ OnePlayerPerAccount'
  BY <1>8 DEF Records, OnePlayerPerAccount, Quiet
<1>10. InventoryFirst'
  BY <1>3, <1>4, <1>5, <1>6 DEF PlyrInv, InventoryFirst
<1>11. StoredTeamsResolve'
  BY <1>2, <1>3, <1>6 DEF PlyrInv, StoredTeamsResolve, Put, TypeInv, TypeOK
<1> QED
  BY <1>7, <1>9, <1>10, <1>11 DEF PlyrInv

\* Every step of a session thread keeps the invariant of the players.
LEMMA PlyrSession ==
  ASSUME TypeInv, PlyrInv, NEW t \in Thread, SessionStep(t)
  PROVE  PlyrInv'
<1> USE AccountsAssumption
<1> DEFINE s == sess[t]
<1>a. s \in Session /\ sess \in [Thread -> Session]
  BY DEF TypeInv, TypeOK
<1>b. Quiet => RecordOK(s, plyr)
  BY DEF PlyrInv, Records
<1>1. ASSUME NEW a \in Aid, TokenReq(t, a)
      PROVE  PlyrInv'
  BY <1>1, PlyrTokenReq
<1>2. CASE FindPlayer(t) \/ NewPlayer(t) \/ SavePlayer(t) \/ NewPlayerSave(t) \/ Own(t)
  BY <1>2, PlyrFindPlayer, PlyrNewPlayer, PlyrSavePlayer, PlyrNewPlayerSave, PlyrOwn
<1>3. CASE Close(t)
  BY <1>3, PlyrClose DEF Close, hisVars
<1>4. ASSUME NEW q \in {"attach", "playing", "own"}, sess' = [sess EXCEPT ![t].pc = q],
             \/ q = "attach" /\ s.pc \in {"kick", "kicked"}
             \/ q = "playing" /\ s.pc = "attach"
             \/ q = "own" /\ s.pc = "saveIds",
             UNCHANGED <<plyr, inv, crowded, shared>>, failed => failed'
      PROVE  PlyrInv'
  <2> DEFINE r == [s EXCEPT !.pc = q]
  <2>1. sess' = [sess EXCEPT ![t] = r] /\ r.pc = q /\ r.uid = s.uid /\ r.aid = s.aid
        /\ r.player = s.player
    BY <1>a, <1>4 DEF Session
  <2> HIDE DEF r
  <2>2. Quiet => RecordOK(r, plyr)
    BY <1>b, <1>4, <2>1 DEF RecordOK
  <2> QED
    BY <1>4, <2>1, <2>2, QuietStep
<1>5. CASE Kick(t)
  <2>1. ASSUME NEW x \in Thread, sess[x].pc = "playing", sess[x].uid = s.uid, BeginSave(x),
               sess' = [sess EXCEPT ![x] = Begun(x), ![t].pc = "kicked"]
        PROVE  PlyrInv'
    BY <1>5, <2>1, PlyrClose DEF Kick, hisVars
  <2>2. CASE sess' = [sess EXCEPT ![t].pc = "attach"] /\ UNCHANGED <<plyr, inv, failed>>
    BY <1>4, <1>5, <2>2 DEF Kick, hisVars
  <2> QED
    BY <1>5, <2>1, <2>2 DEF Kick
<1>6. CASE Kicked(t)
  BY <1>4, <1>6 DEF Kicked, dbVars, hisVars
<1>7. CASE Attach(t)
  BY <1>4, <1>7 DEF Attach, dbVars, hisVars
<1>8. CASE NewPlayerSaveIds(t)
  BY <1>4, <1>8 DEF NewPlayerSaveIds, PutIds, hisVars
<1>9. ASSUME NEW r, sess' = [sess EXCEPT ![t] = r], s.pc = "playing", r.pc = "playing",
             r.uid = s.uid, r.player.aid = s.player.aid,
             r.player.progress >= s.player.progress, r.player.progress \in Nat,
             UNCHANGED <<plyr, inv, crowded, shared, failed>>
      PROVE  PlyrInv'
  <2>1. Quiet => RecordOK(r, plyr)
    <3> SUFFICES ASSUME Quiet
                 PROVE  RecordOK(r, plyr)
      OBVIOUS
    <3>1. plyr[s.uid] # NULL /\ s.player.progress >= plyr[s.uid].progress
          /\ s.player.aid \in {NULL, plyr[s.uid].aid}
      BY <1>b, <1>9 DEF RecordOK
    <3>2. plyr[s.uid] \in Player /\ s.player \in Player
      BY <1>a, <1>9, <3>1 DEF TypeInv, TypeOK, SessOK, Session
    <3>3. r.player.progress >= plyr[s.uid].progress
      BY <1>9, <3>1, <3>2 DEF Player
    <3> QED
      BY <1>9, <3>1, <3>3 DEF RecordOK
  <2> QED
    BY <1>9, <2>1, QuietStep
<1>10. s.player \in Player /\ s.player.progress \in Nat
  BY <1>a DEF Session, Player
<1>11. CASE OnLogin(t)
  <2> DEFINE r == [s EXCEPT !.player.team = TRUE]
  <2>1. sess' = [sess EXCEPT ![t] = r] /\ s.pc = "playing"
    BY <1>a, <1>11 DEF OnLogin
  <2>2. r.pc = s.pc /\ r.uid = s.uid /\ r.player.aid = s.player.aid
        /\ r.player.progress = s.player.progress
    BY <1>a, <1>10 DEF Session, Player
  <2> HIDE DEF r
  <2>3. UNCHANGED <<plyr, inv, crowded, shared, failed>>
    BY <1>11 DEF OnLogin, dbVars, hisVars
  <2>4. r.player.progress >= s.player.progress /\ r.player.progress \in Nat
    BY <1>10, <2>2
  <2> QED
    BY <1>9, <2>1, <2>2, <2>3, <2>4
<1>12. CASE Play(t)
  <2> DEFINE r == [s EXCEPT !.player.progress = @ + 1]
  <2>1. sess' = [sess EXCEPT ![t] = r] /\ s.pc = "playing"
    BY <1>a, <1>12 DEF Play
  <2>2. r.pc = s.pc /\ r.uid = s.uid /\ r.player.aid = s.player.aid
        /\ r.player.progress = s.player.progress + 1
    BY <1>a, <1>10 DEF Session, Player
  <2> HIDE DEF r
  <2>3. UNCHANGED <<plyr, inv, crowded, shared, failed>>
    BY <1>12 DEF Play, dbVars, hisVars
  <2>4. r.player.progress >= s.player.progress /\ r.player.progress \in Nat
    BY <1>10, <2>2
  <2> QED
    BY <1>9, <2>1, <2>2, <2>3, <2>4
<1> QED
  BY <1>1, <1>2, <1>3, <1>5, <1>6, <1>7, <1>8, <1>11, <1>12 DEF SessionStep

\* Every step of the process keeps the invariant of the players.
LEMMA PlyrStep == TypeInv /\ PlyrInv /\ [Next]_vars => PlyrInv'
<1> SUFFICES ASSUME TypeInv, PlyrInv, [Next]_vars
             PROVE  PlyrInv'
  OBVIOUS
<1>1. CASE Dispatch
  <2>1. failed => failed'
    BY <1>1, DispatchFrame, Zenon
  <2>2. UNCHANGED <<plyr, inv, sess, crowded, shared>>
    BY <1>1, DispatchFrame DEF hisVars
  <2> QED
    BY <2>1, <2>2, PlyrFrame
<1>2. CASE Console
  <2>1. failed => failed'
    BY <1>2 DEF Console, Create, CreateAlloc, CreateSave, CreateSaveIds, CreateResave, DeleteFind,
                Delete, Put, PutIds
  <2> QED
    BY <1>2, <2>1, ConsoleFrame, PlyrFrame, SMTT(60) DEF hisVars
<1>3. ASSUME NEW t \in Thread, SessionStep(t)
      PROVE  PlyrInv'
  BY <1>3, PlyrSession
<1>4. ASSUME NEW clean \in BOOLEAN, Restart(clean)
      PROVE  PlyrInv'
  <2>1. \A t \in Thread : sess'[t].pc = "none" /\ sess'[t].uid = NULL
    BY <1>4 DEF Restart, NoSession
  <2>2. UNCHANGED <<plyr, inv, crowded, shared, failed>>
    BY <1>4 DEF Restart
  <2>3. Alone' /\ Records' /\ InventoryFirst'
    BY <2>1 DEF Alone, Handling, Saving, Records, RecordOK, InventoryFirst
  <2>4. OnePlayerPerAccount' /\ StoredTeamsResolve'
    BY <2>2 DEF PlyrInv, OnePlayerPerAccount, StoredTeamsResolve
  <2> QED
    BY <2>3, <2>4 DEF PlyrInv
<1>5. CASE UNCHANGED vars
  BY <1>5, PlyrFrame DEF vars, dbVars, hisVars
<1> QED
  BY <1>1, <1>2, <1>3, <1>4, <1>5 DEF Next

\* It holds in every reachable state.
LEMMA PlyrInvariant == Spec => []PlyrInv
BY PlyrInit, PlyrStep, TypeInvariant, PTL DEF Spec

(***************************************************************************)
(* An account has at most one player, also after crashes and deletions,    *)
(* under the conditions OnePlayerPerAccount names (newPlayer, setAccount). *)
(***************************************************************************)
THEOREM OnePlayer == Spec => []OnePlayerPerAccount
<1>1. PlyrInv => OnePlayerPerAccount
  BY DEF PlyrInv
<1> QED
  BY <1>1, PlyrInvariant, PTL

(***************************************************************************)
(* The team of a stored player refers to a stored avatar and weapon, also  *)
(* when the process crashed between the writes (saveToDb).                 *)
(***************************************************************************)
THEOREM TeamsResolve == Spec => []StoredTeamsResolve
<1>1. PlyrInv => StoredTeamsResolve
  BY DEF PlyrInv
<1> QED
  BY <1>1, PlyrInvariant, PTL

\* A write of a session's copy does not set the stored player back: the copy
\* is at least as far as the record (newPlayer, setAccount, ~Player).
LEMMA WriteKeepsProgress ==
  ASSUME TypeInv, NEW u \in Uid, NEW p \in Player,
         plyr[u] = NULL \/ p.progress >= plyr[u].progress,
         Put(u, p, plyr), ~failed', NEW v \in Uid, plyr[v] # NULL
  PROVE  plyr'[v].progress >= plyr[v].progress
<1>1. plyr' = [plyr EXCEPT ![u] = p]
  BY DEF Put
<1>2. plyr \in [Uid -> Player \cup {NULL}]
  BY DEF TypeInv, TypeOK
<1>3. plyr[v].progress \in Nat
  BY <1>2, AccountsAssumption DEF Player
<1> QED
  BY <1>1, <1>2, <1>3

\* ~Player begins with a write of the inventory or of the player.
LEMMA BeginSaveKeepsProgress ==
  ASSUME TypeInv, PlyrInv, Quiet, NEW t \in Thread, sess[t].pc = "playing", BeginSave(t),
         ~failed', NEW v \in Uid, plyr[v] # NULL
  PROVE  plyr'[v].progress >= plyr[v].progress
<1>1. sess[t].uid \in Uid /\ sess[t] \in Session
  BY DEF TypeInv, TypeOK, SessOK
<1>2. sess[t].player \in Player
  BY <1>1 DEF Session
<1>3. sess[t].player.progress >= plyr[sess[t].uid].progress
  BY DEF PlyrInv, Records, RecordOK
<1>4. CASE plyr' = plyr
  <2>1. plyr[v] \in Player
    BY DEF TypeInv, TypeOK
  <2>2. plyr[v].progress \in Nat
    BY <2>1, AccountsAssumption DEF Player
  <2> QED
    BY <1>4, <2>2
<1>5. CASE Put(sess[t].uid, sess[t].player, plyr)
  BY <1>1, <1>2, <1>3, <1>5, WriteKeepsProgress
<1> QED
  BY <1>4, <1>5 DEF BeginSave

\* No step of a session thread sets a stored player back.
LEMMA ProgressSession ==
  ASSUME TypeInv, PlyrInv, Quiet, NEW t \in Thread, SessionStep(t), ~failed',
         NEW v \in Uid, plyr[v] # NULL
  PROVE  plyr'[v].progress >= plyr[v].progress
<1> DEFINE s == sess[t]
<1>1. plyr[v] \in Player
  BY DEF TypeInv, TypeOK
<1>2. plyr[v].progress \in Nat
  BY <1>1, AccountsAssumption DEF Player
<1>3. CASE plyr' = plyr
  BY <1>2, <1>3
<1>4. s \in Session /\ s.player \in Player /\ SessOK /\ RecordOK(s, plyr)
  BY DEF TypeInv, TypeOK, PlyrInv, Records, Session
<1>5. CASE SavePlayer(t)
  <2>1. s.pc = "player" /\ Put(s.uid, s.player, plyr)
    BY <1>5 DEF SavePlayer
  <2>2. s.uid \in Uid /\ s.player.progress >= plyr[s.uid].progress
    BY <1>4, <2>1 DEF SessOK, RecordOK
  <2> QED
    BY <1>4, <2>1, <2>2, WriteKeepsProgress
<1>6. CASE NewPlayerSave(t)
  <2>1. s.pc = "saveNew" /\ Put(s.uid, NoPlayer, plyr)
    BY <1>6 DEF NewPlayerSave
  <2>2. s.uid \in Uid /\ plyr[s.uid] = NULL
    BY <1>4, <2>1 DEF SessOK, RecordOK
  <2> QED
    BY <2>1, <2>2, NoPlayerIsPlayer, WriteKeepsProgress
<1>7. CASE Own(t)
  <2> DEFINE p == [NoPlayer EXCEPT !.aid = s.aid]
  <2>1. s.pc = "own" /\ Put(s.uid, p, plyr)
    BY <1>7 DEF Own
  <2>2. s.uid \in Uid /\ plyr[s.uid] = NoPlayer /\ s.aid \in Aid
    BY <1>4, <2>1 DEF SessOK, RecordOK
  <2>3. p \in Player
    BY <2>2, NoPlayerIsPlayer DEF Player
  <2>4. p.progress = 0 /\ NoPlayer.progress = 0
    BY DEF NoPlayer
  <2> HIDE DEF p
  <2> QED
    BY <2>1, <2>2, <2>3, <2>4, WriteKeepsProgress
<1>8. CASE Close(t)
  BY <1>8, BeginSaveKeepsProgress DEF Close
<1>9. CASE Kick(t)
  <2>1. ASSUME NEW x \in Thread, sess[x].pc = "playing", BeginSave(x)
        PROVE  plyr'[v].progress >= plyr[v].progress
    BY <2>1, BeginSaveKeepsProgress, SMTT(60)
  <2> QED
    BY <1>3, <1>9, <2>1 DEF Kick
<1>10. CASE \/ \E a \in Aid : TokenReq(t, a)
            \/ FindPlayer(t) \/ Kicked(t) \/ Attach(t) \/ OnLogin(t) \/ Play(t)
            \/ NewPlayer(t) \/ NewPlayerSaveIds(t)
  BY <1>3, <1>10 DEF TokenReq, FindPlayer, Kicked, Attach, OnLogin, Play, NewPlayer,
                     NewPlayerSaveIds, dbVars
<1> QED
  BY <1>5, <1>6, <1>7, <1>8, <1>9, <1>10 DEF SessionStep

\* What happened stays recorded.
LEMMA HistoryStays ==
  ASSUME TypeInv, [Next]_vars, Quiet'
  PROVE  Quiet
<1>1. CASE Dispatch
  <2>1. failed => failed'
    BY <1>1, DispatchFrame, Zenon
  <2>2. UNCHANGED hisVars
    BY <1>1, DispatchFrame
  <2> QED
    BY <2>1, <2>2 DEF Quiet, hisVars
<1>2. CASE Console
  <2>1. failed => failed'
    BY <1>2 DEF Console, Create, CreateAlloc, CreateSave, CreateSaveIds, CreateResave, DeleteFind,
                Delete, Put, PutIds
  <2> QED
    BY <1>2, <2>1, ConsoleFrame, SMTT(60) DEF Quiet, hisVars
<1>3. ASSUME NEW t \in Thread, SessionStep(t)
      PROVE  Quiet
  <2>1. failed => failed'
    BY <1>3 DEF SessionStep, TokenReq, FindPlayer, Kick, Kicked, Attach, OnLogin, Play, Close,
                SavePlayer, NewPlayer, NewPlayerSave, NewPlayerSaveIds, Own, BeginSave, Put, PutIds
  <2>2. (crowded => crowded') /\ (shared => shared')
    <3>1. CASE \E a \in Aid : TokenReq(t, a)
      <4>1. crowded' = (crowded \/ \E x \in Thread \ {t} : Handling(x)) /\ shared' = shared
        BY <3>1 DEF TokenReq
      <4> QED
        BY <4>1
    <3>2. CASE FindPlayer(t)
      <4>1. crowded' = crowded
        BY <3>2 DEF FindPlayer
      <4>2. \/ shared' = shared
            \/ \E u \in Uid : shared' = (shared \/ \E x \in Thread \ {t} : sess[x].uid = u)
        BY <3>2 DEF FindPlayer, PlayerOf
      <4>3. ASSUME NEW u \in Uid, shared' = (shared \/ \E x \in Thread \ {t} : sess[x].uid = u)
            PROVE  shared => shared'
        BY <4>3
      <4> QED
        BY <4>1, <4>2, <4>3
    <3>3. CASE UNCHANGED hisVars
      BY <3>3 DEF hisVars
    <3> QED
      BY <1>3, <3>1, <3>2, <3>3 DEF SessionStep, Kick, Kicked, Attach, OnLogin, Play, Close,
           SavePlayer, NewPlayer, NewPlayerSave, NewPlayerSaveIds, Own
  <2> QED
    BY <2>1, <2>2, ZenonT(60) DEF Quiet
<1>4. ASSUME NEW clean \in BOOLEAN, Restart(clean)
      PROVE  Quiet
  BY <1>4 DEF Restart, Quiet
<1>5. CASE UNCHANGED vars
  BY <1>5 DEF vars, hisVars, Quiet
<1> QED
  BY <1>1, <1>2, <1>3, <1>4, <1>5 DEF Next

\* No step at all sets a stored player back.
LEMMA ProgressStep ==
  ASSUME TypeInv, PlyrInv, [Next]_vars, Quiet', NEW v \in Uid, plyr[v] # NULL
  PROVE  plyr'[v].progress >= plyr[v].progress
<1>1. Quiet /\ ~failed'
  BY HistoryStays DEF Quiet
<1>2. plyr[v] \in Player
  BY DEF TypeInv, TypeOK
<1>3. plyr[v].progress \in Nat
  BY <1>2, AccountsAssumption DEF Player
<1>4. ASSUME NEW t \in Thread, SessionStep(t)
      PROVE  plyr'[v].progress >= plyr[v].progress
  BY <1>1, <1>4, ProgressSession
<1>5. CASE Dispatch \/ Console \/ UNCHANGED vars \/ \E clean \in BOOLEAN : Restart(clean)
  <2>1. plyr' = plyr
    BY <1>5, ConsoleFrame DEF Dispatch, ActionTicket, BindRealname, Login, Combo, DispatchWith,
         DispatchSave, dbVars, Restart, vars
  <2> QED
    BY <1>3, <2>1
<1> QED
  BY <1>4, <1>5 DEF Next

(***************************************************************************)
(* Saved progress is never lost under the conditions ProgressKept names:   *)
(* a copy a session holds is never behind the record it will be written    *)
(* over (newPlayer, setAccount, ~Player, close).                           *)
(***************************************************************************)
THEOREM ProgressHolds == Spec => ProgressKept
<1> DEFINE A == \A u \in Uid : plyr[u] # NULL /\ ~failed' /\ ~crowded' /\ ~shared' =>
                  plyr'[u].progress >= plyr[u].progress
<1>1. TypeInv /\ PlyrInv /\ [Next]_vars => [A]_vars
  BY ProgressStep DEF Quiet
<1> HIDE DEF A
<1>2. Spec => [][A]_vars
  BY <1>1, TypeInvariant, PlyrInvariant, PTL DEF Spec
<1> QED
  BY <1>2 DEF A, ProgressKept
=============================================================================
