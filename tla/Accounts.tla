------------------------------ MODULE Accounts ------------------------------
(***************************************************************************)
(* Accounts and players in the database (src/src/dbgate.cpp) and the three *)
(* kinds of thread that work on them without a lock: the dispatch thread's *)
(* login endpoints (src/src/dispatch.cpp), the console's account command   *)
(* (src/src/commands/account.cpp) and the token request of the session     *)
(* threads (src/src/packets/player_token.cpp).  Every LevelDB call is one  *)
(* step.  A thread reads a record, changes its copy and writes the copy    *)
(* back, so others may come in between; a write may fail, which no caller  *)
(* looks at; and the process may crash between any two steps.  LevelDB     *)
(* keeps what was written before a crash of the process.                   *)
(*                                                                         *)
(* A token is a number; the n-th one drawn is n, as getrandom does not     *)
(* repeat, and a client can present the tokens it was given.  Module Codec *)
(* shows that storing a token keeps it.  A request that is refused changes *)
(* nothing and is no action; neither is handleVerify, which only reads.    *)
(***************************************************************************)
EXTENDS Naturals

CONSTANTS
  MaxAid, MaxUid,   \* bounds: ids that may be allocated
  Name,             \* usernames the console is given
  Thread,           \* session threads
  MaxTokens,        \* bound: tokens drawn in one behaviour
  MaxProgress,      \* bound: progress of a player
  MaxLogins,        \* bound: token requests of session threads
  MaxCrashes,       \* bound: how often the process ends
  WritesFail,       \* whether LevelDB writes may fail
  NULL

Aid == 1..MaxAid
Uid == 1..MaxUid
Token == 1..MaxTokens
NoToken == 0

ASSUME AccountsAssumption ==
  /\ MaxAid \in Nat /\ MaxUid \in Nat /\ MaxTokens \in Nat
  /\ MaxProgress \in Nat /\ MaxLogins \in Nat /\ MaxCrashes \in Nat
  /\ WritesFail \in BOOLEAN
  /\ NULL \notin Aid /\ NULL \notin Uid /\ NULL \notin Name

\* storage::AccountInfo and storage::PlayerInfo.
Account == [name : Name, auth : Token \cup {NoToken}, combo : Token \cup {NoToken},
            ticket : Token \cup {NoToken}]
\* A logged in Player has a team, which names an avatar, which has a weapon.
Player == [aid : Aid \cup {NULL}, progress : 0..MaxProgress, team : BOOLEAN]
NoPlayer == [aid |-> NULL, progress |-> 0, team |-> FALSE]

ASSUME RecordAssumption == NULL \notin Account /\ NULL \notin Player

VARIABLES
  acct, plyr,     \* the database: records by id, NULL where there is none
  inv,            \* the database: whether the avatar and the weapon are stored
  diskIds,        \* the database: the record "nextID"
  nextIds,        \* next_ids in memory
  disp,           \* the dispatch thread's handler and its Account copy
  cons,           \* the console's command and its Account copy
  sess,           \* the session threads and their Player copies
  drawn,          \* how many tokens were drawn
  given,          \* tokens that were sent to a client
  latest,         \* history: the last combo token given out per account
  logins,         \* how many token requests were handled
  crashes,        \* how often the process ended
  failed,         \* history: a write failed
  raced,          \* history: a copy was written over a newer record
  crowded,        \* history: two token requests were handled at once
  shared          \* history: a player was loaded while a session had it

dbVars == <<acct, plyr, inv, diskIds>>
tokVars == <<drawn, given, latest>>
hisVars == <<logins, crashes, crowded, shared>>
vars == <<dbVars, nextIds, disp, cons, sess, tokVars, hisVars, failed, raced>>

Ids == [aid : 0..MaxAid, uid : 0..MaxUid]
Work == [pc : {"idle", "save", "alloc", "saveNew", "saveIds", "resave", "delete"},
         aid : Aid \cup {NULL}, seen : Account \cup {NULL}, acc : Account \cup {NULL},
         answer : Token \cup {NoToken}, name : Name \cup {NULL}]
Idle == [pc |-> "idle", aid |-> NULL, seen |-> NULL, acc |-> NULL,
         answer |-> NoToken, name |-> NULL]
Session == [pc : {"none", "find", "kick", "kicked", "alloc", "saveNew", "saveIds", "own",
                  "attach", "playing", "player"},
            aid : Aid \cup {NULL}, uid : Uid \cup {NULL}, player : Player]
NoSession == [pc |-> "none", aid |-> NULL, uid |-> NULL, player |-> NoPlayer]

\* Every variable stays within its declared shape.
TypeOK ==
  /\ acct \in [Aid -> Account \cup {NULL}]
  /\ plyr \in [Uid -> Player \cup {NULL}]
  /\ inv \in [Uid -> BOOLEAN]
  /\ diskIds \in Ids /\ nextIds \in Ids
  /\ disp \in Work /\ cons \in Work
  /\ sess \in [Thread -> Session]
  /\ drawn \in 0..MaxTokens
  /\ given \subseteq Token
  /\ latest \in [Aid -> Token \cup {NoToken}]
  /\ logins \in 0..MaxLogins /\ crashes \in 0..MaxCrashes
  /\ failed \in BOOLEAN /\ raced \in BOOLEAN
  /\ crowded \in BOOLEAN /\ shared \in BOOLEAN

\* An empty database: dbGate::load finds no "nextID".
Init ==
  /\ acct = [a \in Aid |-> NULL]
  /\ plyr = [u \in Uid |-> NULL]
  /\ inv = [u \in Uid |-> FALSE]
  /\ diskIds = [aid |-> 0, uid |-> 0]
  /\ nextIds = [aid |-> 0, uid |-> 0]
  /\ disp = Idle /\ cons = Idle
  /\ sess = [t \in Thread |-> NoSession]
  /\ drawn = 0 /\ given = {} /\ latest = [a \in Aid |-> NoToken]
  /\ logins = 0 /\ crashes = 0
  /\ failed = FALSE /\ raced = FALSE /\ crowded = FALSE /\ shared = FALSE

-----------------------------------------------------------------------------
\* setLdbObject and delLdbObject: an error is reported on stderr only.
Put(key, rec, db) == \/ /\ db' = [db EXCEPT ![key] = rec]
                        /\ failed' = failed
                     \/ /\ WritesFail
                        /\ db' = db
                        /\ failed' = TRUE

\* dbGate::save
PutIds == \/ diskIds' = nextIds /\ failed' = failed
          \/ WritesFail /\ diskIds' = diskIds /\ failed' = TRUE

\* A copy read as w.seen is written back although the record has changed.
Stale(w) == acct[w.aid] # w.seen

\* The first id from `from' on without a record.
FirstFree(db, ids, from) ==
  {i \in ids : from <= i /\ db[i] = NULL /\ \A j \in ids : from <= j /\ j < i => db[j] # NULL}

-----------------------------------------------------------------------------
(***************************************************************************)
(* The dispatch thread: one request at a time.  Each endpoint reads the    *)
(* account, draws a token into its copy, saves the copy and answers.       *)
(***************************************************************************)
Draw == drawn + 1
CanDraw == drawn < MaxTokens

\* The handler goes on with copy `acc' of account a and will answer a token.
DispatchWith(a, acc, answer) ==
  /\ disp' = [Idle EXCEPT !.pc = "save", !.aid = a, !.seen = acct[a], !.acc = acc,
                          !.answer = answer]
  /\ UNCHANGED <<dbVars, nextIds, cons, sess, given, latest, hisVars, failed, raced>>

\* handleLogin finds the account by username, or a guest's by device; no
\* password is compared.  A guest is not told the token.
Login(a, guest) ==
  /\ disp.pc = "idle" /\ CanDraw
  /\ acct[a] # NULL
  /\ drawn' = Draw
  /\ DispatchWith(a, [acct[a] EXCEPT !.auth = Draw], IF guest THEN NoToken ELSE Draw)

\* The client presents the auth token of account a.
AuthMatches(a) == acct[a] # NULL /\ acct[a].auth \in given

\* handleCombo; a guest presents no token.
Combo(a, guest) ==
  /\ disp.pc = "idle" /\ CanDraw
  /\ acct[a] # NULL
  /\ guest \/ AuthMatches(a)
  /\ drawn' = Draw
  /\ DispatchWith(a, [acct[a] EXCEPT !.combo = Draw], Draw)

ActionTicket(a) ==
  /\ disp.pc = "idle" /\ CanDraw
  /\ AuthMatches(a)
  /\ drawn' = Draw
  /\ DispatchWith(a, [acct[a] EXCEPT !.ticket = Draw], Draw)

\* handleBindRealname: the first account with the ticket presented; one that
\* decodes to nothing is the ticket of an account that has none.  Only the
\* time of the ticket is changed, which nothing reads.
BindRealname(a) ==
  /\ disp.pc = "idle"
  /\ acct[a] # NULL /\ acct[a].ticket \in given \cup {NoToken}
  /\ \A b \in 1..(a - 1) : acct[b] # NULL => acct[b].ticket # acct[a].ticket
  /\ drawn' = drawn
  /\ DispatchWith(a, acct[a], NoToken)

\* The answer reaches the client.
Answer(w) ==
  /\ given' = given \cup ({w.answer} \ {NoToken})
  /\ latest' = IF w.answer # NoToken /\ w.answer = w.acc.combo
               THEN [latest EXCEPT ![w.aid] = w.answer] ELSE latest

\* Mutant: the new token is sent to the client and not stored.
DispatchAnswers ==
  /\ disp.pc = "save"
  /\ UNCHANGED <<acct, failed, raced>>
  /\ Answer(disp)
  /\ disp' = Idle
  /\ UNCHANGED <<plyr, inv, diskIds, nextIds, cons, sess, drawn, hisVars>>

\* saveAccount and the answer, which holds the token drawn.
DispatchSave ==
  /\ disp.pc = "save"
  /\ Put(disp.aid, disp.acc, acct)
  /\ raced' = (raced \/ Stale(disp))
  /\ Answer(disp)
  /\ disp' = Idle
  /\ UNCHANGED <<plyr, inv, diskIds, nextIds, cons, sess, drawn, hisVars>>

Dispatch ==
  \/ \E a \in Aid : \/ ActionTicket(a) \/ BindRealname(a)
                    \/ \E guest \in BOOLEAN : Login(a, guest) \/ Combo(a, guest)
  \/ DispatchSave

-----------------------------------------------------------------------------
(***************************************************************************)
(* The console: account create and account delete.                         *)
(***************************************************************************)
\* getAccountByUsername: the first account with that name.
Named(n) == {a \in Aid : /\ acct[a] # NULL /\ acct[a].name = n
                         /\ \A b \in 1..(a - 1) : acct[b] # NULL => acct[b].name # n}

\* Mutant: the name is not looked up.
CreateBlindly(n) ==
  /\ cons.pc = "idle"
  /\ cons' = [Idle EXCEPT !.pc = "alloc", !.name = n]
  /\ UNCHANGED <<dbVars, nextIds, disp, sess, tokVars, hisVars, failed, raced>>

\* createAccount returns an account that has the name already.
Create(n) ==
  /\ cons.pc = "idle"
  /\ \/ \E a \in Named(n) :
          cons' = [Idle EXCEPT !.pc = "resave", !.aid = a, !.seen = acct[a], !.acc = acct[a]]
     \/ Named(n) = {} /\ cons' = [Idle EXCEPT !.pc = "alloc", !.name = n]
  /\ UNCHANGED <<dbVars, nextIds, disp, sess, tokVars, hisVars, failed, raced>>

\* The counter holds the last id used; 0 when there was none.
StartAt(last) == IF last = 0 THEN 1 ELSE last

\* Mutant: the id in the counter is taken without looking it up.
CreateAllocCounter ==
  /\ cons.pc = "alloc"
  /\ LET a == StartAt(nextIds.aid) IN
       /\ nextIds' = [nextIds EXCEPT !.aid = a]
       /\ cons' = [cons EXCEPT !.pc = "saveNew", !.aid = a,
                               !.acc = [name |-> cons.name, auth |-> NoToken,
                                        combo |-> NoToken, ticket |-> NoToken]]
  /\ UNCHANGED <<dbVars, disp, sess, tokVars, hisVars, failed, raced>>

\* Mutant: the counter is set to the id after the one taken.
CreateAllocAhead ==
  /\ cons.pc = "alloc"
  /\ \E a \in FirstFree(acct, Aid, StartAt(nextIds.aid)) :
       /\ nextIds' = [nextIds EXCEPT !.aid = a + 1]
       /\ cons' = [cons EXCEPT !.pc = "saveNew", !.aid = a,
                               !.acc = [name |-> cons.name, auth |-> NoToken,
                                        combo |-> NoToken, ticket |-> NoToken]]
  /\ UNCHANGED <<dbVars, disp, sess, tokVars, hisVars, failed, raced>>

\* The search for a free id, and set_next_aid.
CreateAlloc ==
  /\ cons.pc = "alloc"
  /\ \E a \in FirstFree(acct, Aid, StartAt(nextIds.aid)) :
       /\ nextIds' = [nextIds EXCEPT !.aid = a]
       /\ cons' = [cons EXCEPT !.pc = "saveNew", !.aid = a,
                               !.acc = [name |-> cons.name, auth |-> NoToken,
                                        combo |-> NoToken, ticket |-> NoToken]]
  /\ UNCHANGED <<dbVars, disp, sess, tokVars, hisVars, failed, raced>>

\* saveAccount of the new account
CreateSave ==
  /\ cons.pc = "saveNew"
  /\ Put(cons.aid, cons.acc, acct)
  /\ latest' = [latest EXCEPT ![cons.aid] = NoToken]
  /\ cons' = [cons EXCEPT !.pc = "saveIds", !.seen = cons.acc]
  /\ UNCHANGED <<plyr, inv, diskIds, nextIds, disp, sess, drawn, given, hisVars, raced>>

\* save
CreateSaveIds ==
  /\ cons.pc = "saveIds"
  /\ PutIds
  /\ cons' = [cons EXCEPT !.pc = "resave"]
  /\ UNCHANGED <<acct, plyr, inv, nextIds, disp, sess, tokVars, hisVars, raced>>

\* newAccount->saveToDb in handleCreate, also of an account that existed.
CreateResave ==
  /\ cons.pc = "resave"
  /\ Put(cons.aid, cons.acc, acct)
  /\ raced' = (raced \/ Stale(cons))
  /\ cons' = Idle
  /\ UNCHANGED <<plyr, inv, diskIds, nextIds, disp, sess, tokVars, hisVars>>

\* handleDelete finds the account by name, aid or uid ...
DeleteFind(a) ==
  /\ cons.pc = "idle" /\ acct[a] # NULL
  /\ cons' = [Idle EXCEPT !.pc = "delete", !.aid = a]
  /\ UNCHANGED <<dbVars, nextIds, disp, sess, tokVars, hisVars, failed, raced>>

\* ... and deletes its record; its players stay.
Delete ==
  /\ cons.pc = "delete"
  /\ Put(cons.aid, NULL, acct)
  /\ latest' = [latest EXCEPT ![cons.aid] = NoToken]
  /\ cons' = Idle
  /\ UNCHANGED <<plyr, inv, diskIds, nextIds, disp, sess, drawn, given, hisVars, raced>>

Console ==
  \/ \E n \in Name : Create(n)
  \/ CreateAlloc \/ CreateSave \/ CreateSaveIds \/ CreateResave
  \/ \E a \in Aid : DeleteFind(a)
  \/ Delete

-----------------------------------------------------------------------------
(***************************************************************************)
(* Session threads: handleGetPlayerTokenReq, playing, and the end of the   *)
(* session, which saves the player.                                        *)
(***************************************************************************)
Saving(t) == sess[t].pc = "player"
Handling(t) == sess[t].pc \notin {"none", "playing"} /\ ~Saving(t)

\* The account exists and its combo token is presented.
TokenReq(t, a) ==
  /\ sess[t].pc = "none" /\ logins < MaxLogins
  /\ acct[a] # NULL /\ acct[a].combo \in given
  /\ sess' = [sess EXCEPT ![t].pc = "find", ![t].aid = a]
  /\ logins' = logins + 1
  /\ crowded' = (crowded \/ \E x \in Thread \ {t} : Handling(x))
  /\ UNCHANGED <<dbVars, nextIds, disp, cons, tokVars, crashes, shared, failed, raced>>

\* getPlayerByAid: the first player of account a.
PlayerOf(a) == {u \in Uid : /\ plyr[u] # NULL /\ plyr[u].aid = a
                            /\ \A v \in 1..(u - 1) : plyr[v] # NULL => plyr[v].aid # a}

\* Mutant: no player is ever found.
FindNothing(t) ==
  /\ sess[t].pc = "find"
  /\ sess' = [sess EXCEPT ![t].pc = "alloc"]
  /\ UNCHANGED <<dbVars, nextIds, disp, cons, tokVars, hisVars, failed, raced>>

\* The Player that is loaded looks its account up again; its inventory and
\* teams are not loaded.
FindPlayer(t) ==
  /\ sess[t].pc = "find"
  /\ \/ \E u \in PlayerOf(sess[t].aid) :
          /\ sess' = [sess EXCEPT ![t].pc = "kick", ![t].uid = u,
               ![t].player = [aid |-> IF acct[sess[t].aid] = NULL THEN NULL ELSE sess[t].aid,
                              progress |-> plyr[u].progress, team |-> FALSE]]
          /\ shared' = (shared \/ \E x \in Thread \ {t} : sess[x].uid = u)
     \/ /\ PlayerOf(sess[t].aid) = {}
        /\ sess' = [sess EXCEPT ![t].pc = "alloc"]
        /\ shared' = shared
  /\ UNCHANGED <<dbVars, nextIds, disp, cons, tokVars, logins, crashes, crowded, failed, raced>>

\* Mutant: the player is saved before its inventory.
BeginSaveLate(t) ==
  /\ Put(sess[t].uid, sess[t].player, plyr)
  /\ inv' = inv

\* ~Player begins with saveInventoryAndAvatars, which ignores errors.  Only the
\* player's record refers to what it writes, so it is one step.  A player who
\* did not log in has no inventory.
BeginSave(t) ==
  LET u == sess[t].uid IN
  \/ /\ sess[t].player.team
     /\ Put(u, TRUE, inv)
     /\ plyr' = plyr
  \/ /\ ~sess[t].player.team
     /\ Put(u, sess[t].player, plyr)
     /\ inv' = inv
Begun(t) == IF sess[t].player.team THEN [sess[t] EXCEPT !.pc = "player"] ELSE NoSession

\* getSessionByUid and close(4), which deletes the old session's Player.
Kick(t) ==
  /\ sess[t].pc = "kick"
  /\ LET old == {x \in Thread : sess[x].pc = "playing" /\ sess[x].uid = sess[t].uid} IN
     \/ \E x \in old :
          /\ BeginSave(x)
          /\ sess' = [sess EXCEPT ![x] = Begun(x), ![t].pc = "kicked"]
     \/ /\ old = {}
        /\ sess' = [sess EXCEPT ![t].pc = "attach"]
        /\ UNCHANGED <<plyr, inv, failed>>
  /\ UNCHANGED <<acct, diskIds, nextIds, disp, cons, tokVars, hisVars, raced>>

\* The handler goes on when the old Player is deleted.
Kicked(t) ==
  /\ sess[t].pc = "kicked"
  /\ \A x \in Thread \ {t} : ~(Saving(x) /\ sess[x].uid = sess[t].uid)
  /\ sess' = [sess EXCEPT ![t].pc = "attach"]
  /\ UNCHANGED <<dbVars, nextIds, disp, cons, tokVars, hisVars, failed, raced>>

\* Mutant: newPlayer takes the id in the counter without looking it up.
NewPlayerCounter(t) ==
  /\ sess[t].pc = "alloc"
  /\ LET u == StartAt(nextIds.uid) IN
       /\ nextIds' = [nextIds EXCEPT !.uid = u]
       /\ sess' = [sess EXCEPT ![t].pc = "saveNew", ![t].uid = u]
  /\ UNCHANGED <<dbVars, disp, cons, tokVars, hisVars, failed, raced>>

\* newPlayer: the search for a free id, and set_next_uid
NewPlayer(t) ==
  /\ sess[t].pc = "alloc"
  /\ \E u \in FirstFree(plyr, Uid, StartAt(nextIds.uid)) :
       /\ nextIds' = [nextIds EXCEPT !.uid = u]
       /\ sess' = [sess EXCEPT ![t].pc = "saveNew", ![t].uid = u]
  /\ UNCHANGED <<dbVars, disp, cons, tokVars, hisVars, failed, raced>>

\* savePlayer of a Player that has no account yet
NewPlayerSave(t) ==
  /\ sess[t].pc = "saveNew"
  /\ Put(sess[t].uid, NoPlayer, plyr)
  /\ sess' = [sess EXCEPT ![t].pc = "saveIds"]
  /\ UNCHANGED <<acct, inv, diskIds, nextIds, disp, cons, tokVars, hisVars, raced>>

\* save
NewPlayerSaveIds(t) ==
  /\ sess[t].pc = "saveIds"
  /\ PutIds
  /\ sess' = [sess EXCEPT ![t].pc = "own"]
  /\ UNCHANGED <<acct, plyr, inv, nextIds, disp, cons, tokVars, hisVars, raced>>

\* setAccount and saveToDb
Own(t) ==
  /\ sess[t].pc = "own"
  /\ LET p == [NoPlayer EXCEPT !.aid = sess[t].aid] IN
       /\ Put(sess[t].uid, p, plyr)
       /\ sess' = [sess EXCEPT ![t].pc = "attach", ![t].player = p]
  /\ UNCHANGED <<acct, inv, diskIds, nextIds, disp, cons, tokVars, hisVars, raced>>

\* setPlayer
Attach(t) ==
  /\ sess[t].pc = "attach"
  /\ sess' = [sess EXCEPT ![t].pc = "playing"]
  /\ UNCHANGED <<dbVars, nextIds, disp, cons, tokVars, hisVars, failed, raced>>

\* A field that is stored and loaded grows: Player::setProp.  No handler calls
\* it yet; that they will is what saving a Player is for.
Play(t) ==
  /\ sess[t].pc = "playing" /\ sess[t].player.team
  /\ sess[t].player.progress < MaxProgress
  /\ sess' = [sess EXCEPT ![t].player.progress = @ + 1]
  /\ UNCHANGED <<dbVars, nextIds, disp, cons, tokVars, hisVars, failed, raced>>

\* onLogin: a weapon, an avatar that has it, and a team with the avatar.
OnLogin(t) ==
  /\ sess[t].pc = "playing" /\ ~sess[t].player.team
  /\ sess' = [sess EXCEPT ![t].player.team = TRUE]
  /\ UNCHANGED <<dbVars, nextIds, disp, cons, tokVars, hisVars, failed, raced>>

\* The session is closed: ~Player saves.  It may crash instead (see SaveCrashes
\* in module Sessions), which is Restart(FALSE).
Close(t) ==
  /\ sess[t].pc = "playing"
  /\ BeginSave(t)
  /\ sess' = [sess EXCEPT ![t] = Begun(t)]
  /\ UNCHANGED <<acct, diskIds, nextIds, disp, cons, tokVars, hisVars, raced>>

\* savePlayer
SavePlayer(t) ==
  /\ sess[t].pc = "player"
  /\ Put(sess[t].uid, sess[t].player, plyr)
  /\ sess' = [sess EXCEPT ![t] = NoSession]
  /\ UNCHANGED <<acct, inv, diskIds, nextIds, disp, cons, tokVars, hisVars, raced>>

SessionStep(t) ==
  \/ \E a \in Aid : TokenReq(t, a)
  \/ FindPlayer(t) \/ Kick(t) \/ Kicked(t) \/ Attach(t) \/ OnLogin(t) \/ Play(t)
  \/ Close(t) \/ SavePlayer(t)
  \/ NewPlayer(t) \/ NewPlayerSave(t) \/ NewPlayerSaveIds(t) \/ Own(t)

-----------------------------------------------------------------------------
(***************************************************************************)
(* The process ends and is started again.  After a crash next_ids is what  *)
(* dbGate::load reads; when main ends in order, with both servers stopped, *)
(* ~dbGate has saved next_ids (session threads may be anywhere).           *)
(***************************************************************************)
Restart(clean) ==
  /\ crashes < MaxCrashes
  /\ clean => disp.pc = "idle" /\ cons.pc = "idle"
              /\ \A t \in Thread : sess[t].pc # "playing"
  /\ diskIds' = IF clean THEN nextIds ELSE diskIds
  /\ nextIds' = diskIds'
  /\ disp' = Idle /\ cons' = Idle
  /\ sess' = [t \in Thread |-> NoSession]
  /\ crashes' = crashes + 1
  /\ UNCHANGED <<acct, plyr, inv, tokVars, logins, crowded, shared, failed, raced>>

Next ==
  \/ Dispatch \/ Console
  \/ \E t \in Thread : SessionStep(t)
  \/ \E clean \in BOOLEAN : Restart(clean)

Spec == Init /\ [][Next]_vars

-----------------------------------------------------------------------------
(***************************************************************************)
(* An account id means one account: the record of an id never turns into   *)
(* the record of another username while it exists, through creates,        *)
(* deletes, saves of copies, failed writes and crashes, unless a copy was  *)
(* written over a newer record (dbGate::createAccount, saveAccount).       *)
(***************************************************************************)
IdentityKept ==
  [][\A a \in Aid : ~raced' /\ acct[a] # NULL /\ acct'[a] # NULL
       => acct'[a].name = acct[a].name]_vars

(***************************************************************************)
(* No two accounts have the same username, unless a copy was written over  *)
(* a newer record: an account deleted and created again comes back when    *)
(* the dispatch thread saves the copy it had (dbGate::createAccount).      *)
(***************************************************************************)
NamesUnique ==
  ~raced => \A a, b \in Aid :
    acct[a] # NULL /\ acct[b] # NULL /\ acct[a].name = acct[b].name => a = b

(***************************************************************************)
(* The last combo token a client was given is the one the token request    *)
(* compares with, for as long as the account exists, unless a write failed *)
(* or a copy was written over a newer record (handleCombo, handleCreate).  *)
(***************************************************************************)
LatestTokenStored ==
  ~failed /\ ~raced => \A a \in Aid :
    acct[a] # NULL => acct[a].combo = latest[a]

(***************************************************************************)
(* An account has at most one player, also after a crash between newPlayer *)
(* and setAccount or a deletion of the account, unless a write failed, two *)
(* token requests were handled at once or a player was loaded while a      *)
(* session had it (handleGetPlayerTokenReq).                               *)
(***************************************************************************)
OnePlayerPerAccount ==
  ~failed /\ ~crowded /\ ~shared => \A u, v \in Uid :
    plyr[u] # NULL /\ plyr[v] # NULL /\ plyr[u].aid # NULL /\ plyr[u].aid = plyr[v].aid
      => u = v

(***************************************************************************)
(* Saved progress is never lost: no step sets a stored player back, also   *)
(* after crashes, unless a write failed, two token requests were handled   *)
(* at once or a player was loaded while a session still had it (newPlayer, *)
(* ~Player, close).                                                        *)
(***************************************************************************)
ProgressKept ==
  [][\A u \in Uid : plyr[u] # NULL /\ ~failed' /\ ~crowded' /\ ~shared' =>
       plyr'[u].progress >= plyr[u].progress]_vars

(***************************************************************************)
(* A stored player refers only to what is stored: the avatar of its team   *)
(* and the avatar's weapon have their entries, also when the process       *)
(* crashed while the player was saved, unless a write failed (saveToDb).   *)
(***************************************************************************)
StoredTeamsResolve ==
  ~failed => \A u \in Uid : plyr[u] # NULL /\ plyr[u].team => inv[u]
=============================================================================
