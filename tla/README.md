# TLA+ verification of yagips

yagips is a game server in C++ and C: a UDP game server over the KCP transport,
an HTTP "dispatch"/SDK server that hands out accounts and tokens, a LevelDB
database gate, and a console, all in one process. It has several threads and no
lock. This directory holds TLA+ models of its core, the TLC configurations that
check them on small instances, and TLAPS proofs of the results that hold for
every instance.

## 1. Inventory of the system

| Component (src/src/) | State it keeps | Operations |
|---|---|---|
| Gameserver thread (`gameserver.cpp`) | `sessionList` (slots of `Session*`), one static `sock_t client` | receive a datagram and route it (data, handshake, shutdown request), accept into a slot, delete a closed session, `stop` |
| Session threads (`session.cpp`) | the `Session` object (state, player, kcpSession, last ping), cached pointers on the stack | `SessionMain` loop: receive, handle, update KCP, ping timeout; `close`; `sendPacket` |
| Login handlers (`packets/*.cpp`, `player.cpp` `onLogin`) | fields of the session, the player record | token request, login request, ping, scene requests |
| KCP (`kcp.c`, `kcpsession.cpp`) | send/receive queues and buffers, `snd_una`, `snd_nxt`, `rcv_nxt`, acklist, remote window, probe flags | `ikcp_send`, `ikcp_recv`, `ikcp_input`, `ikcp_update`/`ikcp_flush` |
| Database gate (`dbgate.cpp`) | accounts, players, avatars, items, next-id counters on disk | create, load, save, delete |
| Accounts, SDK tokens (`account.cpp`) and dispatch server (`dispatch.cpp`) | tokens and their timestamps; one connection at a time | login, verify, combo, action ticket, realname; accept/recv/parse/send loop |
| Process lifecycle (`yagips.cpp`, `console.cpp`) | the stop signals, thread handles | start, `handleTerm`, console loop, joins |
| Commands (`command.cpp`, `commands/account.cpp`) | none of their own | tokenise, create/delete account |
| Player data (`player.cpp`, `avatar.cpp`, `team.cpp`, `item.cpp`) | inventory, avatars, teams, properties | add, edit, clamp, save |
| Packet framing (`packet.cpp`) | none | parse, build |
| Static data, configuration, cryptography, vendored code (`data*`, `runconfig.cpp`, `toml.c`, `crypt.cpp`, `ec2b.cpp`, `keys.c`, `http.c`, `mt19937-64.c`) | tables read at start | pure functions |
| Encodings (`util.cpp`) | none | base64 and hex, both ways |

**How they interact.** `main` starts the gameserver and the dispatch thread and
then runs the console. The gameserver thread owns the socket and the slot table;
for each accepted client it starts a detached `std::thread` running
`SessionMain` and gives it a raw `Session*`. A session thread reads from the
KCP receive queue that the gameserver thread fills (`pushToKcp`), and writes to
the same socket. Session threads close each other's sessions (a second login of a
player), the gameserver thread closes and deletes sessions (shutdown request,
reuse of a slot, stop). Accounts, players and tokens pass between the dispatch,
console and session threads through the database.

**What is hard here.** Two threads in `Session::close` on one object; pointers
cached over a close; a freed `Session` whose address is used again; a datagram
that is late and names a session that is gone; KCP's windows and retransmission
over a network that loses, copies and reorders; the zero window; check-then-act
id allocation; a change of keys in the middle of a stream; one static buffer for
all requests and responses; threads that block where the stop signal does not
reach them, and threads that nobody waits for.
`PROJECT.json` lists the hazards at their lines.

**What makes each part correct.** The slot table and the allocated sessions agree;
a `KcpSession` is owned by one session; no login without an accepted token; a
closed session stays closed; a silent client is dropped; a message sent through
KCP arrives once, whole and in order, and eventually; memory stays within the
windows; an account id and a player id mean one account and one player, also over
a crash; the token a client was given is the one it is compared with; what a
stored player refers to is stored; both ends of a connection use the same key at the
same place; a request is answered for what it is, and one that is shorter than the
buffer stays inside it; a stop request ends the process, and neither server uses the
database after its end.

## 2. Modules

| Module | Models | Checked by | Proved in |
|---|---|---|---|
| `Sessions` | gameserver thread, session threads, login handlers, `Session::close` | `Sessions_*.cfg` through `MCSessions` | `SessionsProofs`, `OwnershipProofs` |
| `Kcp` | both ends of a KCP connection and the network | `Kcp_*.cfg` | `KcpProofs` |
| `Channel` | what KCP promises: a FIFO of whole messages | refined by `Kcp`, used by `Dialogue` | `KcpProofs`, as what `Kcp` implements |
| `Dialogue` | what a session and its client say over a `Channel`: packets, keys, the login and scene handlers | `Dialogue_any.cfg` | `DialogueProofs` |
| `Accounts` | accounts, players, inventories and id counters on disk; dispatch endpoints, console, session threads and crashes around them | `Accounts_*.cfg`, one of them through `MCAccounts` | `AccountsProofs` |
| `HttpServer` | the dispatch thread: connections, the static buffer, parsing, routing, sending | as part of `Lifecycle` | `LifecycleProofs` |
| `Lifecycle` | `main`, the console, signals, start, end and joins of both servers; extends `HttpServer` | `Lifecycle_*.cfg` through `MCLifecycle` | `LifecycleProofs` |
| `Codec` | base64 and hex of `util.cpp`, and how tokens pass through them | `Algorithms.cfg` through `MCAlgorithms` | `AlgorithmsProofs` |
| `Framing` | `Packet::build` and `Packet::parse` | the same | `AlgorithmsProofs` |
| `CommandLine` | how `handleCommand` splits a line | the same | `AlgorithmsProofs` |
| `Induction` | nothing of the code: induction over the naturals, stated with sets, for the proofs | | itself |

### Sessions

*Memory.* `obj` and `kobj` are the heap: a `Session` per address of `Addr`, a
`KcpSession` per address of `KAddr`. `new` (`Create`) may pick any address that is
not allocated, so an address freed a moment ago can be used again while a thread
still holds it. The contents stay after `delete`, as they do in practice until
someone else writes there. Each step that follows a pointer says, with
`Follow(ok)`, whether the object it means still exists. If it does not, the
behaviour is undefined in C++: `ub` becomes true and the process continues in one
of the ways `AfterUb` allows (`"crashed"`, or `"up"`: the access reads and writes
whatever is at the address now). A null pointer always crashes.

*Threads.* `pc` has one entry per session thread and one for the gameserver
thread `Gs`. A label stands for a point between two accesses to shared state.
`Session::close` is split at each read or write of a member (`CloseTest`,
`CloseKcp`, `CloseNull`, `ClosePlayer`, `ClosePlayerNull`, `CloseState`), because
several threads can be inside it on one object; `call[x]` is the running call of
thread x with the label it returns to. A handler is one step where it only
touches its own session, and several where it calls `close` or sends packets. What a request
contains is a free choice at the point where it is handled.

*The slot table.* It is read by session threads while the gameserver thread changes
it. `delete sessionList[i]` and `sessionList[i] = NULL` are therefore three steps:
`Delete` (the destructor's `close`), `Free` and `ClearSlot`. The session thread of a
known player reads the table twice: `TokenKnownPlayer` when the `Player` is loaded
(`getSessionById`, all slots) and `Kick` (`getSessionByUid`, up to the first match).
Between `Free` and `ClearSlot` both meet freed memory, after it a null pointer,
which neither function tests for.

*Datagrams.* A client to which session id s was given may at any later time
send data or a shutdown request for s, which covers loss, delay, duplication and
reordering. The routing loop is modelled with what it does, including that `sid` is
overwritten after a first mismatch (`DataFor`) and that the session id of a
shutdown request is compared with itself (`ShutdownFor`).

*Left out.* Session states `TIMEOUT`, `ERROR` and `FINISHED` (no code assigns
them), packet contents, encryption, and repeated session ids (64 random bits).
`SaveCrashes` is a second piece of undefined behaviour: a `Player` that was loaded
has no value in `curAvatar` until `onLogin`, and its destructor reads it. Whether the
player was loaded or is new is not told apart there, so the model crashes a little
more often than the code.

### Kcp and Channel

`Kcp` has two nodes, both running `kcp.c` as `kcpsession.cpp` sets it up: message
mode, `nodelay` 1, no congestion window. Each API call is an action: `Send`
(`ikcp_send`, which refuses messages of `IKCP_WND_RCV` fragments or more), `Recv`
(`ikcp_recv` with `ikcp_peeksize`), `InputAck/Push/Wask/Wins` (`ikcp_input`) and
`Flush` (`ikcp_flush`). `net` is the set of datagrams in flight; `Lose` and the
second branch of `Arrive` are loss and duplication, and delivery from a set is
reordering.

Abstractions: queues that `kcp.c` keeps sorted by number are sets; the acklist is a
set; a datagram carries one segment; which segments are sent again (RTO or
fast resend) and whether a probe is due are free choices, so every timing is
covered; sequence numbers do not wrap; datagrams that do not parse are not
modelled. Either end may send (`ServerMsgs`, `ClientMsgs`); the runs send in one
direction, which keeps windows and faults within reach. `MaxNet` keeps an end from flushing while that many datagrams are on
the way to its peer, a bound of the model only.

`Channel` is the abstract specification: `sent` and `got` per end, and `Deliver`
appends to `got` exactly the next message of the peer's `sent`. The two history
variables of `Kcp` have the same names, so the refinement mapping is the identity
on them and everything else is hidden.

### Dialogue

`Dialogue` composes the handlers with `Channel`: the two ends exchange packets over
a FIFO, which is what `Kcp` is shown to implement. A packet is its opcode and the
key it was encrypted with. `Receive` is one round of `SessionMain`: the packet is
decrypted, dropped if the key is not the server's, and given to its handler
(`processPacket`). A handler lists the packets it sends (`todo`), `sendPacket` sends one per step and
goes on with what the handler does behind it (`Proceed`: `onLogin` behind the login response,
`getCurAvatar` behind the scene's first notify), and
the state the handler sets at its end is `after`. Any packet may fail to be sent
(`sendPacketFails`): `onLogin` ignores it and goes on, every other handler returns. The client is external: it sends
any request of `Req` at any time, and goes over to the session key when the token
response arrives. `curAvatar` is null, never set or set, since `getCurAvatar` follows
it without a test.

### Accounts

The database is `acct`, `plyr` and `inv` (the account, player and inventory records of each id) and
`diskIds`, the record `nextID`, with `nextIds` its copy in memory. Each LevelDB
call is a step, except that the entries of one inventory are written in one; what a
thread read is its own copy (`disp`, `cons`, `sess[t]`) until it writes it back.

* The dispatch thread handles one request: `Login`, `Combo`, `ActionTicket` or
  `BindRealname` reads the account and draws a token, `DispatchSave` writes the copy
  and answers. Refused requests and `handleVerify` change nothing.
* The console runs `account create` (`Create`, `CreateAlloc`, `CreateSave`,
  `CreateSaveIds`, `CreateResave`: the record is written twice, as in the code) and
  `account delete`.
* A session thread runs `handleGetPlayerTokenReq`: `TokenReq`, `FindPlayer`, `Kick`
  and `Kicked`, or `NewPlayer`, `NewPlayerSave`, `NewPlayerSaveIds`, `Own`, then
  `Attach`. `OnLogin` makes a weapon, an avatar and a team; `Play` changes a stored
  field (`setProp`; no handler calls it yet). Closing saves: `BeginSave`
  writes the inventory, `SavePlayer` the player that refers to it.
* `Put` may fail, which is only printed. `Restart` is a crash, after which the
  counters are those on disk, or an orderly end, which saves them.

How a record looks is left out: a token is a number, a player its owner, one
counter and whether it has a team. Device ids are left out too: a guest's login may
find any account.

### HttpServer and Lifecycle

`HttpServer` is `DispatchServerMain`: `ds` is the place of the thread, and
`pkt_buf`, `actual_len`, `pret`, `meth`, `status` and `body` are its variables.
Requests and responses share `pkt_buf`, a row of cells (a method, a target, a
header line, the blank line, a body), and the model keeps what earlier ones left in
it. A client's request arrives in pieces (`DsRecv` takes any number of cells), and the
client may stall, leave or reset (`ClientLeaves`). `phr_parse_request` gives the
possible pairs of its result and of what `meth` is afterwards: it clears the pointer before
parsing, and an error leaves it null or not, depending on where the error is. The
parser skips one empty line in front (`Skip`), refuses more than `MaxHdrs` header lines
(`_hdr_cnt`, 128 in the code), and when a request comes in pieces looks for the
end of its headers first (`is_complete`), where a carriage return alone is an error.
A pointer that is followed while null is `ds = "dead"`, the end of the
process. `DsAfter` writes the zero byte behind the request without a test, as
`dispatch.cpp:1475` does; for a complete request of exactly `BufLen` that is the byte behind
the array. The write is recorded in `past`, and the process may end there.

`Lifecycle` puts `main`, the console, the gameserver thread's start and end and
`handleTerm` around it. A signal is handled in any thread; what that does to the
call the thread is blocked in is part of the action (`Interrupted`, and the console's
read, which `readline` may go on with: `HasReadline`). The session threads are a number,
`sessions`: they start while the gameserver runs (`gameserver.cpp:401`) and end when they
like, and nobody joins them. `UsesDb` is a use of `globalDbGate`, by an SDK
endpoint, by the saves of `Gameserver::stop`, or by a session thread. Once `main` has deleted
it, `late` records who used it, and the process may end.

### Codec, Framing, CommandLine

`Codec` and `Framing` are pure functions as operators, each with one variable for its input that grows by one
element per step, so that a run sees every input up to a bound. `MCAlgorithms` runs
them and `CommandLine` side by side: in a behaviour only one of the inputs grows.

`Codec` has `b64enc`, `b64dec`, `hexenc` and `hexdec` on sequences of bytes. A
base64 character is its value, or `Other`. `SignedChar` says what plain `char` is in
the build: with a signed one, the shifts of `b64enc` extend the sign, and `Merge` is
what the following `|` and `& 0x3f` make of that. `b64dec` is modelled for inputs
`b64enc` can write. `Framing` keeps the widths of the integers `Packet::parse`
computes with, scaled to bytes of `Base` values, so that the sums in its length test
wrap where the C++ ones do.

`CommandLine` is the loop of `handleCommand` over the characters of a line, with its
variables: `argbuf` up to `arg_dst`, `argv` as places in it, `arg_ptr` and `quotes`; `Read` is an
iteration. The line comes from somebody who types the arguments they mean (`args`,
which take `need` bytes) with quotes wherever they like (`OpenQuote`, `CloseQuote`,
`TypeChar`, `NextWord`). The loop never looks ahead, so reading each character as it is
typed gives what reading the finished line does, and every state is a finished line. `handleCommand`
is what a command then finds: the string at each place of `argv`, up to the next zero.

## 3. Runs

| Run | Question | Result |
|---|---|---|
| `one_slot` | The server as `GameserverMain` configures it (one slot), the slot used twice with every kind of close and the stop signal interleaved: slot table, ownership of KCP objects, login, lone threads, finality of close. Accesses to deleted objects crash, or hit whatever is there | holds |
| `two_slots` | Two sessions at once, kicks across slots, empty slots | holds |
| `live` | Threads of silent clients end | holds under fairness |
| `shutdown` | A shutdown request closes the session it names | **violated** |
| `kcp_messages` | Messages of one and two fragments, a copy or loss anywhere, a closing window: windows, kept acknowledgements, refinement of `Channel` | holds |
| `kcp_live` | Messages of one and two fragments all arrive, over a closed window and a lost datagram | holds under fairness |
| `dialogue` | Any four requests, with packets that fail to be sent: keys agree, what is dropped, the current avatar, and that a login gets in | holds, the last under fairness |
| `accounts_tokens` | Two accounts, dispatch and console, failing writes, a crash or restart: names, ids, tokens | holds |
| `accounts_players` | Two session threads and the console, a crash: one player per account, no progress lost, stored teams resolve | holds |
| `lifecycle` | Start, requests in any pieces, signals, session threads and end: requests are answered for what they are, only what was parsed is routed, what is shorter than the buffer fits; neither server uses a deleted database, a stop ends the process, the servers fall together | holds, the last two under fairness |
| `http_refusal` | A request that does not parse is answered with 400 | **violated** |
| `algorithms` | Tokens, packets and command lines come out at the other end as they went in | holds |

*Properties of the session runs.* `SlotsOwnSessions` needs no assumption on
dangling accesses. It says which slot leads to freed memory and when: the one the gameserver
thread has deleted and not yet cleared, and no other. A session thread that looks a player up at
that moment follows it, which the code does nothing against. `KcpOwned` and `LoginNeedsToken` hold up to the first access
through a dangling pointer (`~ub`): after it nothing is promised by the language.
`LoneThreadSafe` and `ClosedStaysClosed` say that such an access, or a closed session
that comes back, needs a second thread to interfere (`foreign`); with interference
the code does reach both, which the hazards describe.

*Properties of the account runs.* The code has no lock, so what it promises is
promised only while certain things have not happened, and the history variables
name them: `failed` (a write failed), `raced` (a copy was written over a record that had
changed), `crowded` (two token requests handled at once), `shared` (a player
loaded while a session still had it, the usual kick). Each property leaves out only those it
has to: without any one of its conditions TLC finds a counterexample. Crashes are never left
out. So `ProgressKept` says that saving loses nothing over crashes, deletions and restarts,
and that the kick of a session in use, which loads the player before the old session
saves it, is the sequential way to lose progress. `StoredTeamsResolve` rests on the
order of writes in `saveToDb`: the inventory before the player.

*Properties of the dialogue.* `ClientReads` depends on two exceptions in
`sendPacket`: the token and the login response have the dispatch key even after the
switch. `DropsOnlyInSwitch` says what the client can lose, and `GetsIn` that it gets
in nevertheless; its conditions name the ways out of the code: a wrong token closes the
session, and `SceneInitFinishReq` before the login follows an avatar that does not exist
(`AvatarSetByLogin` bounds when), and a packet that could not be sent is not sent again.
The other three hold whatever fails to be sent.

*Properties of the lifecycle.* `StopEnds` names the three calls in which a stop signal
may not reach a thread: the console's read, `recv` on an open connection, and the loop that
a failed `send` never leaves. `AnswersOwnRequest` speaks of requests that one `recv`
returns whole and that have no more header lines than the parser takes, up to one that fills
the buffer: the body of a POST is not waited for. `ShortRequestsFit` stops one byte short of
that: a request of exactly `buf_len` bytes is terminated behind the end of the static array, or, if
its headers have not ended, refused as too large. `RoutedWasParsed` ends with the stop
signal, because the signal leaves the reading loop with `pret` 0.
`ServersUseOpenDb` has two exceptions, which it names. The session threads are never
joined (the TODOs at `gameserver.cpp:105` and `428`), so they may be in a handler or a save when
`main` deletes the database at `yagips.cpp:188`; and `main` deletes it under the running
gameserver when the dispatch thread cannot be created (`yagips.cpp:153`). Both are behaviours of
the model.

*The two violations.* `shutdown`: `sid` is built from `hs->sid1`/`sid2` and then
compared with `hs->sid1`, so the request closes the first connected session,
whichever it names. `http_refusal`: a comment at `dispatch.cpp:1459` says that a
parse error is answered with 400, but `phr_parse_request` has set `meth` to null, a
request line that is refused leaves it so, and
`strncmp(meth, "HEAD", 4)` at line 1673 follows it.

*Seen on the way, without a run.* Every `KcpSession` sends to the one static `client`
that `recv` overwrites, so output goes to the sender of the last datagram
(`gameserver.cpp:288`). `b64enc` of bytes from 128 on is not base64 where `char` is
signed (`util.cpp:36`); `EncodesBase64` is stated for the other bytes, and
`TokenSurvives` shows that tokens are unharmed.

*Bounds.* Two accepts are needed for reuse of a slot, of an address and for a kick;
a third adds only more of the same. One player is enough, since two sessions
compete only for the same one. A receive queue of one message is
enough, as the thread takes one message per round. In `Kcp`, two messages of up to two
fragments through windows of three make the window move, close and reopen; two
fragments are the shortest message with a first and a last one, and three are refused
by `ikcp_send` in `kcp_live`; two faults put
a loss or an old copy at any point (one in `kcp_live`). In `Dialogue`, of four requests two are the token and the
login request and two are of any kind at any place. In `Accounts`, two ids and two names
make a name and an id change hands, three tokens are one of each kind or a combo
token replaced twice; two threads and three token requests are enough for a kick and
a login after it, and one crash for a record half made. In `Lifecycle`, two
connections are enough for a request that meets what another one left, the buffer of five
cells is filled exactly by one request and exceeded by another, three header lines are more than
`MaxHdrs`, one session thread (`MaxThreads`) is enough to outlive everything it uses, and one
signal may hit every thread at every place. In the algorithms, nine bytes have every combination of high and low bits the
shifts of base64 separate, and four bytes are a whole group and the start of the next;
fifteen bytes are a frame with a header or data, longer than the twelve of an empty
one; four words and six bytes exceed `argv` and `argbuf`, alone and together. `SYMMETRY` is used only over constants
the specification treats alike, and never with liveness.

`CHECK_DEADLOCK FALSE` is set because the systems do stop: the process crashes or
exits, the bounded number of clients has come and gone, all messages have been
received, the longest input is reached.

*Fairness.* `Sessions`: weak fairness of each thread and of time passing; the
operating system schedules all threads and no step waits for a lock. Nothing is
assumed about clients, the network or the signal. `Kcp`: both ends call
`ikcp_recv` and `ikcp_update` for ever (`SessionMain` every 50 ms), an expired RTO
or probe wait leads to a resend or a probe, a datagram that is not lost arrives,
and finitely many are lost. `Dialogue`: the session thread and the client's receiver
run and the channel delivers, which is what `EveryMessageArrives` of `Kcp` says; the
client has to send nothing. `Lifecycle`: each of the three threads is scheduled;
nothing is assumed about clients, the console's user or signals.

## 4. Proofs

`SessionsProofs` proves, from `SessionsAssumption` alone (sizes are positive, model
values are distinct) and for any number of slots, clients, players, addresses and
accepted sessions:

* `TypeCorrect`: `Spec => []TypeOK`
* `SlotTableSound`: `Spec => []SlotsOwnSessions`
* `LoginSound`: `Spec => []LoginNeedsToken`

All three follow from the inductive invariant `IInv` (`InductiveInvariant`):
`TypeOK /\ SlotsOwnSessions /\ LoginNeedsToken /\ GsPlace /\ ThreadPlace`.
The two properties are not inductive alone. `GsPlace` says that while the
gameserver thread is between deciding to delete a slot's session and freeing it
(also inside the `close` it calls) the slot still holds that session, and that it
creates into an empty slot only. `ThreadPlace` says that a thread that is about
to kick, to attach a player or to activate a session has had a token accepted, and that
threads that have started have an object.
The step proof is one lemma per group of actions of the same shape. Most steps only
*lower* objects (`LowersTo`: a session loses its player, its KCP object or
its state, or is untouched), and `LowersKeeps` shows once that such steps keep
both properties, as they neither open nor close the window between free and clear
(`GapStays`); `RaiseStep` treats the two that raise an object, `FreeStep`, `ClearStep` and
`CreateStep` the three that change which slots lead to a session.

`OwnershipProofs` goes on from `IInv`, under the same assumption:

* `KcpSessionsOwned`: `Spec => []KcpOwned`
* `LoneThreadsSafe`: `Spec => []LoneThreadSafe`
* `ClosingIsFinal`: `Spec => ClosedStaysClosed`

`KcpOwned` speaks of the heap, but several threads may be inside `Session::close` on
one object, and an address may be used again while one of them still holds it. `PtrInv`
therefore says, whatever undefined behaviour has happened: an allocated session has the
id its thread was started with (`LiveOwned`); a running `close` was called for an id that
was given out, and if the session it means still exists, its KCP object is deleted or
null once `close` is past the `delete` (`CallSound`); a `close` that is part of a delete works on the
slot that is deleted (`GsCall`). `OwnInv`
adds `KcpOwned` and `FreeInv`: a session is freed only when its KCP object is gone.
Steps that touch no pointer are treated once (`QuietKeeps`); `CloseKcpOwn`, `CloseNullOwn`,
`FreeOwn`, `ClearOwn` and `CreateOwn` are the five that do.
`LoneInv` is about the time before any interference: a thread's session exists, has its
KCP object up to the thread's own `close`, is not closed while a token is being checked,
and the gameserver thread deletes only sessions whose thread has returned.

`KcpProofs` proves, from `KcpAssumption` and for any windows, any number and length of
messages, any number of losses and copies and any order of arrival:

* `TypeCorrect`: `Spec => []TypeOK`
* `WindowsHold`: `Spec => []WindowsRespected`
* `AcknowledgedArrived`: `Spec => []AckedIsKept`
* `KcpIsChannel`: `Spec => ImplementsChannel`

There are three invariants, each using those before it. `WinInv` has the types and what
the queues look like: the numbers in the send buffer lie between `snd_una` and `snd_nxt`
and these are no further apart than the send window; those in the receive buffer lie in
the window that starts at `rcv_nxt`, each once.
`KeepInv` says that everything an end acknowledges, in its acklist or in a datagram
however old, is something it has; so a sender forgets nothing its peer lacks.
`StreamInv` carries the refinement. The fragments of all messages an end ever sent are one
stream, which the model does not keep, so the invariant says that there *is* one, with the place
where each message begins, such that: every copy of a segment, in either buffer or on the network,
is the fragment of its number; the send queue is the stream's end behind `snd_nxt`; and the
receive queue is the stretch from the first message not yet delivered up to `rcv_nxt`. `ikcp_recv`
takes from that queue as many fragments as the first one announces, which are then exactly
the next message (`RecvTakes`), and this is the step `Deliver` of `Channel`; all other steps
are `Send` or leave `sent` and `got` alone.

`AccountsProofs` proves, from `AccountsAssumption` and `RecordAssumption`, for any number of
accounts, players, names, threads, tokens and crashes:

* `TypeCorrect`: `Spec => []TypeOK`
* `NamesStayUnique`, `LatestTokenKept`: `Spec => []NamesUnique`, `Spec => []LatestTokenStored`
* `IdentityHolds`: `Spec => IdentityKept`
* `OnePlayer`, `TeamsResolve`: `Spec => []OnePlayerPerAccount`, `Spec => []StoredTeamsResolve`
* `ProgressHolds`: `Spec => ProgressKept`

`TypeInv` adds to the types what a thread's copy is at each place (an endpoint keeps the
name of the account, and its combo token unless it answers a new one). `AcctInv` adds to the
two properties of accounts that the name the console is about to create is not in the
table, which is what its check promised (`NameFree`). `PlyrInv` adds to the two of players
that one thread handles a token request and no two have one player (`Alone`), that a
thread's copy is never older than the record and belongs to the same account
(`Records`), and that the inventory is stored before the player that refers to it
(`InventoryFirst`), each under the conditions of section 3.

`DialogueProofs` proves, from `DialogueAssumption` and for any number of requests:

* `KeysAgree`: `Spec => []ClientReads`
* `DropsBounded`: `Spec => []DropsOnlyInSwitch`
* `AvatarPresent`: `Spec => []AvatarSetByLogin`

The inductive invariant is `Inv` (`InvHolds`). `ClientReads` alone says nothing about what is
still on its way, so `Inv` adds: what was received is a beginning of what was sent
(`Streams`); each packet the server sent has the key that belongs to its place, before or
after the token response (`ServerKeys`); the server has switched exactly when it
accepted a token request (`Switched`); the client has the key the responses it received
told it of (`ClientKeys`); and where a crash is possible (`Avatars`). A packet that fails to be
sent takes no place in the stream, so `SendFailsInv` has only the handler's progress to treat.

`LifecycleProofs` proves, from `HttpAssumption` and `LifecycleAssumption`, for any requests, any
buffer size, any limit of header lines and any number of connections, session threads and signals:

* `DbSafe`: `Spec => []ServersUseOpenDb`. `MainInv` says which threads are over at
  each place of `main`, and where `main` is once the database is deleted; `LateInv`
  that nobody is late while the database is open, and no server afterwards. The two exceptions are
  those of section 3: nothing is said of the session threads, or of a gameserver whose
  dispatch thread was never created.
* `RouteSafe`: `Spec => []RoutedWasParsed`. It is inductive with two facts:
  a stop signal is never taken back (`SignalStays`), and a request the parser
  accepts has a method (`ParserResult`).
* `TypeCorrect`: `Spec => []TypeOK`. Here the types say that `recv`
  gets no more room than is left and that the response lies within the buffer; they do not
  bound the terminator, which a full buffer puts behind the array. `ProcInv` adds
  `SendPlace`, that what was sent and what is left to send fit together.
* `OwnRequestAnswered`: `Spec => []AnswersOwnRequest`. `Fresh` says that a connection
  starts at the beginning of the buffer with the whole request to come, and `Served`
  what is known at each place behind the first `recv`: at `after`, that the parser took the
  request's own headers and the buffer starts with the request (`Parsed`); from there on, that the
  answer belongs to it. What other requests left behind in the buffer is cut off by
  the zero byte (`StringAfterIs`), or is not there when the request fills the buffer.
* `ShortFits`: `Spec => []ShortRequestsFit`. `Fits` says that what was received and what is still to
  come are never more than the request; it rests on each connection starting with an empty count.

`AlgorithmsProofs` proves about `Codec`, for inputs of every length, all bytes, and a signed
or an unsigned char:

* `TokensSurvive`: `InitRaw /\ [][Grow]_raw => []TokenSurvives`
* `Base64Encoded`: `InitRaw /\ [][Grow]_raw => []EncodesBase64`

(`InitRaw` and `Grow` are how `Algorithms.cfg` makes the inputs.) `b64dec` does not undo `b64enc`
with a signed char, but for all bytes `GroupSurvives` (three bytes) and `LastGroupSurvives` (the last one
or two) show that encoding what was decoded writes the same characters.
`EncodedString` and `DecodedString` say where each group of three bytes and four characters
lies in strings of any length, `SelectedIs` that the padding is all that `b64dec` skips, and
`EncodedAgain` puts the groups together. For `Base64Encoded`, `EncodedBits` compares the
six bits of each character with the bits of the input. `UnsignedRoundTrip` shows that with
an unsigned char the bytes of a group themselves come back.

About `Framing` it proves, from `FramingAssumption` (a buffer takes at most half of the
addresses) and for every number of values of a byte, all magic numbers and inputs of every length:

* `ParseIsInverse`: `InitBuf /\ [][GrowBuf]_buf => []ParseInvertsBuild`

`WriteRead` and `ReadWrite` show that writing two bytes of a number and reading them undo
each other. `BuildBegins` says byte by byte what it means that an input begins with a packet's
frame; `ParseTakes` says which inputs `parse` takes. For the latter, `Sizes` shows
that without the sign bit no sum of sizes wraps around, and that with it the data size, extended to a
`size_t`, exceeds every buffer, so that the sums that wrap end in a refusal or in an exception,
never in a packet. `BeginsIsWhole` and `WholeBegins` are the two directions. The packets are those whose sizes the
frame can hold: a header below 2^16 and data below 2^31 bytes (`Packets`).

About `CommandLine` it proves, for all sizes of `argv` and `argbuf` and lines of every length:

* `QuotingIsRead`: `InitLine /\ [][TypeLine]_lineVars => []QuotingWorks`

The inductive invariant `LineInv` says where each word is: the words that have ended lie at
their places of `argv`, with a zero behind each (`Ended`), and the word begun is a beginning of the
next one meant (`Begun`). It is needed because `QuotingWorks` only speaks of the end of the line. `LineWhole`
carries the case of equality: until something is full, the loop's open quote is the typist's
and all bytes have been written, so that a character is copied or ends a word exactly when it is
meant to; afterwards nothing changes in the loop, and what is meant only grows. `StringIs` shows that
the first zero from the beginning of a word on is the one behind it.

`Induction` has the two facts some of these proofs need, stated with sets instead of
predicates, so that they can be used: a set of naturals has a least element
(`LeastElement`), and one that has 0 and every successor has them all (`SetInduction`).

*Only model-checked.* Liveness (`SilentSessionsEnd`, `EveryMessageArrives`, `GetsIn`,
`StopEnds`, `ServersFallTogether`), which is out of the prover's reach.
And the two runs that show a violation.

## 5. Plan

1. `Sessions`, its runs and proofs: done; every safety property that holds is proved.
2. `Kcp` refining `Channel`: done, the refinement included. To do: a lemma that the signed
   difference `_itimediff` orders numbers less than 2^31 apart, which is what lets the
   model leave out wrap-around.
3. `Accounts` with inventories: done; every property is proved.
4. `Dialogue`, `HttpServer` and `Lifecycle`: done; every safety property that holds is proved.
5. `Codec`, `Framing` and `CommandLine`: done; every property is proved.

## 6. Not modelled

* *Code that is not the program's own.* `gnulib/` (most of the repository's lines:
  replacements of C library functions and headers), `toml.c`, `mt19937-64.c` and the
  parts of `http.c` the dispatch thread does not call (responses, chunked bodies)
  or whose detail cells leave out (token tables, header fields).
* *Tables and configuration.* `data*`, `runconfig.cpp`, `keys.c`, property names:
  read once, no behaviour over time.
* *Cryptography.* Bit arithmetic out of TLC's reach; `Dialogue` tells keys apart, not
  ciphers.
* *Code nothing calls.* Most setters of `Player`, `Avatar`, `Team` and `Item` (adding,
  removing and swapping members, talents, levels, open states) have no caller in the
  program, and loading the inventory is compiled out where it would be called. There is no
  behaviour they could be part of.
* *Contents of responses.* JSON and protobuf fields, beyond what the client's next step depends on.
* *Torn data.* Data races inside one KCP call, and the static buffers of `session.cpp:174`
  and `dbgate.cpp:58` that threads share: each call is a step, since about corrupted
  lists, ciphertext or keys nothing can be promised. `PROJECT.json` lists them as
  hazards.
* *Wrap-around of KCP's 32-bit numbers* and datagrams that do not parse.
