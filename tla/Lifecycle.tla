----------------------------- MODULE Lifecycle ------------------------------
(***************************************************************************)
(* The process: main (src/src/yagips.cpp) starts the gameserver and the    *)
(* dispatch thread, runs the console (src/src/console.cpp) and joins the   *)
(* two threads; handleTerm runs in any thread.  The dispatch thread is     *)
(* HttpServer.  Of the gameserver thread only the start and the end are    *)
(* here, and of the session threads it starts, which nobody joins, that    *)
(* they run and use the database (Sessions has the rest).                  *)
(***************************************************************************)
EXTENDS HttpServer

CONSTANTS
  HasReadline,  \* whether the console uses readline or getline
  MaxSignals,   \* bound: stop signals sent to the process
  MaxThreads    \* bound: session threads at a time

ASSUME LifecycleAssumption ==
  /\ HasReadline \in BOOLEAN
  /\ MaxSignals \in Nat /\ MaxThreads \in Nat

VARIABLES
  mn,              \* where the main thread is
  gsv,             \* where the gameserver thread is
  sessions,        \* session threads that run
  late,            \* history: who followed globalDbGate after its deletion
  db,              \* globalDbGate: "none", "open" or "deleted"
  console_signal,  \* asks the console loop to end
  exitSignal,      \* the last signal handled, or "none"
  timesCalled,     \* SIGINTs handled in the main thread
  signals,         \* signals sent so far
  ended            \* whether the process is over: "no", "returned", "killed"

mainVars == <<mn, db, console_signal, exitSignal, timesCalled, signals, ended>>
gsVars == <<gsv, sessions, late>>
vars == <<httpVars, mainVars, gsVars>>

Up == ended = "no" /\ ds # "dead"

Init ==
  /\ HttpInit
  /\ mn = "setup" /\ gsv = "none" /\ sessions = 0 /\ late = {} /\ db = "none"
  /\ console_signal = FALSE /\ exitSignal = "none"
  /\ timesCalled = 0 /\ signals = 0 /\ ended = "no"

-----------------------------------------------------------------------------
(***************************************************************************)
(* The main thread.                                                        *)
(***************************************************************************)

\* The configuration, the keys and the database are opened.
OpenDb ==
  /\ mn = "setup"
  /\ \/ mn' = "createGs" /\ db' = "open" /\ UNCHANGED ended
     \/ mn' = "over" /\ ended' = "returned" /\ UNCHANGED db
  /\ UNCHANGED <<httpVars, gsVars, console_signal, exitSignal, timesCalled, signals>>

\* pthread_create, which may fail; then the database is deleted.
CreateGameserver ==
  /\ mn = "createGs"
  /\ \/ mn' = "createDs" /\ gsv' = "start"
     \/ mn' = "failed" /\ UNCHANGED gsv
  /\ UNCHANGED <<httpVars, sessions, late, db, console_signal, exitSignal, timesCalled,
                 signals, ended>>

CreateDispatch ==
  /\ mn = "createDs"
  /\ \/ mn' = "console" /\ ds' = "start"
     \/ mn' = "failed" /\ UNCHANGED ds
  /\ UNCHANGED <<DispatchServerSignal, GameserverSignal, local, conn, gsVars, db,
                 console_signal, exitSignal, timesCalled, signals, ended>>

CreateFailed ==
  /\ mn = "failed"
  /\ IF db = "open"
     THEN db' = "deleted" /\ UNCHANGED <<mn, ended>>
     ELSE mn' = "over" /\ ended' = "returned" /\ UNCHANGED db
  /\ UNCHANGED <<httpVars, gsVars, console_signal, exitSignal, timesCalled, signals>>

\* The head of the console's loop.
ConsoleTest ==
  /\ mn = "console"
  /\ mn' = IF console_signal THEN "signal" ELSE "read"
  /\ UNCHANGED <<httpVars, gsVars, db, console_signal, exitSignal, timesCalled, signals, ended>>

\* A line is read; an empty one is skipped, another one is a command.
ConsoleLine ==
  /\ mn = "read"
  /\ mn' = "console"
  /\ UNCHANGED <<httpVars, gsVars, db, console_signal, exitSignal, timesCalled, signals, ended>>

\* The end of the input.
ConsoleEnd ==
  /\ mn = "read"
  /\ mn' = "signal"
  /\ UNCHANGED <<httpVars, gsVars, db, console_signal, exitSignal, timesCalled, signals, ended>>

\* After the console: both servers are asked to stop.
StopServers ==
  /\ mn = "signal"
  /\ GameserverSignal' = TRUE /\ DispatchServerSignal' = TRUE
  /\ mn' = "joinGs"
  /\ UNCHANGED <<ds, local, conn, gsVars, db, console_signal, exitSignal,
                 timesCalled, signals, ended>>

JoinGameserver ==
  /\ mn = "joinGs" /\ gsv = "done"
  /\ mn' = "joinDs"
  /\ UNCHANGED <<httpVars, gsVars, db, console_signal, exitSignal, timesCalled, signals, ended>>

\* Mutant: main does not wait for the dispatch thread.
JoinNothing ==
  /\ mn = "joinDs"
  /\ mn' = "delete"
  /\ UNCHANGED <<httpVars, gsVars, db, console_signal, exitSignal, timesCalled, signals, ended>>

JoinDispatch ==
  /\ mn = "joinDs" /\ ds = "done"
  /\ mn' = "delete"
  /\ UNCHANGED <<httpVars, gsVars, db, console_signal, exitSignal, timesCalled, signals, ended>>

DeleteDb ==
  /\ mn = "delete"
  /\ db' = "deleted" /\ mn' = "return"
  /\ UNCHANGED <<httpVars, gsVars, console_signal, exitSignal, timesCalled, signals, ended>>

\* A process stopped by another signal than SIGINT dies of that signal.
Return ==
  /\ mn = "return"
  /\ mn' = "over"
  /\ ended' = IF exitSignal \in {"none", "INT"} THEN "returned" ELSE "killed"
  /\ UNCHANGED <<httpVars, gsVars, db, console_signal, exitSignal, timesCalled, signals>>

MainStep ==
  OpenDb \/ CreateGameserver \/ CreateDispatch \/ CreateFailed \/ ConsoleTest
    \/ StopServers \/ JoinGameserver \/ JoinDispatch \/ DeleteDb \/ Return

-----------------------------------------------------------------------------
(***************************************************************************)
(* The gameserver thread: its start, its loop and its end; and the session *)
(* threads it starts.                                                      *)
(***************************************************************************)

\* A thread follows globalDbGate, which may end the process once it is deleted.
UsesDb(who) ==
  /\ late' = IF db = "deleted" THEN late \union {who} ELSE late
  /\ ended' \in IF db = "deleted" THEN {ended, "killed"} ELSE {ended}

\* Mutant: a failed start is not passed on.
GsStartQuiet ==
  /\ gsv = "start"
  /\ gsv' \in {"loop", "done"}
  /\ UNCHANGED <<httpVars, mainVars, sessions, late>>

GsStart ==
  /\ gsv = "start"
  /\ \/ gsv' = "loop" /\ UNCHANGED DispatchServerSignal
     \/ gsv' = "done" /\ DispatchServerSignal' = TRUE
  /\ UNCHANGED <<ds, GameserverSignal, local, conn, mainVars, sessions, late>>

GsLoop ==
  /\ gsv = "loop" /\ GameserverSignal
  /\ gsv' = "stop"
  /\ UNCHANGED <<httpVars, mainVars, sessions, late>>

\* The sessions are deleted, with their players saved, and then the server;
\* the session threads are not waited for.
GsStop ==
  /\ gsv = "stop"
  /\ gsv' = "done" /\ DispatchServerSignal' = TRUE
  /\ IF sessions > 0 THEN UsesDb("gs") ELSE UNCHANGED <<late, ended>>
  /\ UNCHANGED <<ds, GameserverSignal, local, conn, sessions,
                 mn, db, console_signal, exitSignal, timesCalled, signals>>

GsStep == GsStart \/ GsLoop \/ GsStop

\* A client is accepted and SessionMain started for it; it returns.
SessionStarts ==
  /\ gsv = "loop" /\ sessions < MaxThreads
  /\ sessions' = sessions + 1
  /\ UNCHANGED <<httpVars, mainVars, gsv, late>>

SessionEnds ==
  /\ sessions > 0
  /\ sessions' = sessions - 1
  /\ UNCHANGED <<httpVars, mainVars, gsv, late>>

\* A handler, or the save of a player, after main has deleted the database;
\* what it does before that is in Accounts.
SessionUsesDb ==
  /\ sessions > 0 /\ db = "deleted"
  /\ UsesDb("session")
  /\ UNCHANGED <<httpVars, gsv, sessions, mn, db, console_signal, exitSignal,
                 timesCalled, signals>>

\* The dispatch thread: a step of HttpServer, in which an endpoint may run.
DispatchStep(step) ==
  /\ step
  /\ IF EndpointRuns THEN UsesDb("ds") ELSE UNCHANGED <<late, ended>>
  /\ UNCHANGED <<mn, db, console_signal, exitSignal, timesCalled, signals, gsv, sessions>>

-----------------------------------------------------------------------------
Thread == {"main"} \union (IF gsv \in {"none", "done"} THEN {} ELSE {"gs"})
                   \union (IF ds \in {"none", "done"} THEN {} ELSE {"ds"})
                   \union (IF sessions = 0 THEN {} ELSE {"session"})

(***************************************************************************)
(* handleTerm, in the thread the kernel chose.  It interrupts the call     *)
(* that thread is blocked in: recv, send, or the console's read.  getline  *)
(* then returns an error and the loop's test follows; readline (external)  *)
(* may give up or go on reading.                                           *)
(***************************************************************************)
handleTerm(sig, t) ==
  /\ signals < MaxSignals /\ signals' = signals + 1
  /\ GameserverSignal' = TRUE /\ DispatchServerSignal' = TRUE
  /\ console_signal' = TRUE
  /\ exitSignal' = sig
  /\ timesCalled' = IF sig = "INT" /\ t = "main" THEN timesCalled + 1 ELSE timesCalled
  /\ ended' = IF timesCalled' > timesCalled /\ timesCalled' >= 3 THEN "killed" ELSE ended
  /\ ds' = IF t = "ds" THEN Interrupted(ds) ELSE ds
  /\ mn' \in IF t # "main" \/ mn # "read" THEN {mn}
             ELSE IF HasReadline THEN {"read", "signal"} ELSE {"console"}
  /\ UNCHANGED <<local, conn, gsVars, db>>

Next ==
  /\ Up
  /\ \/ MainStep \/ ConsoleLine \/ ConsoleEnd
     \/ GsStep \/ SessionStarts \/ SessionEnds \/ SessionUsesDb
     \/ DispatchStep(HttpNext)
     \/ \E sig \in {"INT", "TERM"}, t \in Thread : handleTerm(sig, t)

Spec == Init /\ [][Next]_vars

(***************************************************************************)
(* Every thread is scheduled.  Nothing is assumed of the clients (DsRecv,  *)
(* ClientLeaves, session threads) or of the console's user (ConsoleLine,   *)
(* ConsoleEnd).                                                            *)
(***************************************************************************)
FairSpec ==
  /\ Spec
  /\ WF_vars(Up /\ MainStep)
  /\ WF_vars(Up /\ GsStep)
  /\ WF_vars(Up /\ DispatchStep(DsStep))

-----------------------------------------------------------------------------
TypeOK ==
  /\ HttpTypeOK
  /\ mn \in {"setup", "createGs", "createDs", "failed", "console", "read", "signal",
             "joinGs", "joinDs", "delete", "return", "over"}
  /\ gsv \in {"none", "start", "loop", "stop", "done"}
  /\ sessions \in 0..MaxThreads /\ late \subseteq {"gs", "ds", "session"}
  /\ db \in {"none", "open", "deleted"}
  /\ console_signal \in BOOLEAN
  /\ exitSignal \in {"none", "INT", "TERM"}
  /\ timesCalled \in 0..MaxSignals /\ signals \in 0..MaxSignals
  /\ ended \in {"no", "returned", "killed"}

(***************************************************************************)
(* Neither server follows globalDbGate after main has deleted it: no SDK   *)
(* endpoint, and no save of the players that Gameserver::stop deletes,     *)
(* whatever ends the process (main, GameserverMain, DispatchServerMain).   *)
(* Two exceptions: the session threads, which nobody joins, may follow it  *)
(* until the process is over; and when the dispatch thread cannot be       *)
(* created, main deletes it under the running gameserver.                  *)
(***************************************************************************)
ServersUseOpenDb == ds # "none" => late \subseteq {"session"}

\* The ways in which the dispatch thread does not see the signal: a client
\* that neither sends nor leaves, and the loop of a failed send.
DsStuck == ds \in {"recv", "spin"}

(***************************************************************************)
(* A stop signal ends the process, whichever thread handles it and         *)
(* whatever that thread was doing, unless main stays in the console's read *)
(* or the dispatch thread in recv or in the loop of a failed send          *)
(* (handleTerm, console_main, main, DispatchServerMain, GameserverMain).   *)
(***************************************************************************)
StopEnds ==
  exitSignal # "none" ~> (~Up \/ [](mn = "read") \/ []DsStuck)

(***************************************************************************)
(* The servers fall together: when one is over, also because it failed to  *)
(* start before the other one existed, the other one ends as well.         *)
(***************************************************************************)
ServersFallTogether ==
  (gsv = "done" \/ ds = "done") ~> (~Up \/ (gsv = "done" /\ ds = "done") \/ []DsStuck)
=============================================================================
