-------------------------- MODULE LifecycleProofs ---------------------------
(***************************************************************************)
(* Type correctness and the safety properties of Lifecycle and HttpServer, *)
(* proved for any set of requests, any buffer of at least five cells, any  *)
(* limit of header lines and any number of connections, session threads    *)
(* and signals.                                                            *)
(***************************************************************************)
EXTENDS Lifecycle, Induction, SequenceTheorems, TLAPS

\* Where main is while the dispatch thread does not exist.
Early == {"setup", "createGs", "createDs", "failed"}

(***************************************************************************)
(* The inductive invariant behind ServersUseOpenDb: which threads are over *)
(* at each place of main, and where main is when the database is deleted.  *)
(***************************************************************************)
MainInv ==
  /\ mn \in Early => ds = "none"
  /\ mn \in {"joinDs", "delete", "return"} => gsv = "done"
  /\ mn \in {"delete", "return"} => ds = "done"
  /\ db = "deleted" => mn \in {"failed", "return", "over"}
  /\ mn = "over" /\ ds # "none" => gsv = "done" /\ ds = "done"

\* main deletes the database behind its two joins, if it created both threads.
LEMMA MainInvImplies ==
  MainInv => (db = "deleted" /\ ds # "none" => gsv = "done" /\ ds = "done")
BY DEF MainInv, Early

-----------------------------------------------------------------------------
(***************************************************************************)
(* The parser.                                                             *)
(***************************************************************************)

\* At most one line is skipped.
LEMMA SkipIs ==
  ASSUME NEW buf
  PROVE  /\ Skip(buf) \in 0..1 /\ Headers(buf) \in 3..4
         /\ Headers(buf) = Skip(buf) + 3
BY DEF Skip, Headers

\* The header lines of every buffer end somewhere.
LEMMA HeadersEnding ==
  ASSUME NEW buf
  PROVE  /\ HeadersEnd(buf) \in Headers(buf)..(BufLen + 1)
         /\ HeadersEnd(buf) <= BufLen => buf[HeadersEnd(buf)] # "hdr"
         /\ \A j \in Headers(buf)..(HeadersEnd(buf) - 1) : buf[j] = "hdr"
<1> USE HttpAssumption
<1> DEFINE h == Headers(buf)
<1>0. h \in 3..4
  BY SkipIs
<1> HIDE DEF h
<1> DEFINE T == {i \in h..(BufLen + 1) : i <= BufLen => buf[i] # "hdr"}
<1>1. PICK m \in T : \A k \in T : m <= k
  <2>1. T \in SUBSET Nat /\ BufLen + 1 \in T
    BY <1>0
  <2> QED
    BY <2>1, LeastElement
<1>2. \A j \in h..(m - 1) : buf[j] = "hdr"
  BY <1>0, <1>1
<1>3. \E i \in h..(BufLen + 1) : /\ i <= BufLen => buf[i] # "hdr"
                                 /\ \A j \in h..(i - 1) : buf[j] = "hdr"
  BY <1>1, <1>2
<1> QED
  BY <1>3 DEF HeadersEnd, h

\* Where they end is the one cell after them.
LEMMA HeadersEndIs ==
  ASSUME NEW buf, NEW i \in Headers(buf)..BufLen, buf[i] # "hdr",
         \A j \in Headers(buf)..(i - 1) : buf[j] = "hdr"
  PROVE  HeadersEnd(buf) = i
<1> USE HttpAssumption
<1> DEFINE e == HeadersEnd(buf)
           h == Headers(buf)
<1>0. h \in 3..4
  BY SkipIs
<1>1. /\ e \in h..(BufLen + 1) /\ (e <= BufLen => buf[e] # "hdr")
      /\ \A j \in h..(e - 1) : buf[j] = "hdr"
  BY HeadersEnding
<1>a. i \in h..BufLen /\ \A j \in h..(i - 1) : buf[j] = "hdr"
  OBVIOUS
<1> HIDE DEF e, h
<1>2. ~(i < e)
  BY <1>0, <1>1, <1>a
<1>3. ~(e < i)
  BY <1>0, <1>1, <1>a
<1> QED
  BY <1>0, <1>1, <1>2, <1>3, <1>a DEF e

\* What phr_parse_request can return; what it accepts has a method.
LEMMA ParserResult ==
  ASSUME NEW buf, NEW received, NEW last_len,
         NEW p \in phr_parse_request(buf, BufLen, received, last_len)
  PROVE  /\ p[1] \in -2..BufLen /\ p[2] \in 0..2
         /\ p[1] >= 0 => p[2] > 0
<1> USE HttpAssumption
<1> DEFINE i == HeadersEnd(buf)
           m == Skip(buf) + 1
<1>0. m \in 1..2 /\ i \in 3..(BufLen + 1)
  BY SkipIs, HeadersEnding
<1>1. CASE p \in {<<is_complete(buf, BufLen, last_len), 0>>} /\ is_complete(buf, BufLen, last_len) < 0
  <2>1. is_complete(buf, BufLen, last_len) \in {-2, -1, 0}
    BY DEF is_complete
  <2> QED
    BY <1>1, <2>1
<1>2. CASE p \in parse_request(buf, BufLen, received)
  <2>1. \/ p = <<-1, 0>> \/ p = <<-1, m>> \/ p = <<-2, m>>
        \/ (i <= BufLen /\ p = <<i, m>>)
    <3>1. CASE buf[m] \notin TokenFirst
      BY <1>2, <3>1 DEF parse_request, TokenFirst
    <3>2. CASE buf[m] \in TokenFirst \ Methods
      BY <1>2, <3>2 DEF parse_request, TokenFirst
    <3>3. CASE buf[m] \in Methods /\ buf[m + 1] \notin Targets
      BY <1>2, <3>3 DEF parse_request, TokenFirst
    <3>4. CASE buf[m] \in Methods /\ buf[m + 1] \in Targets
      <4>1. p \in IF i - Headers(buf) > MaxHdrs THEN {<<-1, m>>}
                  ELSE IF i > BufLen THEN {<<-2, m>>}
                  ELSE IF buf[i] # "end" THEN {<<-1, m>>}
                  ELSE IF i > received THEN {<<i, m>>, <<-1, m>>}
                  ELSE {<<i, m>>}
        BY <1>2, <3>4 DEF parse_request, TokenFirst
      <4> HIDE DEF i, m
      <4> QED
        BY <1>0, <4>1
    <3> QED
      BY <3>1, <3>2, <3>3, <3>4
  <2> HIDE DEF i, m
  <2> QED
    BY <1>0, <2>1
<1> QED
  BY <1>1, <1>2 DEF phr_parse_request

-----------------------------------------------------------------------------
(***************************************************************************)
(* The dispatch thread.                                                    *)
(***************************************************************************)

\* The thread does nothing before it is created and after its end.
LEMMA HttpAlive == HttpNext => ds \notin {"none", "done"}
BY DEF HttpNext, DsStep, DsStart, DsLoop, DsNoConn, DsInner, DsRecvEnd, DsRecvFails,
       DsAfter, DsReply, DsSend, DsAccept, DsRecv, DsSendFails, ClientLeaves

\* A step of DispatchServerMain keeps RoutedWasParsed.
LEMMA RoutedStep ==
  ASSUME RoutedWasParsed, DispatchServerSignal => DispatchServerSignal', HttpNext
  PROVE  RoutedWasParsed'
<1>1. CASE DsInner
  BY <1>1 DEF DsInner, RoutedWasParsed
<1>2. CASE DsRecv
  <2> SUFFICES ASSUME ds' = "after", pret' >= 0 PROVE got' # <<>> /\ meth' > 0
    BY DEF RoutedWasParsed
  <2>1. PICK p \in phr_parse_request(pkt_buf', BufLen, actual_len', actual_len) :
          pret' = p[1] /\ meth' = p[2]
    BY <1>2 DEF DsRecv
  <2>2. \E n \in 1..Len(stream) : got' = Append(got, n)
    BY <1>2 DEF DsRecv
  <2> QED
    BY <2>1, <2>2, ParserResult
<1>3. CASE ClientLeaves
  BY <1>3 DEF ClientLeaves, RoutedWasParsed
<1>4. CASE \/ DsStart \/ DsLoop \/ DsNoConn \/ DsRecvEnd \/ DsRecvFails
           \/ DsAfter \/ DsReply \/ DsSend \/ DsAccept \/ DsSendFails
  <2>1. ds' # "after"
    BY <1>4 DEF DsStart, DsLoop, DsNoConn, DsRecvEnd, DsRecvFails,
                DsAfter, DsReply, DsSend, DsAccept, DsSendFails
  <2> QED
    BY <2>1 DEF RoutedWasParsed
<1> QED
  BY <1>1, <1>2, <1>3, <1>4 DEF HttpNext, DsStep

-----------------------------------------------------------------------------
(***************************************************************************)
(* The process.                                                            *)
(***************************************************************************)

\* The steps of main keep the invariant.
LEMMA MainStepInv == ASSUME MainInv, MainStep PROVE MainInv'
<1> USE DEF Early
<1>1. CASE OpenDb
  BY <1>1 DEF OpenDb, MainInv, httpVars, gsVars
<1>2. CASE CreateGameserver
  BY <1>2 DEF CreateGameserver, MainInv, httpVars, gsVars
<1>3. CASE CreateDispatch
  BY <1>3 DEF CreateDispatch, MainInv, gsVars
<1>4. CASE CreateFailed
  BY <1>4 DEF CreateFailed, MainInv, httpVars, gsVars
<1>5. CASE ConsoleTest
  BY <1>5 DEF ConsoleTest, MainInv, httpVars, gsVars
<1>6. CASE StopServers
  BY <1>6 DEF StopServers, MainInv, gsVars
<1>7. CASE JoinGameserver
  BY <1>7 DEF JoinGameserver, MainInv, httpVars, gsVars
<1>8. CASE JoinDispatch
  BY <1>8 DEF JoinDispatch, MainInv, httpVars, gsVars
<1>9. CASE DeleteDb
  BY <1>9 DEF DeleteDb, MainInv, httpVars, gsVars
<1>10. CASE Return
  BY <1>10 DEF Return, MainInv, httpVars, gsVars
<1> QED
  BY <1>1, <1>2, <1>3, <1>4, <1>5, <1>6, <1>7, <1>8, <1>9, <1>10 DEF MainStep

\* The console, the two server threads and a signal keep it as well.
LEMMA NextMainInv == ASSUME MainInv, Next PROVE MainInv'
<1> USE DEF Early
<1>1. CASE MainStep
  BY <1>1, MainStepInv
<1>2. CASE ConsoleLine \/ ConsoleEnd
  BY <1>2 DEF ConsoleLine, ConsoleEnd, MainInv, httpVars, gsVars
<1>3. CASE GsStep \/ SessionStarts \/ SessionEnds \/ SessionUsesDb
  BY <1>3 DEF GsStep, GsStart, GsLoop, GsStop, SessionStarts, SessionEnds, SessionUsesDb,
              MainInv, httpVars, mainVars
<1>4. CASE DispatchStep(HttpNext)
  <2>1. ds \notin {"none", "done"} /\ mn' = mn /\ db' = db /\ gsv' = gsv
    BY <1>4, HttpAlive DEF DispatchStep
  <2>2. mn \notin Early \union {"delete", "return", "over"}
    BY <2>1 DEF MainInv
  <2> QED
    BY <2>1, <2>2 DEF MainInv
<1>5. CASE \E sig \in {"INT", "TERM"}, t \in Thread : handleTerm(sig, t)
  <2>1. /\ gsv' = gsv /\ db' = db
        /\ ds' = ds \/ ds' = Interrupted(ds)
        /\ mn' = mn \/ (mn = "read" /\ mn' \in {"read", "signal", "console"})
    BY <1>5 DEF handleTerm, gsVars
  <2>2. /\ ds = "none" <=> ds' = "none"
        /\ ds = "done" => ds' = "done"
    BY <2>1 DEF Interrupted
  <2> QED
    BY <2>1, <2>2 DEF MainInv
<1> QED
  BY <1>1, <1>2, <1>3, <1>4, <1>5 DEF Next

(***************************************************************************)
(* Who followed globalDbGate after its deletion: nobody before it, and no  *)
(* server once both were created.                                          *)
(***************************************************************************)
LateInv ==
  /\ db # "deleted" => late = {}
  /\ ServersUseOpenDb

\* A step keeps it: a server that runs has an open database.
LEMMA NextLateInv == ASSUME MainInv, LateInv, Next PROVE LateInv'
<1>0. db = "deleted" /\ ds # "none" => gsv = "done" /\ ds = "done"
  BY MainInvImplies
<1>1. CASE UNCHANGED late /\ (db' = db \/ db' = "deleted") /\ (ds' = "none" <=> ds = "none")
  BY <1>1 DEF LateInv, ServersUseOpenDb
<1>2. CASE MainStep \/ ConsoleLine \/ ConsoleEnd
  <2>1. late' = late
    BY <1>2 DEF MainStep, OpenDb, CreateGameserver, CreateDispatch, CreateFailed, ConsoleTest,
           StopServers, JoinGameserver, JoinDispatch, DeleteDb, Return, ConsoleLine, ConsoleEnd, gsVars
  <2>2. db' \in {db, "deleted"} \/ (db # "deleted" /\ db' = "open")
    BY <1>2 DEF MainStep, OpenDb, CreateGameserver, CreateDispatch, CreateFailed, ConsoleTest,
           StopServers, JoinGameserver, JoinDispatch, DeleteDb, Return, ConsoleLine, ConsoleEnd,
           MainInv
  <2>3. (ds' = "none" <=> ds = "none") \/ db # "deleted"
    BY <1>2 DEF MainStep, OpenDb, CreateGameserver, CreateDispatch, CreateFailed, ConsoleTest,
           StopServers, JoinGameserver, JoinDispatch, DeleteDb, Return, ConsoleLine, ConsoleEnd,
           httpVars, MainInv
  <2> QED
    BY <2>1, <2>2, <2>3 DEF LateInv, ServersUseOpenDb
<1>3. CASE GsStart \/ GsLoop \/ SessionStarts \/ SessionEnds
  BY <1>1, <1>3 DEF GsStart, GsLoop, SessionStarts, SessionEnds, httpVars, mainVars
<1>4. CASE GsStop
  <2>1. gsv = "stop" /\ db' = db /\ ds' = ds
    BY <1>4 DEF GsStop
  <2>2. late' = late \/ (db = "deleted" /\ late' = late \union {"gs"})
    BY <1>4 DEF GsStop, UsesDb
  <2> QED
    BY <1>0, <2>1, <2>2 DEF LateInv, ServersUseOpenDb
<1>5. CASE SessionUsesDb
  <2>1. /\ db = "deleted" /\ db' = db /\ ds' = ds /\ late' = late \union {"session"}
    BY <1>5 DEF SessionUsesDb, UsesDb, httpVars
  <2> QED
    BY <2>1 DEF LateInv, ServersUseOpenDb
<1>6. CASE DispatchStep(HttpNext)
  <2>1. ds \notin {"none", "done"}
    BY <1>6, HttpAlive DEF DispatchStep
  <2>2. db # "deleted" /\ db' = db
    BY <1>0, <1>6, <2>1 DEF DispatchStep
  <2>3. late' = late
    BY <1>6, <2>2 DEF DispatchStep, UsesDb
  <2> QED
    BY <2>2, <2>3 DEF LateInv, ServersUseOpenDb
<1>7. CASE \E sig \in {"INT", "TERM"}, t \in Thread : handleTerm(sig, t)
  <2>1. late' = late /\ db' = db /\ (ds' = ds \/ ds' = Interrupted(ds))
    BY <1>7 DEF handleTerm, gsVars
  <2>2. ds' = "none" <=> ds = "none"
    BY <2>1 DEF Interrupted
  <2> QED
    BY <1>1, <2>1, <2>2
<1> QED
  BY <1>2, <1>3, <1>4, <1>5, <1>6, <1>7 DEF Next, GsStep

(***************************************************************************)
(* No SDK endpoint and no save by Gameserver::stop follows globalDbGate    *)
(* after main has deleted it, once both servers were created, whatever     *)
(* fails, whichever thread takes a signal and whatever the clients do.     *)
(* The statement leaves out the session threads, which main does not wait  *)
(* for, and the failure to create the dispatch thread.                     *)
(***************************************************************************)
THEOREM DbSafe == Spec => []ServersUseOpenDb
<1>1. Init => MainInv /\ LateInv
  BY DEF Init, HttpInit, MainInv, LateInv, ServersUseOpenDb, Early
<1>2. MainInv /\ LateInv /\ [Next]_vars => MainInv' /\ LateInv'
  <2>1. CASE Next
    BY <2>1, NextMainInv, NextLateInv
  <2>2. CASE UNCHANGED vars
    BY <2>2 DEF vars, httpVars, mainVars, gsVars, MainInv, LateInv, ServersUseOpenDb
  <2> QED
    BY <2>1, <2>2
<1>3. LateInv => ServersUseOpenDb
  BY DEF LateInv
<1> QED
  BY <1>1, <1>2, <1>3, PTL DEF Spec

\* A step of a session thread.
SessionStep == SessionStarts \/ SessionEnds \/ SessionUsesDb

\* The signal to stop is never taken back.
LEMMA SignalStays == Next => (DispatchServerSignal => DispatchServerSignal')
<1>1. MainStep => (DispatchServerSignal => DispatchServerSignal')
  BY DEF MainStep, OpenDb, CreateGameserver, CreateDispatch, CreateFailed, ConsoleTest,
         StopServers, JoinGameserver, JoinDispatch, DeleteDb, Return, httpVars
<1>2. ConsoleLine \/ ConsoleEnd \/ GsStep \/ SessionStep => (DispatchServerSignal => DispatchServerSignal')
  BY DEF ConsoleLine, ConsoleEnd, GsStep, GsStart, GsLoop, GsStop,
         SessionStep, SessionStarts, SessionEnds, SessionUsesDb, httpVars
<1>3. HttpNext => (DispatchServerSignal => DispatchServerSignal')
  BY DEF HttpNext, DsStep, DsStart, DsLoop, DsNoConn, DsInner, DsRecvEnd, DsRecvFails,
         DsAfter, DsReply, DsSend, DsAccept, DsRecv, DsSendFails, ClientLeaves
<1>4. (\E sig \in {"INT", "TERM"}, t \in Thread : handleTerm(sig, t)) =>
        (DispatchServerSignal => DispatchServerSignal')
  BY DEF handleTerm
<1> QED
  BY <1>1, <1>2, <1>3, <1>4 DEF Next, SessionStep, DispatchStep

(***************************************************************************)
(* DispatchServerMain follows meth and path only for a request the parser  *)
(* accepted on the same connection, until a stop is requested, for every   *)
(* request and every way it is cut into pieces.                            *)
(***************************************************************************)
THEOREM RouteSafe == Spec => []RoutedWasParsed
<1>1. Init => RoutedWasParsed
  BY DEF Init, HttpInit, RoutedWasParsed
<1>2. RoutedWasParsed /\ [Next]_vars => RoutedWasParsed'
  <2> SUFFICES ASSUME RoutedWasParsed, [Next]_vars PROVE RoutedWasParsed'
    OBVIOUS
  <2>1. CASE Next
    <3>1. CASE HttpNext
      BY <2>1, <3>1, SignalStays, RoutedStep
    <3>2. CASE ~HttpNext
      <4>1. \/ MainStep \/ ConsoleLine \/ ConsoleEnd \/ GsStep \/ SessionStep
            \/ \E sig \in {"INT", "TERM"}, t \in Thread : handleTerm(sig, t)
        BY <2>1, <3>2 DEF Next, SessionStep, DispatchStep
      <4>2. /\ pret' = pret /\ got' = got /\ meth' = meth
            /\ ds' = ds \/ ds' # "after"
        <5>1. CASE MainStep
          BY <5>1 DEF MainStep, OpenDb, CreateGameserver, CreateDispatch, CreateFailed, ConsoleTest,
                      StopServers, JoinGameserver, JoinDispatch, DeleteDb, Return, httpVars, local, conn
        <5>2. CASE ConsoleLine \/ ConsoleEnd \/ GsStep \/ SessionStep
          BY <5>2 DEF ConsoleLine, ConsoleEnd, GsStep, GsStart, GsLoop, GsStop, SessionStep,
                      SessionStarts, SessionEnds, SessionUsesDb, httpVars, local, conn
        <5>3. CASE \E sig \in {"INT", "TERM"}, t \in Thread : handleTerm(sig, t)
          BY <5>3 DEF handleTerm, Interrupted, local, conn
        <5> QED
          BY <4>1, <5>1, <5>2, <5>3
      <4> QED
        BY <2>1, <4>2, SignalStays DEF RoutedWasParsed
    <3> QED
      BY <3>1, <3>2
  <2>2. CASE UNCHANGED vars
    BY <2>2 DEF vars, httpVars, local, conn, RoutedWasParsed
  <2> QED
    BY <2>1, <2>2
<1> QED
  BY <1>1, <1>2, PTL DEF Spec

-----------------------------------------------------------------------------
(***************************************************************************)
(* Types.  The length of what is left to send and what is sent of it are   *)
(* bounded together, and a signal is counted at most once.                 *)
(***************************************************************************)
SendPlace == ds = "send" => left >= 1 /\ actual_len + left <= BufLen

HttpInv == HttpTypeOK /\ SendPlace

BodyOk == body = NULL \/ body \in Seq(Cell)

LocalOk ==
  /\ pkt_buf \in [1..BufLen -> Cell]
  /\ actual_len \in 0..BufLen
  /\ pret \in -2..BufLen
  /\ status \in {200, 204, 400, 403, 404, 405, 413}
  /\ BodyOk
  /\ meth \in -1..2
  /\ left \in 0..BufLen

ConnOk ==
  /\ req \in Seq(Cell) /\ stream \in Seq(Cell)
  /\ gone \in {"no", "closed", "reset"}
  /\ got \in Seq(1..BufLen) /\ past \in BOOLEAN
  /\ conns \in 0..MaxConns

\* The types of the thread's own variables and of the connection.
LEMMA TypeParts ==
  HttpTypeOK <=> /\ ds \in DsLabels
                 /\ DispatchServerSignal \in BOOLEAN /\ GameserverSignal \in BOOLEAN
                 /\ LocalOk /\ ConnOk
BY DEF HttpTypeOK, LocalOk, BodyOk, ConnOk

\* The same in the next state.
LEMMA TypePartsNext ==
  HttpTypeOK' <=> /\ ds' \in DsLabels
                  /\ DispatchServerSignal' \in BOOLEAN /\ GameserverSignal' \in BOOLEAN
                  /\ LocalOk' /\ ConnOk'
BY DEF HttpTypeOK, LocalOk, BodyOk, ConnOk

\* What a step leaves alone keeps its type; a closed connection has one.
LEMMA TypeFrame ==
  /\ UNCHANGED body /\ BodyOk => BodyOk'
  /\ UNCHANGED local /\ LocalOk => LocalOk'
  /\ UNCHANGED conn /\ ConnOk => ConnOk'
  /\ Closed /\ ConnOk => ConnOk'
<1>1. UNCHANGED body /\ BodyOk => BodyOk'
  BY DEF BodyOk
<1>2. UNCHANGED local /\ LocalOk => LocalOk'
  <2> SUFFICES ASSUME UNCHANGED local, LocalOk PROVE LocalOk'
    OBVIOUS
  <2>1. UNCHANGED <<pkt_buf, actual_len, pret, status, body, meth, left>>
    BY Zenon DEF local
  <2>2. BodyOk'
    BY <1>1, <2>1 DEF LocalOk
  <2> QED
    BY <2>1, <2>2, ZenonT(120) DEF LocalOk
<1>3. UNCHANGED conn /\ ConnOk => ConnOk'
  BY Zenon DEF conn, ConnOk
<1>4. Closed /\ ConnOk => ConnOk'
  <2>1. <<>> \in Seq(Cell) /\ <<>> \in Seq(1..BufLen)
    BY EmptySeq
  <2> QED
    BY <2>1, Zenon DEF Closed, ConnOk
<1> QED
  BY <1>1, <1>2, <1>3, <1>4

\* A string written into the buffer leaves a buffer.
LEMMA OverlayType ==
  ASSUME NEW buf \in [1..BufLen -> Cell], NEW at \in Nat, NEW t \in Seq(Cell)
  PROVE  Overlay(buf, at, t) \in [1..BufLen -> Cell]
<1>1. ASSUME NEW i \in 1..BufLen, i - at \in 1..Len(t) PROVE t[i - at] \in Cell
  BY <1>1, ElementOfSeq
<1> QED
  BY <1>1, HttpAssumption DEF Overlay

\* A response has three or four cells.
LEMMA ResponseType ==
  ASSUME NEW m, NEW st
  PROVE  /\ Response(m, st) \in Seq(Cell) /\ Append(Response(m, st), "bad") \in Seq(Cell)
         /\ Len(Response(m, st)) \in 3..4
<1> DEFINE h == <<"proto", "code", "end">>
           bd == <<"body">>
           nt == << >>
<1>1. h \in Seq(Cell) /\ Len(h) = 3 /\ bd \in Seq(Cell) /\ Len(bd) = 1
  BY DEF Cell
<1>2. nt \in Seq(Cell) /\ Len(nt) = 0
  OBVIOUS
<1> HIDE DEF h, bd, nt
<1>3. /\ h \o bd \in Seq(Cell) /\ Len(h \o bd) = Len(h) + Len(bd)
      /\ h \o nt \in Seq(Cell) /\ Len(h \o nt) = Len(h) + Len(nt)
  BY <1>1, <1>2, ConcatProperties, ZenonT(60)
<1>4. Response(m, st) = h \o nt \/ Response(m, st) = h \o bd
  BY DEF Response, h, bd, nt
<1>5. "bad" \in Cell
  BY DEF Cell
<1>6. Response(m, st) \in Seq(Cell) /\ Len(Response(m, st)) \in 3..4
  <2>1. /\ h \o bd \in Seq(Cell) /\ Len(h \o bd) = 4
        /\ h \o nt \in Seq(Cell) /\ Len(h \o nt) = 3
    BY <1>1, <1>2, <1>3
  <2>2. CASE Response(m, st) = h \o nt
    <3>1. Response(m, st) \in Seq(Cell) /\ Len(Response(m, st)) = 3
      BY <2>1, <2>2, Zenon
    <3> QED
      BY <3>1
  <2>3. CASE Response(m, st) = h \o bd
    <3>1. Response(m, st) \in Seq(Cell) /\ Len(Response(m, st)) = 4
      BY <2>1, <2>3, Zenon
    <3> QED
      BY <3>1
  <2> QED
    BY <1>4, <2>2, <2>3
<1> QED
  BY <1>5, <1>6, AppendProperties

\* The string behind cell n lies in the buffer.
LEMMA StringAfterType ==
  ASSUME NEW buf \in [1..BufLen -> Cell], NEW n \in 0..BufLen
  PROVE  StringAfter(buf, n) \in Seq(Cell)
<1> USE HttpAssumption
<1> DEFINE ends == {i \in (n + 1)..BufLen : buf[i] = "bad"}
           first == CHOOSE i \in ends : \A j \in ends : i <= j
           last == IF ends = {} THEN BufLen ELSE first - 1
<1>1. last \in n..BufLen
  <2>1. CASE ends = {}
    BY <2>1
  <2>2. CASE ends # {}
    <3>1. ends \in SUBSET Nat
      OBVIOUS
    <3>2. \E i \in ends : \A j \in ends : i <= j
      BY <2>2, <3>1, LeastElement
    <3>3. first \in ends
      BY <3>2
    <3>4. last = first - 1
      BY <2>2
    <3> QED
      BY <3>3, <3>4
  <2> QED
    BY <2>1, <2>2
<1>2. StringAfter(buf, n) = SubSeq(buf, n + 1, last)
  BY DEF StringAfter
<1> HIDE DEF last
<1>3. \A i \in (n + 1)..last : buf[i] \in Cell
  BY <1>1
<1> QED
  BY <1>1, <1>2, <1>3, SubSeqProperties

\* The steps of the thread that read and parse.
LEMMA DsRecvType ==
  ASSUME HttpInv, DsRecv PROVE HttpInv'
<1> USE HttpAssumption
<1>t. LocalOk /\ ConnOk /\ DispatchServerSignal \in BOOLEAN /\ GameserverSignal \in BOOLEAN
  BY TypeParts DEF HttpInv
<1>1. PICK n \in 1..Len(stream) :
        /\ actual_len + n <= BufLen
        /\ stream' = SubSeq(stream, n + 1, Len(stream))
        /\ got' = Append(got, n)
        /\ pkt_buf' = Overlay(pkt_buf, actual_len, SubSeq(stream, 1, n))
        /\ actual_len' = actual_len + n
  BY DEF DsRecv
<1>2. PICK p \in phr_parse_request(pkt_buf', BufLen, actual_len', actual_len) :
        pret' = p[1] /\ meth' = p[2]
  BY DEF DsRecv
<1>3. /\ ds' \in {"after", "reply", "inner"} /\ status' \in {status, 413}
      /\ UNCHANGED <<DispatchServerSignal, GameserverSignal, body, left, req, gone, past, conns>>
  BY DEF DsRecv
<1>4. Len(stream) \in Nat /\ stream \in Seq(Cell) /\ actual_len \in 0..BufLen
  BY <1>t DEF LocalOk, ConnOk
<1>5. stream' \in Seq(Cell) /\ SubSeq(stream, 1, n) \in Seq(Cell)
  <2>1. \A i \in 1..Len(stream) : stream[i] \in Cell
    BY <1>4, ElementOfSeq
  <2> QED
    BY <1>1, <1>4, <2>1, SubSeqProperties, SMTT(60)
<1>6. pkt_buf' \in [1..BufLen -> Cell]
  <2>1. actual_len \in Nat /\ pkt_buf \in [1..BufLen -> Cell]
    BY <1>t, <1>4 DEF LocalOk
  <2> QED
    BY <1>1, <1>5, <2>1, OverlayType, Zenon
<1>7. pret' \in -2..BufLen /\ meth' \in -1..2
  BY <1>2, <1>6, ParserResult
<1>8. n \in 1..BufLen /\ actual_len' \in 0..BufLen
  BY <1>1, <1>4
<1>9. got' \in Seq(1..BufLen)
  BY <1>1, <1>8, <1>t, AppendProperties DEF ConnOk
<1>10. LocalOk'
  <2>1. BodyOk'
    BY <1>3, <1>t, TypeFrame DEF LocalOk
  <2>2. /\ status' \in {200, 204, 400, 403, 404, 405, 413} /\ left' \in 0..BufLen
    BY <1>3, <1>t DEF LocalOk
  <2> QED
    BY <1>6, <1>7, <1>8, <2>1, <2>2, ZenonT(120) DEF LocalOk
<1>11. ConnOk'
  BY <1>3, <1>5, <1>9, <1>t, ZenonT(60) DEF ConnOk
<1>12. ds' \in DsLabels /\ ds' # "send"
  BY <1>3 DEF DsLabels
<1>13. DispatchServerSignal' \in BOOLEAN /\ GameserverSignal' \in BOOLEAN
  BY <1>3, <1>t
<1> QED
  BY <1>10, <1>11, <1>12, <1>13, TypePartsNext, Zenon DEF HttpInv, SendPlace

\* The route of a request.
LEMMA DsAfterType ==
  ASSUME HttpInv, DsAfter PROVE HttpInv'
<1> USE HttpAssumption
<1>t. LocalOk /\ ConnOk /\ DispatchServerSignal \in BOOLEAN /\ GameserverSignal \in BOOLEAN
  BY TypeParts DEF HttpInv
<1>1. /\ ds' \in {"reply", "dead"}
      /\ UNCHANGED <<DispatchServerSignal, GameserverSignal, actual_len, pret, meth, left,
                     req, stream, gone, got, conns>>
  BY DEF DsAfter
<1>2. status' \in {200, 204, 400, 403, 404, 405, 413}
  <2>1. RouteStatus(pkt_buf'[meth], pkt_buf'[meth + 1]) \in {200, 204, 400, 403, 404, 405}
    BY DEF RouteStatus
  <2>2. \/ status' = status \/ status' = 400 \/ status' \in {200, 204, 400, 403, 404, 405}
        \/ status' = RouteStatus(pkt_buf'[meth], pkt_buf'[meth + 1])
    BY ZenonT(60) DEF DsAfter
  <2> QED
    BY <1>t, <2>1, <2>2 DEF LocalOk
<1>3. pkt_buf' \in [1..BufLen -> Cell]
  <2>1. "bad" \in Cell
    BY DEF Cell
  <2>2. \/ pkt_buf' = pkt_buf
        \/ pkt_buf' = [i \in 1..BufLen |-> IF i = actual_len + 1 THEN "bad" ELSE pkt_buf[i]]
    BY DEF DsAfter
  <2> QED
    BY <1>t, <2>1, <2>2 DEF LocalOk
<1>4. BodyOk'
  <2>0. pret \in -2..BufLen
    BY <1>t DEF LocalOk
  <2>1. pret >= 0 => StringAfter(pkt_buf', pret) \in Seq(Cell)
    BY <1>3, <2>0, StringAfterType
  <2>2. \/ body' = body \/ body' \in {NULL, <<>>}
        \/ (~(pret < 0) /\ body' = StringAfter(pkt_buf', pret))
    BY DEF DsAfter
  <2>3. <<>> \in Seq(Cell)
    BY EmptySeq
  <2>4. CASE body' = body
    BY <1>t, <2>4, TypeFrame DEF LocalOk
  <2>5. CASE body' \in {NULL, <<>>}
    BY <2>3, <2>5, Zenon DEF BodyOk
  <2>6. CASE ~(pret < 0) /\ body' = StringAfter(pkt_buf', pret)
    <3>1. pret >= 0
      BY <2>0, <2>6
    <3> QED
      BY <2>1, <2>6, <3>1, Zenon DEF BodyOk
  <2> QED
    BY <2>2, <2>4, <2>5, <2>6
<1>5. LocalOk' /\ ConnOk'
  <2>0. past' \in BOOLEAN
    BY <1>t, ZenonT(60) DEF DsAfter, ConnOk
  <2>1. ConnOk'
    BY <1>1, <1>t, <2>0, Zenon DEF ConnOk
  <2> QED
    BY <1>1, <1>2, <1>3, <1>4, <1>t, <2>1, ZenonT(120) DEF LocalOk
<1>6. ds' \in DsLabels /\ ds' # "send"
  BY <1>1 DEF DsLabels
<1>7. DispatchServerSignal' \in BOOLEAN /\ GameserverSignal' \in BOOLEAN
  BY <1>1, <1>t
<1> QED
  BY <1>5, <1>6, <1>7, TypePartsNext, Zenon DEF HttpInv, SendPlace

\* The response, which fits into the buffer.
LEMMA DsReplyType ==
  ASSUME HttpInv, DsReply PROVE HttpInv'
<1> USE HttpAssumption
<1>t. LocalOk /\ ConnOk /\ DispatchServerSignal \in BOOLEAN /\ GameserverSignal \in BOOLEAN
  BY TypeParts DEF HttpInv
<1>1. UNCHANGED <<DispatchServerSignal, GameserverSignal, pret, status, body, meth, conn>>
  BY DEF DsReply
<1>2. /\ ConnOk' /\ BodyOk'
      /\ DispatchServerSignal' \in BOOLEAN /\ GameserverSignal' \in BOOLEAN
  BY <1>1, <1>t, TypeFrame DEF LocalOk
<1>3. CASE ds' = "dead" /\ UNCHANGED <<pkt_buf, actual_len, left>>
  <2>1. LocalOk'
    BY <1>1, <1>2, <1>3, <1>t, ZenonT(120) DEF LocalOk
  <2>2. ds' \in DsLabels /\ ds' # "send"
    BY <1>3 DEF DsLabels
  <2> QED
    BY <1>2, <2>1, <2>2, TypePartsNext, Zenon DEF HttpInv, SendPlace
<1>4. ASSUME NEW m, pkt_buf' = Overlay(pkt_buf, 0, Append(Response(m, status), "bad")),
             left' = Len(Response(m, status)), actual_len' = 0, ds' = "send"
      PROVE  HttpInv'
  <2>1. pkt_buf' \in [1..BufLen -> Cell]
    <3>1. pkt_buf \in [1..BufLen -> Cell] /\ 0 \in Nat
      BY <1>t DEF LocalOk
    <3>2. Append(Response(m, status), "bad") \in Seq(Cell)
      BY ResponseType
    <3> QED
      BY <1>4, <3>1, <3>2, OverlayType, Zenon
  <2>2. left' \in 3..4
    BY <1>4, ResponseType
  <2>3. left' \in 0..BufLen /\ actual_len' \in 0..BufLen /\ SendPlace'
    BY <1>4, <2>2 DEF SendPlace
  <2>4. LocalOk'
    BY <1>1, <1>2, <1>t, <2>1, <2>3, ZenonT(120) DEF LocalOk
  <2>5. ds' \in DsLabels
    BY <1>4 DEF DsLabels
  <2> QED
    BY <1>2, <2>3, <2>4, <2>5, TypePartsNext, Zenon DEF HttpInv
<1> QED
  BY <1>3, <1>4, Zenon DEF DsReply

\* send takes some of what is left.
LEMMA DsSendType ==
  ASSUME HttpInv, DsSend PROVE HttpInv'
<1> USE HttpAssumption
<1>t. LocalOk /\ ConnOk /\ DispatchServerSignal \in BOOLEAN /\ GameserverSignal \in BOOLEAN
  BY TypeParts DEF HttpInv
<1>1. PICK n \in {1, left} : left' = left - n /\ actual_len' = actual_len + n
  BY DEF DsSend
<1>2. /\ ds = "send" /\ left \in 1..BufLen /\ actual_len \in 0..BufLen
      /\ actual_len + left <= BufLen
  BY <1>t DEF DsSend, SendPlace, LocalOk, HttpInv
<1>3. /\ left' \in 0..BufLen /\ actual_len' \in 0..BufLen
      /\ actual_len' + left' <= BufLen
  BY <1>1, <1>2
<1>4. UNCHANGED <<DispatchServerSignal, GameserverSignal, pkt_buf, pret, status, body, meth>>
  BY DEF DsSend
<1>5. BodyOk' /\ DispatchServerSignal' \in BOOLEAN /\ GameserverSignal' \in BOOLEAN
  BY <1>4, <1>t, TypeFrame DEF LocalOk
<1>6. LocalOk'
  BY <1>3, <1>4, <1>5, <1>t, ZenonT(120) DEF LocalOk
<1>7. ConnOk' /\ ds' \in DsLabels /\ SendPlace'
  <2>1. CASE left' = 0
    <3>1. ds' = "loop" /\ Closed
      BY <2>1 DEF DsSend
    <3> QED
      BY <1>t, <3>1, TypeFrame DEF DsLabels, SendPlace
  <2>2. CASE left' # 0
    <3>1. UNCHANGED <<ds, conn>>
      BY <2>2 DEF DsSend
    <3>2. ConnOk'
      BY <1>t, <3>1, TypeFrame
    <3>3. ds' \in DsLabels
      BY <1>2, <3>1 DEF DsLabels
    <3>4. SendPlace'
      <4> DEFINE x == left'
      <4>0. x \in 0..BufLen /\ x # 0
        BY <1>3, <2>2
      <4>a. x >= 1
        <5> HIDE DEF x
        <5> QED
          BY <4>0
      <4>1. left' >= 1 /\ actual_len' + left' <= BufLen
        BY <1>3, <4>a
      <4> QED
        BY <4>1, Zenon DEF SendPlace
    <3> QED
      BY <3>2, <3>3, <3>4
  <2> QED
    BY <2>1, <2>2
<1> QED
  BY <1>5, <1>6, <1>7, TypePartsNext, Zenon DEF HttpInv

\* Every step of DispatchServerMain and of its client.
LEMMA HttpType ==
  ASSUME HttpInv, HttpNext PROVE HttpInv'
<1> USE HttpAssumption
<1>t. /\ ds \in DsLabels /\ LocalOk /\ ConnOk
      /\ DispatchServerSignal \in BOOLEAN /\ GameserverSignal \in BOOLEAN /\ SendPlace
  BY TypeParts DEF HttpInv
<1> DEFINE Goal == /\ ds' \in DsLabels /\ LocalOk' /\ ConnOk' /\ SendPlace'
                   /\ DispatchServerSignal' \in BOOLEAN /\ GameserverSignal' \in BOOLEAN
<1>g. Goal => HttpInv'
  BY TypePartsNext, Zenon DEF HttpInv
<1> HIDE DEF Goal
<1>1. CASE DsStart \/ DsNoConn \/ DsInner
  <2>1. UNCHANGED local /\ UNCHANGED conn /\ UNCHANGED DispatchServerSignal
    BY <1>1 DEF DsStart, DsNoConn, DsInner
  <2>2. /\ ds' \in {"loop", "done", "after", "recv"} /\ GameserverSignal' \in {GameserverSignal, TRUE}
    BY <1>1 DEF DsStart, DsNoConn, DsInner
  <2> QED
    BY <1>t, <1>g, <2>1, <2>2, TypeFrame DEF Goal, DsLabels, SendPlace
<1>2. CASE DsLoop
  <2>1. /\ UNCHANGED <<pkt_buf, status, body, meth, left>> /\ UNCHANGED conn
        /\ UNCHANGED DispatchServerSignal
        /\ ds' \in {"done", "select"} /\ GameserverSignal' \in {GameserverSignal, TRUE}
        /\ pret' \in {pret, 0} /\ actual_len' \in {actual_len, 0}
    BY <1>2 DEF DsLoop
  <2>2. pret' \in -2..BufLen /\ actual_len' \in 0..BufLen /\ BodyOk'
    BY <1>t, <2>1, TypeFrame DEF LocalOk
  <2>3. LocalOk'
    BY <1>t, <2>1, <2>2, ZenonT(120) DEF LocalOk
  <2> QED
    BY <1>t, <1>g, <2>1, <2>3, TypeFrame DEF Goal, DsLabels, SendPlace
<1>3. CASE DsAccept
  <2>1. UNCHANGED local /\ UNCHANGED <<DispatchServerSignal, GameserverSignal>> /\ ds' = "inner"
    BY <1>3 DEF DsAccept
  <2>2. /\ req' \in Request /\ stream' \in Request /\ gone' = "no" /\ got' = <<>> /\ past' = FALSE
        /\ conns' = conns + 1
    BY <1>3 DEF DsAccept
  <2>3. conns' \in 0..MaxConns
    BY <1>3, <1>t DEF DsAccept, ConnOk
  <2>4. <<>> \in Seq(1..BufLen) /\ req' \in Seq(Cell) /\ stream' \in Seq(Cell)
    BY <2>2, EmptySeq
  <2>5. ConnOk'
    BY <2>2, <2>3, <2>4, Zenon DEF ConnOk
  <2> QED
    BY <1>t, <1>g, <2>1, <2>5, TypeFrame DEF Goal, DsLabels, SendPlace
<1>4. CASE DsRecvEnd
  <2>1. UNCHANGED local /\ UNCHANGED <<DispatchServerSignal, GameserverSignal>> /\ ds' = "loop" /\ Closed
    BY <1>4 DEF DsRecvEnd
  <2> QED
    BY <1>t, <1>g, <2>1, TypeFrame DEF Goal, DsLabels, SendPlace
<1>5. CASE DsRecvFails
  <2>1. /\ UNCHANGED local /\ UNCHANGED <<DispatchServerSignal, GameserverSignal>>
        /\ UNCHANGED <<req, stream, got, past, conns>> /\ ds' = "inner" /\ gone' = "closed"
    BY <1>5 DEF DsRecvFails
  <2>2. ConnOk'
    BY <1>t, <2>1, Zenon DEF ConnOk
  <2> QED
    BY <1>t, <1>g, <2>1, <2>2, TypeFrame DEF Goal, DsLabels, SendPlace
<1>6. CASE DsSendFails
  <2>1. /\ UNCHANGED local /\ UNCHANGED conn /\ UNCHANGED <<DispatchServerSignal, GameserverSignal>>
        /\ ds' \in {"dead", "spin"}
    BY <1>6 DEF DsSendFails
  <2> QED
    BY <1>t, <1>g, <2>1, TypeFrame DEF Goal, DsLabels, SendPlace
<1>7. CASE ClientLeaves
  <2>1. /\ UNCHANGED local /\ UNCHANGED <<ds, DispatchServerSignal, GameserverSignal>>
        /\ UNCHANGED <<req, got, past, conns>> /\ stream' = <<>> /\ gone' \in {"closed", "reset"}
    BY <1>7 DEF ClientLeaves
  <2>2. stream' \in Seq(Cell) /\ gone' \in {"no", "closed", "reset"}
    BY <2>1, EmptySeq
  <2>3. ConnOk'
    BY <1>t, <2>1, <2>2, Zenon DEF ConnOk
  <2>4. SendPlace'
    BY <1>t, <2>1 DEF SendPlace, local
  <2> QED
    BY <1>t, <1>g, <2>1, <2>3, <2>4, TypeFrame DEF Goal
<1> QED
  BY <1>1, <1>2, <1>3, <1>4, <1>5, <1>6, <1>7, DsRecvType, DsAfterType, DsReplyType, DsSendType
     DEF HttpNext, DsStep

\* The process around the dispatch thread: its own variables, and a signal
\* is counted at most once.
ProcInv == TypeOK /\ SendPlace /\ timesCalled <= signals

\* Every step of a thread, and every signal.
LEMMA ProcNext ==
  ASSUME ProcInv, Next PROVE ProcInv'
<1> USE HttpAssumption, LifecycleAssumption
<1>t. TypeOK /\ SendPlace /\ timesCalled <= signals
  BY DEF ProcInv
<1>p. /\ ds \in DsLabels /\ LocalOk /\ ConnOk
      /\ DispatchServerSignal \in BOOLEAN /\ GameserverSignal \in BOOLEAN
  BY <1>t, TypeParts DEF TypeOK
<1>f. ASSUME UNCHANGED local, UNCHANGED conn, ds' \in DsLabels, ds' = "send" => ds = "send",
             DispatchServerSignal' \in BOOLEAN, GameserverSignal' \in BOOLEAN
      PROVE  HttpTypeOK' /\ SendPlace'
  <2>1. LocalOk' /\ ConnOk'
    BY <1>f, <1>p, TypeFrame
  <2>2. SendPlace'
    BY <1>f, <1>t DEF SendPlace, local
  <2> QED
    BY <1>f, <2>1, <2>2, TypePartsNext, Zenon
<1>1. CASE MainStep
  <2>1. /\ UNCHANGED local /\ UNCHANGED conn /\ ds' \in {ds, "start"}
        /\ DispatchServerSignal' \in {DispatchServerSignal, TRUE}
        /\ GameserverSignal' \in {GameserverSignal, TRUE}
    BY <1>1, Zenon DEF MainStep, OpenDb, CreateGameserver, CreateDispatch, CreateFailed, ConsoleTest,
       StopServers, JoinGameserver, JoinDispatch, DeleteDb, Return, httpVars
  <2>2. HttpTypeOK' /\ SendPlace'
    BY <1>f, <1>p, <2>1 DEF DsLabels
  <2> QED
    BY <1>1, <1>t, <2>2, ZenonT(60) DEF MainStep, OpenDb, CreateGameserver, CreateDispatch, CreateFailed,
       ConsoleTest, StopServers, JoinGameserver, JoinDispatch, DeleteDb, Return, gsVars, ProcInv, TypeOK
<1>2. CASE ConsoleLine \/ ConsoleEnd \/ GsStep \/ SessionStep
  <2>1. /\ UNCHANGED local /\ UNCHANGED conn /\ ds' = ds
        /\ DispatchServerSignal' \in {DispatchServerSignal, TRUE}
        /\ GameserverSignal' \in {GameserverSignal, TRUE}
    BY <1>2, Zenon DEF ConsoleLine, ConsoleEnd, GsStep, GsStart, GsLoop, GsStop, SessionStep,
       SessionStarts, SessionEnds, SessionUsesDb, httpVars
  <2>2. HttpTypeOK' /\ SendPlace'
    BY <1>f, <1>p, <2>1
  <2> QED
    <3>1. CASE ConsoleLine \/ ConsoleEnd \/ GsStart \/ GsLoop
      BY <1>t, <2>2, <3>1, ZenonT(60) DEF ConsoleLine, ConsoleEnd, GsStart, GsLoop, mainVars, gsVars, ProcInv, TypeOK
    <3>2. CASE SessionStarts \/ SessionEnds
      <4>1. sessions' \in 0..MaxThreads
        BY <1>t, <3>2 DEF SessionStarts, SessionEnds, TypeOK
      <4> QED
        BY <1>t, <2>2, <3>2, <4>1, ZenonT(60) DEF SessionStarts, SessionEnds, mainVars, ProcInv, TypeOK
    <3>3. CASE GsStop \/ SessionUsesDb
      <4>1. late' \subseteq {"gs", "ds", "session"} /\ ended' \in {ended, "killed"}
        BY <1>t, <3>3 DEF GsStop, SessionUsesDb, UsesDb, TypeOK
      <4>2. /\ UNCHANGED <<sessions, mn, db, console_signal, exitSignal, timesCalled, signals>>
            /\ gsv' \in {gsv, "done"}
        BY <3>3 DEF GsStop, SessionUsesDb
      <4> QED
        BY <1>t, <2>2, <4>1, <4>2 DEF ProcInv, TypeOK
    <3> QED
      BY <1>2, <3>1, <3>2, <3>3 DEF GsStep, SessionStep
<1>3. CASE DispatchStep(HttpNext)
  <2>1. HttpInv'
    BY <1>3, <1>t, HttpType DEF HttpInv, TypeOK, DispatchStep
  <2>2. late' \subseteq {"gs", "ds", "session"} /\ ended' \in {ended, "killed"}
    BY <1>3, <1>t DEF DispatchStep, UsesDb, TypeOK
  <2> QED
    BY <1>3, <1>t, <2>1, <2>2 DEF HttpInv, ProcInv, TypeOK, DispatchStep
<1>4. ASSUME NEW sig \in {"INT", "TERM"}, NEW t \in Thread, handleTerm(sig, t) PROVE ProcInv'
  <2>1. /\ ds' \in {ds, "inner", "spin"} /\ UNCHANGED local /\ UNCHANGED conn /\ UNCHANGED <<gsv, sessions, late, db>>
        /\ DispatchServerSignal' \in BOOLEAN /\ GameserverSignal' \in BOOLEAN
    BY <1>4, <1>p DEF handleTerm, Interrupted, gsVars
  <2>2. HttpTypeOK' /\ SendPlace'
    BY <1>f, <1>p, <2>1 DEF DsLabels
  <2>3. /\ signals' \in 0..MaxSignals /\ timesCalled' \in 0..MaxSignals /\ timesCalled' <= signals'
    BY <1>4, <1>t DEF handleTerm, TypeOK
  <2>4. /\ mn' \in {mn, "read", "signal", "console"} /\ ended' \in {ended, "killed"}
        /\ console_signal' \in BOOLEAN /\ exitSignal' \in {"INT", "TERM"}
    BY <1>4 DEF handleTerm
  <2> QED
    BY <1>t, <2>1, <2>2, <2>3, <2>4 DEF ProcInv, TypeOK
<1> QED
  BY <1>1, <1>2, <1>3, <1>4 DEF Next, SessionStep

\* It holds in every reachable state.
LEMMA ProcInvariant == Spec => []ProcInv
<1>1. Init => ProcInv
  <2> SUFFICES ASSUME Init PROVE ProcInv
    OBVIOUS
  <2>1. pkt_buf \in [1..BufLen -> Cell]
    BY DEF Init, HttpInit, Cell
  <2>2. <<>> \in Seq(Cell) /\ <<>> \in Seq(1..BufLen)
    BY EmptySeq
  <2>3. LocalOk
    BY <2>1, HttpAssumption DEF Init, HttpInit, LocalOk, BodyOk
  <2>4. ConnOk
    <3>1. 0 \in 0..MaxConns
      BY HttpAssumption
    <3> QED
      BY <2>2, <3>1, Zenon DEF Init, HttpInit, ConnOk
  <2>5. HttpTypeOK
    BY <2>3, <2>4, TypeParts DEF Init, HttpInit, DsLabels
  <2>6. SendPlace
    BY DEF Init, HttpInit, SendPlace
  <2>7. /\ timesCalled = 0 /\ signals = 0 /\ 0 \in 0..MaxSignals /\ timesCalled <= signals
        /\ 0 \in 0..MaxThreads
    BY LifecycleAssumption DEF Init
  <2> QED
    BY <2>5, <2>6, <2>7, Zenon DEF Init, ProcInv, TypeOK
<1>2. ProcInv /\ [Next]_vars => ProcInv'
  <2>1. CASE Next
    BY <2>1, ProcNext
  <2>2. CASE UNCHANGED vars
    BY <2>2 DEF vars, httpVars, mainVars, gsVars, local, conn, ProcInv, TypeOK, HttpTypeOK, SendPlace
  <2> QED
    BY <2>1, <2>2
<1> QED
  BY <1>1, <1>2, PTL DEF Spec

(***************************************************************************)
(* Type correctness of the process: in particular no recv of               *)
(* DispatchServerMain writes past the end of pkt_buf and no send reads     *)
(* past it.  It does not bound the terminator, which the code writes       *)
(* behind the buffer when a request fills it (see ShortFits).              *)
(***************************************************************************)
THEOREM TypeCorrect == Spec => []TypeOK
<1>1. ProcInv => TypeOK
  BY DEF ProcInv
<1> QED
  BY <1>1, ProcInvariant, PTL

-----------------------------------------------------------------------------
(***************************************************************************)
(* AnswersOwnRequest.  A request that came whole is in the first cells of  *)
(* pkt_buf with its length in actual_len, which needs that the counter and *)
(* the stream are fresh when the first recv comes, and the end the parser  *)
(* found is its blank line; a well-formed request is never read on.        *)
(***************************************************************************)
Fresh ==
  /\ ds = "select" => actual_len = 0
  /\ ds \in {"inner", "recv"} /\ got = <<>> => actual_len = 0 /\ stream \in {req, <<>>}

Parsed(i) ==
  /\ pret = i /\ meth = Skip(req) + 1 /\ actual_len = Len(req)
  /\ \A j \in 1..Len(req) : pkt_buf[j] = req[j]

Served ==
  ReceivedWhole =>
    \A i \in 3..Len(req) : WellFormed(req, i) =>
      /\ ds \notin {"inner", "recv"}
      /\ ds = "after" => Parsed(i)
      /\ ds \in {"reply", "send"} => Answered(i)

\* The string behind cell n ends before the first zero byte, or with the buffer.
LEMMA StringAfterIs ==
  ASSUME NEW buf, NEW n \in Nat, NEW l \in Nat, n <= l, l <= BufLen,
         l < BufLen => buf[l + 1] = "bad", \A j \in (n + 1)..l : buf[j] # "bad"
  PROVE  StringAfter(buf, n) = SubSeq(buf, n + 1, l)
<1> USE HttpAssumption
<1> DEFINE ends == {i \in (n + 1)..BufLen : buf[i] = "bad"}
           first == CHOOSE i \in ends : \A j \in ends : i <= j
           last == IF ends = {} THEN BufLen ELSE first - 1
<1>1. last = l
  <2>1. CASE l < BufLen
    <3>1. l + 1 \in ends /\ \A j \in ends : l + 1 <= j
      BY <2>1
    <3>2. first \in ends /\ \A j \in ends : first <= j
      BY <3>1
    <3>3. first = l + 1
      <4>1. first \in Int
        BY <3>2
      <4> HIDE DEF first
      <4> QED
        BY <3>1, <3>2, <4>1
    <3> QED
      BY <3>1, <3>3, SMTT(60)
  <2>2. CASE l = BufLen
    <3>1. ends = {}
      BY <2>2
    <3> QED
      BY <2>2, <3>1
  <2> QED
    BY <2>1, <2>2
<1>2. StringAfter(buf, n) = SubSeq(buf, n + 1, last)
  BY DEF StringAfter
<1> QED
  BY <1>1, <1>2

\* The parser's answer to a well-formed request that is in the buffer.
LEMMA ParsesWhole ==
  ASSUME NEW buf, NEW r \in Seq(Cell), NEW i \in 3..Len(r), WellFormed(r, i),
         Len(r) <= BufLen, \A j \in 1..Len(r) : buf[j] = r[j]
  PROVE  phr_parse_request(buf, BufLen, Len(r), 0) = {<<i, Skip(r) + 1>>}
<1> USE HttpAssumption
<1>0. Len(r) \in Nat /\ i \in 3..BufLen /\ i <= Len(r)
  OBVIOUS
<1>a. buf[1] = r[1]
  BY <1>0
<1>b. Skip(buf) = Skip(r) /\ Headers(buf) = Headers(r)
  BY <1>a DEF Skip, Headers
<1> DEFINE m == Skip(r) + 1
           h == Headers(r)
<1>c. m \in 1..2 /\ h = m + 2 /\ m = Skip(buf) + 1 /\ Headers(buf) = h
  BY <1>b, SkipIs
<1>d. i \in h..(h + MaxHdrs) /\ r[i] = "end" /\ r[m] \in Methods /\ r[m + 1] \in Targets
  <2>1. m + 1 = Skip(r) + 2
    BY SkipIs
  <2>2. /\ r[m] \in Methods /\ r[Skip(r) + 2] \in Targets
        /\ i \in h..(h + MaxHdrs) /\ r[i] = "end"
    BY DEF WellFormed
  <2> HIDE DEF m, h
  <2> QED
    BY <2>1, <2>2
<1>2. \A j \in h..(i - 1) : r[j] = "hdr"
  BY DEF WellFormed
<1> HIDE DEF m, h
<1>1. buf[m] \in Methods /\ buf[m + 1] \in Targets /\ buf[i] = "end"
  <2>1. m \in 1..Len(r) /\ m + 1 \in 1..Len(r) /\ i \in 1..Len(r)
    BY <1>0, <1>c, <1>d, SMTT(60)
  <2>2. buf[m] = r[m] /\ buf[m + 1] = r[m + 1] /\ buf[i] = r[i]
    BY <2>1
  <2> QED
    BY <1>d, <2>2
<1>3. HeadersEnd(buf) = i
  <2>1. \A j \in Headers(buf)..(i - 1) : buf[j] = "hdr"
    BY <1>0, <1>2, <1>c
  <2>2. i \in Headers(buf)..BufLen /\ buf[i] # "hdr"
    BY <1>0, <1>1, <1>c, <1>d
  <2> QED
    BY <2>1, <2>2, HeadersEndIs
<1>4. parse_request(buf, BufLen, Len(r)) = {<<i, m>>}
  <2>1. parse_request(buf, BufLen, Len(r)) =
          IF i - h > MaxHdrs THEN {<<-1, m>>}
          ELSE IF i > BufLen THEN {<<-2, m>>}
          ELSE IF buf[i] # "end" THEN {<<-1, m>>}
          ELSE IF i > Len(r) THEN {<<i, m>>, <<-1, m>>}
          ELSE {<<i, m>>}
    BY <1>1, <1>3, <1>c DEF parse_request, TokenFirst
  <2>2. ~(i - h > MaxHdrs) /\ ~(i > BufLen) /\ ~(i > Len(r))
    BY <1>0, <1>c, <1>d, SMTT(60)
  <2> QED
    BY <1>1, <2>1, <2>2
<1> QED
  BY <1>4 DEF phr_parse_request, m

\* A step that leaves the request alone and takes the thread no nearer to the
\* answer.
LEMMA ServedFrame ==
  ASSUME Served, UNCHANGED <<req, got>>,
         ds' \in {"inner", "recv"} => ds \in {"inner", "recv"},
         ds' = "after" => ds \in {"inner", "recv"}
                          \/ (ds = "after" /\ UNCHANGED <<pret, meth, actual_len, pkt_buf>>),
         ds' \in {"reply", "send"} => ds \in {"reply", "send"} /\ UNCHANGED <<status, body>>
  PROVE  Served'
<1> SUFFICES ASSUME ReceivedWhole', NEW i \in 3..Len(req'), WellFormed(req', i)
             PROVE  /\ ds' \notin {"inner", "recv"}
                    /\ ds' = "after" => Parsed(i)'
                    /\ ds' \in {"reply", "send"} => Answered(i)'
  BY DEF Served
<1>1. req' = req /\ ReceivedWhole /\ WellFormed(req, i) /\ i \in 3..Len(req)
  <2>1. req' = req /\ got' = got
    OBVIOUS
  <2> QED
    BY <2>1 DEF ReceivedWhole
<1>2. /\ ds \notin {"inner", "recv"}
      /\ ds = "after" => Parsed(i)
      /\ ds \in {"reply", "send"} => Answered(i)
  BY <1>1 DEF Served
<1>3. ds' = "after" => Parsed(i)'
  <2> SUFFICES ASSUME ds' = "after" PROVE Parsed(i)'
    OBVIOUS
  <2>1. Parsed(i) /\ UNCHANGED <<pret, meth, actual_len, pkt_buf, req>>
    BY <1>1, <1>2
  <2> QED
    BY <2>1, Zenon DEF Parsed
<1>4. ds' \in {"reply", "send"} => Answered(i)'
  <2> SUFFICES ASSUME ds' \in {"reply", "send"} PROVE Answered(i)'
    OBVIOUS
  <2>1. Answered(i) /\ UNCHANGED <<status, body, req>>
    BY <1>1, <1>2
  <2> QED
    BY <2>1, Zenon DEF Answered
<1> QED
  BY <1>2, <1>3, <1>4

\* The first recv of a request that it returns whole.
LEMMA ServedRecv ==
  ASSUME HttpInv, Fresh, DsRecv PROVE Served'
<1> USE HttpAssumption
<1>t. LocalOk /\ ConnOk
  BY TypeParts DEF HttpInv
<1> SUFFICES ASSUME ReceivedWhole', NEW i \in 3..Len(req'), WellFormed(req', i)
             PROVE  ds' = "after" /\ Parsed(i)'
  BY DEF Served
<1>1. PICK n \in 1..Len(stream) :
        /\ actual_len + n <= BufLen
        /\ got' = Append(got, n)
        /\ pkt_buf' = Overlay(pkt_buf, actual_len, SubSeq(stream, 1, n))
        /\ actual_len' = actual_len + n
  BY DEF DsRecv
<1>2. PICK p \in phr_parse_request(pkt_buf', BufLen, actual_len', actual_len) :
        pret' = p[1] /\ meth' = p[2]
  BY DEF DsRecv
<1>3. /\ req' = req /\ ds = "recv" /\ (pret' >= -1 => ds' = "after")
      /\ req \in Seq(Cell) /\ got \in Seq(1..BufLen)
      /\ got' = <<Len(req)>> /\ Len(req) \in Nat
  BY <1>t DEF DsRecv, ConnOk, ReceivedWhole
<1>4. got = <<>> /\ n = Len(req)
  <2>1. Append(got, n) = <<Len(req)>>
    BY <1>1, <1>3
  <2>2. Len(Append(got, n)) = 1 /\ Append(got, n)[1] = Len(req)
    BY <2>1
  <2> QED
    BY <1>3, <2>2
<1>5. actual_len = 0 /\ stream = req /\ Len(req) <= BufLen
  BY <1>1, <1>3, <1>4 DEF Fresh
<1>6. actual_len' = Len(req) /\ \A j \in 1..Len(req) : pkt_buf'[j] = req[j]
  <2>1. /\ Len(SubSeq(req, 1, n)) = Len(req)
        /\ \A j \in 1..Len(req) : SubSeq(req, 1, n)[j] = req[j]
    <3>1. \A j \in 1..n : req[j] \in Cell
      BY <1>3, <1>4, ElementOfSeq
    <3> QED
      BY <1>3, <1>4, <3>1, SubSeqProperties
  <2> DEFINE t == SubSeq(req, 1, n)
  <2>2. pkt_buf' = Overlay(pkt_buf, 0, t)
    BY <1>1, <1>5
  <2> HIDE DEF t
  <2>3. \A j \in 1..Len(req) : pkt_buf'[j] = t[j]
    <3> SUFFICES ASSUME NEW j \in 1..Len(req) PROVE pkt_buf'[j] = t[j]
      OBVIOUS
    <3>1. j \in 1..BufLen /\ j - 0 = j /\ j \in 1..Len(t)
      BY <1>3, <1>5, <2>1 DEF t
    <3> QED
      BY <2>2, <3>1 DEF Overlay
  <2> QED
    BY <1>1, <1>3, <1>4, <1>5, <2>1, <2>3 DEF t
<1>7. p = <<i, Skip(req) + 1>>
  <2>1. phr_parse_request(pkt_buf', BufLen, Len(req), 0) = {<<i, Skip(req) + 1>>}
    BY <1>3, <1>5, <1>6, ParsesWhole
  <2> QED
    BY <1>2, <1>5, <1>6, <2>1
<1>8. pret' = i /\ meth' = Skip(req') + 1
  BY <1>2, <1>3, <1>7
<1>9. pret' >= -1
  BY <1>3, <1>8
<1> QED
  BY <1>3, <1>6, <1>8, <1>9, Zenon DEF Parsed

\* The route of a request that came whole.
LEMMA ServedAfter ==
  ASSUME HttpInv, Served, DsAfter PROVE Served'
<1> USE HttpAssumption
<1>t. LocalOk /\ ConnOk
  BY TypeParts DEF HttpInv
<1>0. /\ ds = "after" /\ ds' \in {"reply", "dead"}
      /\ req' = req /\ got' = got
  BY DEF DsAfter, conn
<1> SUFFICES ASSUME ReceivedWhole, NEW i \in 3..Len(req), WellFormed(req, i)
             PROVE  ds' = "reply" => Answered(i)'
  <2>1. ReceivedWhole' <=> ReceivedWhole
    BY <1>0 DEF ReceivedWhole
  <2> QED
    BY <1>0, <2>1 DEF Served
<1> SUFFICES ASSUME ds' = "reply" PROVE Answered(i)'
  OBVIOUS
<1>1. Parsed(i)
  BY <1>0 DEF Served
<1> DEFINE L == Len(req)
           m == Skip(req) + 1
<1>2. /\ req \in Seq(Cell) /\ L \in Nat /\ L <= BufLen /\ actual_len = L
      /\ pret = i /\ i \in Nat /\ i <= L /\ meth = m /\ m \in 1..2 /\ m + 2 <= i
      /\ pkt_buf \in [1..BufLen -> Cell]
      /\ \A j \in 1..L : pkt_buf[j] = req[j]
  <2>1. req \in Seq(Cell) /\ L \in Nat /\ i \in 3..L /\ pkt_buf \in [1..BufLen -> Cell]
    BY <1>t DEF LocalOk, ConnOk
  <2>2. /\ actual_len = L /\ pret = i /\ meth = m
        /\ \A j \in 1..L : pkt_buf[j] = req[j]
    BY <1>1 DEF Parsed
  <2>3. L <= BufLen
    BY <1>t, <2>2 DEF LocalOk
  <2>4. m \in 1..2 /\ m + 2 <= i
    BY SkipIs DEF WellFormed
  <2> QED
    BY <2>1, <2>2, <2>3, <2>4
<1> HIDE DEF L, m
<1>3. /\ pkt_buf' = [j \in 1..BufLen |-> IF j = L + 1 THEN "bad" ELSE pkt_buf[j]]
      /\ status' = RouteStatus(pkt_buf'[m], pkt_buf'[m + 1])
      /\ body' = IF pkt_buf'[m] = "POST" THEN StringAfter(pkt_buf', i) ELSE NULL
  BY <1>0, <1>2 DEF DsAfter
<1>4. /\ L < BufLen => pkt_buf'[L + 1] = "bad"
      /\ \A j \in 1..L : pkt_buf'[j] = req[j]
  BY <1>2, <1>3
<1>5. StringAfter(pkt_buf', i) = SubSeq(req, i + 1, L)
  <2>1. \A j \in (i + 1)..L : pkt_buf'[j] # "bad"
    BY <1>2, <1>4 DEF WellFormed, L
  <2>2. StringAfter(pkt_buf', i) = SubSeq(pkt_buf', i + 1, L)
    BY <1>2, <1>4, <2>1, StringAfterIs, ZenonT(60)
  <2>3. \A j \in (i + 1)..L : pkt_buf'[j] = req[j] /\ req[j] \in Cell
    <3>1. \A j \in 1..L : req[j] \in Cell
      BY <1>2, ElementOfSeq DEF L
    <3> QED
      BY <1>2, <1>4, <3>1
  <2> DEFINE a == SubSeq(pkt_buf', i + 1, L)
             b == SubSeq(req, i + 1, L)
  <2>4. /\ a \in Seq(Cell)
        /\ Len(a) = IF i + 1 <= L THEN L - (i + 1) + 1 ELSE 0
        /\ \A k \in 1..(L - (i + 1) + 1) : a[k] = pkt_buf'[i + 1 + k - 1]
    <3> DEFINE c == pkt_buf'
    <3>1. \A j \in (i + 1)..L : c[j] \in Cell
      BY <2>3
    <3> HIDE DEF c
    <3>2. /\ SubSeq(c, i + 1, L) \in Seq(Cell)
          /\ Len(SubSeq(c, i + 1, L)) = IF i + 1 <= L THEN L - (i + 1) + 1 ELSE 0
          /\ \A k \in 1..(L - (i + 1) + 1) : SubSeq(c, i + 1, L)[k] = c[i + 1 + k - 1]
      BY <1>2, <3>1, SubSeqProperties, SMTT(60)
    <3> QED
      BY <3>2 DEF c
  <2>5. /\ b \in Seq(Cell)
        /\ Len(b) = IF i + 1 <= L THEN L - (i + 1) + 1 ELSE 0
        /\ \A k \in 1..(L - (i + 1) + 1) : b[k] = req[i + 1 + k - 1]
    BY <1>2, <2>3, SubSeqProperties
  <2> HIDE DEF a, b
  <2>6. \A k \in 1..Len(a) : a[k] = b[k]
    <3> SUFFICES ASSUME NEW k \in 1..Len(a) PROVE a[k] = b[k]
      OBVIOUS
    <3>1. k \in 1..(L - (i + 1) + 1) /\ i + 1 + k - 1 \in (i + 1)..L
      BY <1>2, <2>4, SMTT(60)
    <3> QED
      BY <2>3, <2>4, <2>5, <3>1
  <2>7. a = b
    BY <2>4, <2>5, <2>6, SeqEqual
  <2> QED
    BY <2>2, <2>7 DEF a, b
<1>6. pkt_buf'[m] = req[m] /\ pkt_buf'[m + 1] = req[m + 1]
  BY <1>2, <1>4
<1>7. /\ status' = RouteStatus(req'[m], req'[m + 1])
      /\ body' = IF req'[m] = "POST" THEN SubSeq(req', i + 1, Len(req')) ELSE NULL
  BY <1>0, <1>3, <1>5, <1>6 DEF L
<1>8. m = Skip(req') + 1
  BY <1>0 DEF m
<1> QED
  BY <1>7, <1>8, Zenon DEF Answered

\* Every step of DispatchServerMain and of its client.
LEMMA ServedHttp ==
  ASSUME HttpInv, Fresh, Served, HttpNext PROVE Fresh' /\ Served'
<1> USE HttpAssumption
<1>c. ASSUME got' = <<>> PROVE Served'
  BY <1>c DEF Served, ReceivedWhole
<1>1. CASE DsStart \/ DsLoop \/ DsNoConn \/ DsInner \/ DsSendFails
  <2>1. Fresh'
    BY <1>1 DEF DsStart, DsLoop, DsNoConn, DsInner, DsSendFails, Fresh, local, conn
  <2>2. /\ UNCHANGED <<req, got>> /\ ds' \in {"loop", "done", "select", "after", "recv", "dead", "spin"}
        /\ ds' \in {"after", "recv"} => ds = "inner"
    BY <1>1 DEF DsStart, DsLoop, DsNoConn, DsInner, DsSendFails, conn
  <2> QED
    BY <2>1, <2>2, ServedFrame
<1>2. CASE DsAccept
  BY <1>2, <1>c DEF DsAccept, Fresh, local
<1>3. CASE DsRecvEnd
  BY <1>3, <1>c DEF DsRecvEnd, Closed, Fresh
<1>4. CASE DsRecvFails \/ ClientLeaves
  <2>1. Fresh'
    BY <1>4 DEF DsRecvFails, ClientLeaves, Fresh, local
  <2>2. /\ UNCHANGED <<req, got, status, body>> /\ ds \in {"recv", "send"} /\ ds' \in {ds, "inner"}
        /\ ds' = "inner" => ds = "recv"
    BY <1>4 DEF DsRecvFails, ClientLeaves, local
  <2> QED
    BY <2>1, <2>2, ServedFrame
<1>5. CASE DsRecv
  <2>0. got \in Seq(1..BufLen) /\ \E n \in 1..Len(stream) : got' = Append(got, n)
    BY <1>5, TypeParts DEF DsRecv, HttpInv, ConnOk
  <2>1. got' # <<>> /\ ds' # "select"
    BY <1>5, <2>0 DEF DsRecv
  <2> QED
    BY <1>5, <2>1, ServedRecv DEF Fresh
<1>6. CASE DsAfter
  BY <1>6, ServedAfter DEF DsAfter, Fresh
<1>7. CASE DsReply
  <2>1. /\ UNCHANGED <<req, got, status, body>> /\ ds = "reply" /\ ds' \in {"dead", "send"}
    BY <1>7 DEF DsReply, conn
  <2> QED
    BY <2>1, ServedFrame DEF Fresh
<1>8. CASE DsSend
  <2>0. ds = "send"
    BY <1>8 DEF DsSend
  <2>1. CASE left' = 0
    <3>1. ds' = "loop" /\ got' = <<>>
      BY <1>8, <2>1 DEF DsSend, Closed
    <3> QED
      BY <1>c, <3>1 DEF Fresh
  <2>2. CASE left' # 0
    <3>1. UNCHANGED <<ds, req, got, status, body>>
      BY <1>8, <2>2 DEF DsSend, conn
    <3> QED
      BY <2>0, <3>1, ServedFrame DEF Fresh
  <2> QED
    BY <2>1, <2>2
<1> QED
  BY <1>1, <1>2, <1>3, <1>4, <1>5, <1>6, <1>7, <1>8 DEF HttpNext, DsStep

\* The other threads do not touch the request, and a signal only takes the
\* thread out of recv or send.
LEMMA OtherSteps ==
  ASSUME [Next]_vars, ~HttpNext
  PROVE  /\ UNCHANGED <<pkt_buf, actual_len, pret, status, body, meth, left,
                        req, stream, gone, got, past, conns>>
         /\ \/ ds' = ds \/ ds' = "start" \/ ds' = "spin" \/ (ds = "recv" /\ ds' = "inner")
<1> SUFFICES /\ UNCHANGED local /\ UNCHANGED conn
             /\ \/ ds' = ds \/ ds' = "start" \/ ds' = "spin" \/ (ds = "recv" /\ ds' = "inner")
  BY Zenon DEF local, conn
<1>1. MainStep \/ ConsoleLine \/ ConsoleEnd \/ GsStep \/ SessionStep =>
        UNCHANGED local /\ UNCHANGED conn /\ (ds' = ds \/ ds' = "start")
  BY Zenon DEF MainStep, OpenDb, CreateGameserver, CreateDispatch, CreateFailed, ConsoleTest,
     StopServers, JoinGameserver, JoinDispatch, DeleteDb, Return, ConsoleLine, ConsoleEnd,
     GsStep, GsStart, GsLoop, GsStop, SessionStep, SessionStarts, SessionEnds, SessionUsesDb,
     httpVars
<1>2. ASSUME NEW sig, NEW t, handleTerm(sig, t)
      PROVE  /\ UNCHANGED local /\ UNCHANGED conn
             /\ \/ ds' = ds \/ ds' = "spin" \/ (ds = "recv" /\ ds' = "inner")
  BY <1>2 DEF handleTerm, Interrupted
<1>3. UNCHANGED vars => UNCHANGED local /\ UNCHANGED conn /\ ds' = ds
  BY DEF vars, httpVars
<1> QED
  BY <1>1, <1>2, <1>3 DEF Next, SessionStep, DispatchStep

\* Every step of the process.
LEMMA ServedNext ==
  ASSUME ProcInv, Fresh, Served, [Next]_vars PROVE Fresh' /\ Served'
<1>1. CASE HttpNext
  BY <1>1, ServedHttp DEF ProcInv, TypeOK, HttpInv
<1>2. CASE ~HttpNext
  <2>1. /\ UNCHANGED <<pkt_buf, actual_len, pret, status, body, meth, left, req, stream, got>>
        /\ \/ ds' = ds \/ ds' = "start" \/ ds' = "spin" \/ (ds = "recv" /\ ds' = "inner")
    BY <1>2, OtherSteps
  <2>2. Fresh'
    BY <2>1 DEF Fresh
  <2> QED
    BY <2>1, <2>2, ServedFrame
<1> QED
  BY <1>1, <1>2

(***************************************************************************)
(* AnswersOwnRequest for every set of requests, every buffer of at least   *)
(* five cells and every limit of header lines: a request within that limit *)
(* that one recv of DispatchServerMain returns whole is routed by its own  *)
(* method and path and its POST handler reads its own body, whatever       *)
(* earlier requests and responses left in pkt_buf, also when the request   *)
(* fills it.                                                               *)
(***************************************************************************)
THEOREM OwnRequestAnswered == Spec => []AnswersOwnRequest
<1>1. Init => Fresh /\ Served
  BY DEF Init, HttpInit, Fresh, Served, ReceivedWhole
<1>2. ProcInv /\ Fresh /\ Served /\ [Next]_vars => Fresh' /\ Served'
  BY ServedNext
<1>3. Served => AnswersOwnRequest
  BY DEF Served, AnswersOwnRequest
<1> QED
  BY <1>1, <1>2, <1>3, ProcInvariant, PTL DEF Spec

-----------------------------------------------------------------------------
(***************************************************************************)
(* ShortRequestsFit.  What was received and what the client still sends    *)
(* are never more than its request, because each connection starts with an *)
(* empty count.                                                            *)
(***************************************************************************)
Fits ==
  /\ ds = "select" => actual_len = 0
  /\ ds \in {"inner", "recv"} => actual_len + Len(stream) <= Len(req) /\ ~past
  /\ ds = "after" => actual_len <= Len(req) /\ ~past
  /\ ShortRequestsFit

\* Every step of DispatchServerMain and of its client.
LEMMA FitsHttp ==
  ASSUME HttpInv, Fits, HttpNext PROVE Fits'
<1> USE HttpAssumption
<1>t. LocalOk /\ ConnOk
  BY TypeParts DEF HttpInv
<1>u. /\ actual_len \in Nat /\ Len(stream) \in Nat /\ Len(req) \in Nat
      /\ stream \in Seq(Cell)
  BY <1>t DEF LocalOk, ConnOk
<1>1. CASE DsStart \/ DsLoop \/ DsNoConn \/ DsSendFails
  <2>1. ds' \notin {"inner", "recv", "after", "reply", "send"} /\ (ds' = "select" => actual_len' = 0)
    BY <1>1 DEF DsStart, DsLoop, DsNoConn, DsSendFails
  <2> QED
    BY <2>1 DEF Fits, ShortRequestsFit
<1>2. CASE DsInner
  <2>1. ds = "inner" /\ ds' \in {"after", "recv"} /\ UNCHANGED <<actual_len, stream, req, past>>
    BY <1>2 DEF DsInner, local, conn
  <2> QED
    BY <1>u, <2>1 DEF Fits, ShortRequestsFit
<1>3. CASE DsAccept
  <2>1. /\ ds = "select" /\ ds' = "inner" /\ actual_len' = actual_len /\ stream' = req' /\ ~past'
        /\ req' \in Request
    BY <1>3 DEF DsAccept, local
  <2>2. Len(req') \in Nat
    BY <2>1
  <2>3. actual_len' + Len(stream') <= Len(req')
    BY <2>1, <2>2 DEF Fits
  <2> QED
    BY <2>1, <2>3 DEF Fits, ShortRequestsFit
<1>4. CASE DsRecvEnd
  BY <1>4 DEF DsRecvEnd, Fits, ShortRequestsFit
<1>5. CASE DsRecvFails
  <2>1. ds = "recv" /\ ds' = "inner" /\ UNCHANGED <<actual_len, stream, req, past>>
    BY <1>5 DEF DsRecvFails, local
  <2> QED
    BY <2>1 DEF Fits, ShortRequestsFit
<1>6. CASE ClientLeaves
  <2>1. /\ ds \in {"recv", "send"} /\ UNCHANGED <<ds, actual_len, status, req, past>>
        /\ stream' = <<>>
    BY <1>6 DEF ClientLeaves, local
  <2>2. Len(stream') = 0
    BY <2>1
  <2> QED
    BY <1>u, <2>1, <2>2 DEF Fits, ShortRequestsFit
<1>7. CASE DsRecv
  <2>1. PICK n \in 1..Len(stream) : /\ actual_len' = actual_len + n
                                    /\ stream' = SubSeq(stream, n + 1, Len(stream))
    BY <1>7 DEF DsRecv
  <2>2. /\ ds = "recv" /\ UNCHANGED <<req, past>> /\ ds' \in {"after", "reply", "inner"}
        /\ ds' = "reply" => actual_len' >= BufLen
    BY <1>7 DEF DsRecv
  <2>3. Len(stream') = Len(stream) - n
    BY <1>u, <2>1
  <2>4. actual_len' + Len(stream') <= Len(req) /\ actual_len' <= Len(req) /\ ~past
    <3>1. actual_len + Len(stream) <= Len(req) /\ ~past
      BY <2>2 DEF Fits
    <3>2. n \in Nat /\ n <= Len(stream)
      BY <1>u
    <3>3. actual_len' = actual_len + n
      BY <2>1
    <3> QED
      BY <1>u, <2>3, <3>1, <3>2, <3>3
  <2>5. ShortRequestsFit'
    <3>1. ds' = "reply" => ~(Len(req) < BufLen)
      BY <1>u, <2>1, <2>2, <2>4
    <3> QED
      BY <2>2, <3>1 DEF ShortRequestsFit
  <2> QED
    BY <2>2, <2>4, <2>5 DEF Fits
<1>8. CASE DsAfter
  <2>1. /\ ds = "after" /\ ds' \in {"reply", "dead"} /\ req' = req
    BY <1>8 DEF DsAfter
  <2>2. ds' = "reply" => status' # 413
    <3>1. RouteStatus(pkt_buf'[meth], pkt_buf'[meth + 1]) # 413
      BY DEF RouteStatus
    <3> QED
      BY <1>8, <3>1 DEF DsAfter
  <2>3. past' => actual_len = BufLen
    BY <1>8, <2>1, ZenonT(60) DEF DsAfter, Fits
  <2>4. past' => ~(Len(req) < BufLen)
    BY <1>u, <2>1, <2>3 DEF Fits
  <2> QED
    BY <2>1, <2>2, <2>4 DEF Fits, ShortRequestsFit
<1>9. CASE DsReply
  <2>1. ds = "reply" /\ ds' \in {"dead", "send"} /\ UNCHANGED <<status, req, past>>
    BY <1>9 DEF DsReply, conn
  <2> QED
    BY <2>1 DEF Fits, ShortRequestsFit
<1>10. CASE DsSend
  <2>1. ds = "send" /\ (ds' = "loop" \/ UNCHANGED <<ds, status, req, past>>)
    BY <1>10 DEF DsSend, conn
  <2> QED
    BY <2>1 DEF Fits, ShortRequestsFit
<1> QED
  BY <1>1, <1>2, <1>3, <1>4, <1>5, <1>6, <1>7, <1>8, <1>9, <1>10 DEF HttpNext, DsStep

(***************************************************************************)
(* A request shorter than pkt_buf is never answered with 413 and is        *)
(* terminated inside the array, in whatever pieces it comes, whatever was  *)
(* read and sent before and whatever size the buffer has.                  *)
(***************************************************************************)
THEOREM ShortFits == Spec => []ShortRequestsFit
<1>1. Init => Fits
  BY DEF Init, HttpInit, Fits, ShortRequestsFit
<1>2. ProcInv /\ Fits /\ [Next]_vars => Fits'
  <2> SUFFICES ASSUME ProcInv, Fits, [Next]_vars PROVE Fits'
    OBVIOUS
  <2>1. CASE HttpNext
    BY <2>1, FitsHttp DEF ProcInv, TypeOK, HttpInv
  <2>2. CASE ~HttpNext
    <3>1. /\ UNCHANGED <<actual_len, stream, req, past, status>>
          /\ \/ ds' = ds \/ ds' = "start" \/ ds' = "spin" \/ (ds = "recv" /\ ds' = "inner")
      BY <2>2, OtherSteps
    <3> QED
      BY <3>1 DEF Fits, ShortRequestsFit
  <2> QED
    BY <2>1, <2>2
<1>3. Fits => ShortRequestsFit
  BY DEF Fits
<1> QED
  BY <1>1, <1>2, <1>3, ProcInvariant, PTL DEF Spec
=============================================================================
