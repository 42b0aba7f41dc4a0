------------------------------- MODULE Service -------------------------------
(***************************************************************************)
(* The life of the server: TSDBServer of src/tsdb/service.py with the      *)
(* dispatch of src/tsdb/server/error_handling.py.  The main thread runs    *)
(* serve_forever, any thread may call stop at any time, an interrupt may   *)
(* hit the main thread anywhere, and every connection has a daemon thread. *)
(*                                                                         *)
(* The framing of a connection is in Connection and what happens inside    *)
(* the storage manager in StorageManager; here a request is read whole,    *)
(* the database is open or closed, and only the test of write_points that  *)
(* comes before its lock is apart from the step that stores.  All points    *)
(* go to one partition file, a sequence of lines as in JsonLines.          *)
(***************************************************************************)
EXTENDS JsonLines

CONSTANTS
    Clients,
    Stoppers,      \* threads that may call stop() once
    Main,          \* the thread of serve_forever, which calls stop() too
    Kinds,         \* Clients -> the kinds of request it sends
    MaxRequests,   \* bound on the requests of a client
    Old,           \* points that earlier processes stored
    Files          \* the partition files they may have left

AllKinds == {"ping", "write", "query", "malformed", "untimed", "unparsable",
             "unknown", "undecodable"}

ASSUME ServiceAssumption ==
    /\ Main \notin Stoppers /\ Kinds \in [Clients -> SUBSET AllKinds] /\ MaxRequests \in Nat

\* A point is an old one or what a client's n-th request writes.
Point == Old \cup (Clients \X Nat)
Line == Point \cup {Torn, Bad}

\* A line that does not parse is no point.
ASSUME FileAssumption == Torn \notin Point /\ Bad \notin Point /\ Files \subseteq Seq(Line)

VARIABLES
    running,       \* self._running
    sock,          \* self._sock is not None
    listener,      \* the listening socket itself
    server,        \* where the main thread is in serve_forever and main
    interrupted,   \* KeyboardInterrupt was raised in it
    stops,         \* where each caller is in stop
    db,            \* the storage manager is open
    link,          \* the clients' connections
    thread,        \* the connection threads
    request,       \* what the client waits for an answer to
    sent,          \* how many requests it has sent
    rows,          \* what the QUERY in progress read
    lines,         \* the partition file
    hidden,        \* points written while a line of it did not parse (history)
    acked          \* points an answer OK wrote or showed (history)

lifecycle == <<running, sock, listener, server, interrupted, stops, db>>
links == <<link, thread, request, sent, rows>>
store == <<lines, hidden>>
vars == <<lifecycle, links, store, acked>>

Parses(i) == lines[i] \notin {Torn, Bad}

\* read_points keeps what it has parsed when a line raises, and leaves the file.
Readable == {lines[i] : i \in {k \in DOMAIN lines : \A j \in 1..k : Parses(j)}}

\* Whatever can be read an earlier process may have answered OK.
ServiceInit ==
    /\ running = FALSE /\ sock = FALSE /\ listener = "none"
    /\ server = "start" /\ interrupted = FALSE
    /\ stops = [s \in Stoppers \cup {Main} |-> "idle"]
    /\ db = TRUE
    /\ link = [c \in Clients |-> "none"]
    /\ thread = [c \in Clients |-> "none"]
    /\ request = [c \in Clients |-> "none"]
    /\ sent = [c \in Clients |-> 0]
    /\ rows = [c \in Clients |-> {}]
    /\ lines \in Files /\ hidden = {} /\ acked = Readable

-----------------------------------------------------------------------------
(* serve_forever *)

At(pc, next) == server = pc /\ server' = next

CreateSocket ==
    /\ At("start", "bind")
    /\ sock' = TRUE
    /\ UNCHANGED <<running, listener, interrupted, stops, db, links, store, acked>>

Bind ==
    /\ At("bind", "name") /\ sock /\ listener = "none"
    /\ listener' = "listening"
    /\ UNCHANGED <<running, sock, interrupted, stops, db, links, store, acked>>

\* A stop came first: AttributeError or OSError before the try.
SetupRaises ==
    /\ server \in {"bind", "name"} /\ (~sock \/ listener = "gone")
    /\ server' = "ended"
    /\ UNCHANGED <<running, sock, listener, interrupted, stops, db, links, store, acked>>

GetName ==
    /\ At("name", "run") /\ sock /\ listener = "listening"
    /\ UNCHANGED <<running, sock, listener, interrupted, stops, db, links, store, acked>>

SetRunning ==
    /\ At("run", "test")
    /\ running' = TRUE
    /\ UNCHANGED <<sock, listener, interrupted, stops, db, links, store, acked>>

TestRunning ==
    /\ server = "test"
    /\ \/ running /\ server' = "accept" /\ UNCHANGED stops
       \/ ~running /\ server' = "finally" /\ stops' = [stops EXCEPT ![Main] = "clear"]
    /\ UNCHANGED <<running, sock, listener, interrupted, db, links, store, acked>>

EnterAccept ==
    /\ At("accept", "blocked") /\ sock /\ listener = "listening"
    /\ UNCHANGED <<running, sock, listener, interrupted, stops, db, links, store, acked>>

\* Mutant of AcceptFails: any exception of accept is retried.
AcceptRetried ==
    /\ At("accept", "test") /\ (~sock \/ listener # "listening")
    /\ UNCHANGED <<running, sock, listener, interrupted, stops, db, links, store, acked>>

\* OSError of a closed socket breaks the loop; AttributeError of None leaves it.
AcceptFails ==
    /\ At("accept", "finally") /\ (~sock \/ listener # "listening")
    /\ stops' = [stops EXCEPT ![Main] = "clear"]
    /\ UNCHANGED <<running, sock, listener, interrupted, db, links, store, acked>>

Reset(c) == link[c] = "backlog"

\* accept returns a connection.  A socket closed meanwhile goes away now, and
\* whoever still waits in its backlog is reset.
Accept ==
    /\ At("blocked", "spawn")
    /\ \E c \in Clients :
         /\ link[c] = "backlog"
         /\ link' = [d \in Clients |->
                        CASE d = c -> "accepted"
                          [] listener = "dying" /\ Reset(d) -> "closed"
                          [] OTHER -> link[d]]
    /\ listener' = IF listener = "dying" THEN "gone" ELSE listener
    /\ UNCHANGED <<running, sock, interrupted, stops, db, thread, request, sent, rows, store, acked>>

\* Some systems wake a thread whose socket is closed: no fairness is assumed.
AcceptWoken ==
    /\ At("blocked", "finally") /\ listener = "dying"
    /\ listener' = "gone"
    /\ link' = [d \in Clients |-> IF Reset(d) THEN "closed" ELSE link[d]]
    /\ stops' = [stops EXCEPT ![Main] = "clear"]
    /\ UNCHANGED <<running, sock, interrupted, db, thread, request, sent, rows, store, acked>>

Spawn ==
    /\ At("spawn", "test")
    /\ \E c \in Clients :
         /\ link[c] = "accepted"
         /\ link' = [link EXCEPT ![c] = "open"]
         /\ thread' = [thread EXCEPT ![c] = "recv"]
    /\ UNCHANGED <<running, sock, listener, interrupted, stops, db, request, sent, rows, store, acked>>

\* The finally is over.  An AttributeError of stop replaces the interrupt.
FinallyEnds ==
    /\ server = "finally" /\ stops[Main] \in {"done", "raised"}
    /\ \/ interrupted /\ stops[Main] = "done"
          /\ server' = "main" /\ stops' = [stops EXCEPT ![Main] = "clear"]
       \/ ~(interrupted /\ stops[Main] = "done") /\ server' = "ended" /\ UNCHANGED stops
    /\ UNCHANGED <<running, sock, listener, interrupted, db, links, store, acked>>

MainEnds ==
    /\ At("main", "ended") /\ stops[Main] \in {"done", "raised"}
    /\ UNCHANGED <<running, sock, listener, interrupted, stops, db, links, store, acked>>

InLoop == server \in {"test", "accept", "blocked", "spawn"}

\* KeyboardInterrupt: in the loop the finally runs first, then the handler of
\* main; elsewhere only the handler.  A connection that no thread has yet is dropped.
Interrupt ==
    /\ ~interrupted /\ server \notin {"main", "ended", "exited"}
    /\ interrupted' = TRUE
    /\ server' = IF InLoop THEN "finally" ELSE "main"
    /\ stops' = [stops EXCEPT ![Main] = "clear"]
    /\ listener' = IF listener = "dying" THEN "gone" ELSE listener
    /\ link' = [d \in Clients |->
                   IF link[d] = "accepted" \/ (listener = "dying" /\ Reset(d)) THEN "closed"
                   ELSE link[d]]
    /\ UNCHANGED <<running, sock, db, thread, request, sent, rows, store, acked>>

\* The interpreter waits for the callers of stop, not for daemon threads.
Exit ==
    /\ At("ended", "exited")
    /\ \A s \in Stoppers : stops[s] \in {"idle", "done", "raised"}
    /\ link' = [c \in Clients |-> IF link[c] = "none" THEN "none" ELSE "closed"]
    /\ thread' = [c \in Clients |-> "none"]
    /\ UNCHANGED <<running, sock, listener, interrupted, stops, db, request, sent, rows, store, acked>>

-----------------------------------------------------------------------------
(* stop *)

StopAt(s, pc, next) == stops[s] = pc /\ stops' = [stops EXCEPT ![s] = next]

CallStop(s) ==
    /\ s \in Stoppers /\ server # "exited" /\ StopAt(s, "idle", "clear")
    /\ UNCHANGED <<running, sock, listener, server, interrupted, db, links, store, acked>>

ClearRunning(s) ==
    /\ StopAt(s, "clear", "test")
    /\ running' = FALSE
    /\ UNCHANGED <<sock, listener, server, interrupted, db, links, store, acked>>

\* Mutant of TestSock: a stop with nothing to close returns at once.
TestSockFirst(s) ==
    /\ \/ sock /\ StopAt(s, "test", "close")
       \/ ~sock /\ StopAt(s, "test", "done")
    /\ UNCHANGED <<running, sock, listener, server, interrupted, db, links, store, acked>>

TestSock(s) ==
    /\ \/ sock /\ StopAt(s, "test", "close")
       \/ ~sock /\ StopAt(s, "test", "shutdown")
    /\ UNCHANGED <<running, sock, listener, server, interrupted, db, links, store, acked>>

\* close() does not wake a thread inside accept, which keeps the socket alive.
CloseSock(s) ==
    /\ sock /\ StopAt(s, "close", "forget")
    /\ listener' = IF listener = "listening" /\ server = "blocked" THEN "dying"
                   ELSE IF listener = "dying" THEN "dying" ELSE "gone"
    /\ link' = [d \in Clients |-> IF listener' = "gone" /\ Reset(d) THEN "closed" ELSE link[d]]
    /\ UNCHANGED <<running, sock, server, interrupted, db, thread, request, sent, rows, store, acked>>

\* Another stop set _sock to None: AttributeError, which is no OSError.
CloseRaises(s) ==
    /\ ~sock /\ StopAt(s, "close", "raised")
    /\ UNCHANGED <<running, sock, listener, server, interrupted, db, links, store, acked>>

ForgetSock(s) ==
    /\ StopAt(s, "forget", "shutdown")
    /\ sock' = FALSE
    /\ UNCHANGED <<running, listener, server, interrupted, db, links, store, acked>>

CloseDb(s) ==
    /\ StopAt(s, "shutdown", "done")
    /\ db' = FALSE
    /\ UNCHANGED <<running, sock, listener, server, interrupted, links, store, acked>>

-----------------------------------------------------------------------------
(* The clients *)

Connect(c) ==
    /\ link[c] = "none" /\ listener \in {"listening", "dying"}
    /\ link' = [link EXCEPT ![c] = "backlog"]
    /\ UNCHANGED <<lifecycle, thread, request, sent, rows, store, acked>>

\* What is sent before there is a thread is read when there is one.
Send(c) ==
    /\ link[c] = "open"
    /\ request[c] = "none" /\ sent[c] < MaxRequests
    /\ \E k \in Kinds[c] : request' = [request EXCEPT ![c] = k]
    /\ sent' = [sent EXCEPT ![c] = @ + 1]
    /\ UNCHANGED <<lifecycle, link, thread, rows, store, acked>>

\* The client goes away; a thread that handles its request finds out later.
Leave(c) ==
    /\ link[c] = "open"
    /\ link' = [link EXCEPT ![c] = "left"]
    /\ UNCHANGED <<lifecycle, thread, request, sent, rows, store, acked>>

-----------------------------------------------------------------------------
(* _serve_conn, _handler and handle_request *)

\* recv, and the routing of the request that has come.
Route(k) ==
    CASE k = "write" -> "write"
      [] k = "query" -> "query"
      [] k = "undecodable" -> "raise"
      [] OTHER -> "answer"

\* Mutant of Recv: only ApiError is caught, and the float() of a WRITE escapes.
RecvUncaught(c) ==
    /\ thread[c] = "recv" /\ request[c] # "none"
    /\ thread' = [thread EXCEPT ![c] = IF request[c] = "untimed" THEN "raise"
                                       ELSE Route(request[c])]
    /\ UNCHANGED <<lifecycle, link, request, sent, rows, store, acked>>

Recv(c) ==
    /\ thread[c] = "recv" /\ request[c] # "none"
    /\ thread' = [thread EXCEPT ![c] = Route(request[c])]
    /\ UNCHANGED <<lifecycle, link, request, sent, rows, store, acked>>

\* db.write: the test of write_points.  Its False is a ValueError, answered with 500.
TestOpen(c) ==
    /\ thread[c] = "write"
    /\ thread' = [thread EXCEPT ![c] = IF db THEN "append" ELSE "answer"]
    /\ UNCHANGED <<lifecycle, link, request, sent, rows, store, acked>>

\* What the answer OK to a write stands for.
Written(c) == <<c, sent[c]>>

\* The rest of write_points does not look at the database again.  A write that
\* fails may leave the beginning of a line; the next one is glued to it.
AppendPoint(c) ==
    /\ thread[c] = "append"
    /\ \/ /\ lines' = AppendLine(lines, Written(c))
          /\ hidden' = IF \A i \in DOMAIN lines : Parses(i) THEN hidden
                       ELSE hidden \cup {Written(c)}
          /\ thread' = [thread EXCEPT ![c] = "ok"]
       \/ /\ lines' \in {lines, AppendTorn(lines)} /\ UNCHANGED hidden
          /\ thread' = [thread EXCEPT ![c] = "answer"]
    /\ UNCHANGED <<lifecycle, link, request, sent, rows, acked>>

\* Mutant of Query: the rows of a file are kept only when all of it parses.
QueryAllOrNothing(c) ==
    /\ thread[c] = "query"
    /\ rows' = [rows EXCEPT ![c] = IF db /\ \A i \in DOMAIN lines : Parses(i) THEN Readable
                                   ELSE {}]
    /\ thread' = [thread EXCEPT ![c] = "ok"]
    /\ UNCHANGED <<lifecycle, link, request, sent, store, acked>>

\* A database that is closed answers OK with no rows.
Query(c) ==
    /\ thread[c] = "query"
    /\ rows' = [rows EXCEPT ![c] = IF db THEN Readable ELSE {}]
    /\ thread' = [thread EXCEPT ![c] = "ok"]
    /\ UNCHANGED <<lifecycle, link, request, sent, store, acked>>

\* What the answer OK tells the client is in the database.
Told(c) == IF request[c] = "write" THEN {Written(c)} ELSE rows[c]

\* Mutant of Answer: the result of write_points is not looked at.
AnswerAlways(c) ==
    /\ thread[c] \in {"ok", "answer"} /\ link[c] = "open"
    /\ acked' = acked \cup Told(c)
    /\ request' = [request EXCEPT ![c] = "none"]
    /\ thread' = [thread EXCEPT ![c] = "recv"]
    /\ rows' = [rows EXCEPT ![c] = {}]
    /\ UNCHANGED <<lifecycle, link, sent, store>>

Answer(c) ==
    /\ thread[c] \in {"ok", "answer"} /\ link[c] = "open"
    /\ acked' = IF thread[c] = "ok" THEN acked \cup Told(c) ELSE acked
    /\ request' = [request EXCEPT ![c] = "none"]
    /\ thread' = [thread EXCEPT ![c] = "recv"]
    /\ rows' = [rows EXCEPT ![c] = {}]
    /\ UNCHANGED <<lifecycle, link, sent, store>>

\* recv returns b"", the answer cannot be sent, or the decoding raised: `with conn'
\* closes the connection and the thread ends.
ThreadEnds(c) ==
    /\ \/ thread[c] = "raise"
       \/ link[c] = "left" /\ thread[c] \in {"recv", "ok", "answer"}
    /\ thread' = [thread EXCEPT ![c] = "none"]
    /\ link' = [link EXCEPT ![c] = "closed"]
    /\ UNCHANGED <<lifecycle, request, sent, rows, store, acked>>

-----------------------------------------------------------------------------
ServerStep ==
    \/ CreateSocket \/ Bind \/ SetupRaises \/ GetName \/ SetRunning
    \/ TestRunning \/ EnterAccept \/ AcceptFails \/ Accept \/ Spawn
    \/ FinallyEnds \/ MainEnds

StopStep(s) ==
    \/ ClearRunning(s) \/ TestSock(s) \/ CloseSock(s) \/ CloseRaises(s)
    \/ ForgetSock(s) \/ CloseDb(s)

ThreadStep(c) ==
    Recv(c) \/ TestOpen(c) \/ AppendPoint(c) \/ Query(c) \/ Answer(c) \/ ThreadEnds(c)

ServiceNext ==
    \/ ServerStep \/ AcceptWoken \/ Interrupt \/ Exit
    \/ \E s \in Stoppers \cup {Main} : CallStop(s) \/ StopStep(s)
    \/ \E c \in Clients : Connect(c) \/ Send(c) \/ Leave(c) \/ ThreadStep(c)

ServiceSpec == ServiceInit /\ [][ServiceNext]_vars

\* Threads are scheduled.  Nobody has to call stop, connect, send or leave.
FairService ==
    /\ ServiceSpec
    /\ WF_vars(ServerStep)
    /\ \A s \in Stoppers \cup {Main} : WF_vars(StopStep(s))
    /\ \A c \in Clients : WF_vars(ThreadStep(c))

-----------------------------------------------------------------------------
(* Properties *)

\* Every variable has its type, and what was answered OK was written.
ServiceTypeOK ==
    /\ running \in BOOLEAN /\ sock \in BOOLEAN /\ db \in BOOLEAN /\ interrupted \in BOOLEAN
    /\ listener \in {"none", "listening", "dying", "gone"}
    /\ server \in {"start", "bind", "name", "run", "test", "accept", "blocked", "spawn",
                   "finally", "main", "ended", "exited"}
    /\ stops \in [Stoppers \cup {Main} ->
                    {"idle", "clear", "test", "close", "forget", "shutdown", "done", "raised"}]
    /\ link \in [Clients -> {"none", "backlog", "accepted", "open", "left", "closed"}]
    /\ thread \in [Clients -> {"none", "recv", "write", "append", "query", "ok", "answer", "raise"}]
    /\ request \in [Clients -> AllKinds \cup {"none"}]
    /\ sent \in [Clients -> Nat]
    /\ rows \in [Clients -> SUBSET Point]
    /\ lines \in Seq(Line) /\ hidden \subseteq Point
    /\ \A p \in acked : p \in hidden \/ \E i \in DOMAIN lines : lines[i] = p

Stopping(s) == stops[s] \notin {"idle", "done", "raised"}

\* Whatever calls of stop overlap, and although one of them may end with an
\* AttributeError before it has closed the database: when the calls are over the
\* database is closed.  (Not that nobody listens: see SetRunning, which may come
\* after all of them.)
StoppedIsClosed ==
    /\ \E s \in DOMAIN stops : stops[s] \in {"done", "raised"}
    /\ \A s \in DOMAIN stops : ~Stopping(s)
    => ~db

\* What one client was answered OK, a point it wrote or rows it read, is in every
\* later answer of any client until the database is closed, whatever writes fail
\* in between and whatever part of a line they leave.  Not so for a point written
\* when the file already had a line that does not parse: its write is answered OK,
\* and no query ever returns it.
AckedIsRead ==
    [][\A c \in Clients : thread[c] = "query" /\ thread'[c] = "ok"
            => acked \ hidden \subseteq rows'[c] \/ ~db]_vars

Pending(c) == link[c] = "open" /\ request[c] \notin {"none", "undecodable"}

\* Nobody stays in the backlog, and a request that decodes is answered unless its
\* client leaves or the process ends: neither stop nor another client's request
\* closes the connection.
Answered ==
    \A c \in Clients :
        /\ link[c] = "backlog" ~> link[c] # "backlog"
        /\ Pending(c) ~> request[c] = "none" \/ link[c] = "left" \/ server = "exited"

Started == server \notin {"start", "bind", "name"}
Ended == server \in {"ended", "exited"}

\* After a stop of a started server, the loop ends or stays inside an accept that
\* nobody connects to.
StopsOrBlocks ==
    \A s \in Stoppers :
        Started /\ stops[s] = "clear" ~> [](Ended \/ (server = "blocked" /\ listener = "dying"))

\* service.py: "Bind, listen, and accept connections until stop() is called", and
\* at the handler of OSError: "socket closed by stop()".
StopEnds == \A s \in Stoppers : Started /\ stops[s] = "clear" ~> Ended
=============================================================================
