---------------------------- MODULE ServiceProofs ----------------------------
(***************************************************************************)
(* What the life of the server keeps, for any number of clients, of calls  *)
(* of stop and of requests: the variables have their types, the database   *)
(* is closed when the calls of stop are over, and what was answered OK is  *)
(* in every later query, unless it was written behind a broken line.       *)
(***************************************************************************)
EXTENDS Service, JsonLinesProofs

Callers == Stoppers \cup {Main}

\* A thread handles the request its client waits for, and it goes on to the
\* answer OK of a WRITE only with the point kept: it can be read, or hid itself
\* behind a line that does not parse.
Kept == Readable \cup hidden

HandlingOf(c) ==
    /\ thread[c] = "query" => request[c] = "query"
    /\ thread[c] \in {"write", "append"} => request[c] = "write"
    /\ thread[c] = "ok" => request[c] \in {"query", "write"}
    /\ thread[c] = "ok" /\ request[c] = "write" => Written(c) \in Kept

Handling == \A c \in Clients : HandlingOf(c)

\* A call of stop that is on its way to closing the database, whatever the
\* others do: once _sock is None it never becomes a socket again.
Closer(t) == stops[t] = "shutdown" \/ (~sock /\ stops[t] \in {"clear", "test"})

CallOf(s) ==
    /\ stops[s] \in {"close", "forget", "raised"} => server # "start"
    /\ stops[s] = "raised" => ~sock
    /\ stops[s] = "done" => ~db

SomeoneCloses ==
    db /\ ~sock /\ (\E s \in Callers : stops[s] \in {"close", "raised"})
        => \E t \in Callers : Closer(t)

Closing ==
    /\ sock => server # "start"
    /\ \A s \in Callers : CallOf(s)
    /\ SomeoneCloses

\* The types, in parts: the flags, where the threads are, and the histories.
FlagTypes == running \in BOOLEAN /\ sock \in BOOLEAN /\ db \in BOOLEAN /\ interrupted \in BOOLEAN

ServerTypes ==
    /\ listener \in {"none", "listening", "dying", "gone"}
    /\ server \in {"start", "bind", "name", "run", "test", "accept", "blocked", "spawn",
                   "finally", "main", "ended", "exited"}

StopTypes ==
    stops \in [Callers -> {"idle", "clear", "test", "close", "forget", "shutdown", "done", "raised"}]

LinkTypes ==
    /\ link \in [Clients -> {"none", "backlog", "accepted", "open", "left", "closed"}]
    /\ thread \in [Clients -> {"none", "recv", "write", "append", "query", "ok", "answer", "raise"}]

RequestTypes ==
    /\ request \in [Clients -> AllKinds \cup {"none"}]
    /\ sent \in [Clients -> Nat]

HistoryTypes == lines \in Seq(Line) /\ hidden \subseteq Point

Types ==
    FlagTypes /\ ServerTypes /\ StopTypes /\ LinkTypes /\ RequestTypes /\ HistoryTypes

IInv == Types /\ Handling /\ Closing

\* What a thread is about to show, and what answers OK have told, is kept.
ReadInv ==
    /\ rows \in [Clients -> SUBSET Point] /\ \A c \in Clients : rows[c] \subseteq Kept
    /\ acked \subseteq Kept

-----------------------------------------------------------------------------
LEMMA InitIInv == ServiceInit => IInv
<1> SUFFICES ASSUME ServiceInit PROVE IInv
  OBVIOUS
<1> USE DEF ServiceInit
<1>1. Types
  <2>1. FlagTypes
    BY Zenon DEF FlagTypes
  <2>2. ServerTypes
    BY Zenon DEF ServerTypes
  <2>3. StopTypes
    BY Zenon DEF StopTypes, Callers
  <2>4. LinkTypes
    BY Zenon DEF LinkTypes
  <2>5. RequestTypes
    <3>1. 0 \in Nat
      OBVIOUS
    <3> QED BY <3>1, Zenon DEF RequestTypes
  <2>6. HistoryTypes
    BY FileAssumption DEF HistoryTypes
  <2> QED BY <2>1, <2>2, <2>3, <2>4, <2>5, <2>6, Zenon DEF Types
<1>2. Handling
  BY Zenon DEF Handling, HandlingOf
<1>3. \A s \in Callers : stops[s] = "idle"
  BY Zenon DEF Callers
<1>4. Closing
  BY <1>3 DEF Closing, CallOf, SomeoneCloses
<1> QED BY <1>1, <1>2, <1>4 DEF IInv

\* A step that leaves the file alone.
LEMMA StoreSame ==
    ASSUME UNCHANGED store
    PROVE  Kept' = Kept /\ (HistoryTypes => HistoryTypes')
BY DEF store, Kept, Readable, Parses, HistoryTypes

\* Whatever sends no request, stores nothing and lets no thread go on.
LEMMA HandlingStays ==
    ASSUME Handling, UNCHANGED <<request, sent, store>>,
           \A c \in Clients : thread'[c] = thread[c]
                              \/ thread'[c] \in {"none", "recv", "raise", "answer"}
    PROVE  Handling'
<1> SUFFICES ASSUME NEW c \in Clients PROVE HandlingOf(c)'
  BY DEF Handling
<1>1. HandlingOf(c)
  BY DEF Handling
<1>2. Written(c)' = Written(c)
  BY DEF Written
<1>3. Kept' = Kept
  BY StoreSame
<1> QED BY <1>1, <1>2, <1>3 DEF HandlingOf

\* Whatever starts a call of stop, or a new one in the place of a call of Main.
LEMMA ClosingStays ==
    ASSUME Closing, UNCHANGED <<sock, db>>, server' = server \/ server' # "start",
           \A s \in Callers : \/ stops'[s] = stops[s] \/ stops'[s] = "clear"
                              \/ stops[s] = "clear" /\ stops'[s] = "test"
    PROVE  Closing'
<1>1. (sock => server # "start")'
  BY DEF Closing
<1>2. ASSUME NEW s \in Callers PROVE CallOf(s)'
  BY DEF Closing, CallOf
<1>3. SomeoneCloses'
  <2> SUFFICES ASSUME db, ~sock, NEW s \in Callers, stops'[s] \in {"close", "raised"}
               PROVE  \E t \in Callers : Closer(t)'
    BY DEF SomeoneCloses
  <2>1. stops[s] \in {"close", "raised"}
    OBVIOUS
  <2>2. PICK t \in Callers : Closer(t)
    BY <2>1 DEF Closing, SomeoneCloses
  <2>3. Closer(t)'
    BY <2>2 DEF Closer
  <2> QED BY <2>3
<1> QED BY <1>1, <1>2, <1>3 DEF Closing

\* The same for both, and the types, of the steps that only move somebody on.
LEMMA QuietKeeps ==
    ASSUME IInv, FlagTypes', ServerTypes', StopTypes', LinkTypes',
           UNCHANGED <<sock, db, request, sent, store, acked>>,
           server' = server \/ server' # "start",
           \A c \in Clients : thread'[c] = thread[c]
                              \/ thread'[c] \in {"none", "recv", "raise", "answer"},
           \A s \in Callers : \/ stops'[s] = stops[s] \/ stops'[s] = "clear"
                              \/ stops[s] = "clear" /\ stops'[s] = "test"
    PROVE  IInv'
<1>1. RequestTypes' /\ HistoryTypes'
  <2>1. RequestTypes /\ HistoryTypes
    BY Zenon DEF IInv, Types
  <2> QED BY <2>1, StoreSame DEF RequestTypes
<1>2. Handling'
  BY HandlingStays DEF IInv
<1>3. Closing'
  BY ClosingStays DEF IInv
<1> QED BY <1>1, <1>2, <1>3, Zenon DEF IInv, Types

-----------------------------------------------------------------------------
(* The steps of the main thread *)

LEMMA CreateSocketKeeps ==
    ASSUME IInv, CreateSocket
    PROVE  IInv'
<1>1. /\ FlagTypes /\ ServerTypes /\ StopTypes /\ LinkTypes /\ RequestTypes /\ HistoryTypes
      /\ Handling /\ Closing
  BY Zenon DEF IInv, Types
<1>2. /\ server' = "bind" /\ sock' = TRUE
      /\ UNCHANGED <<running, listener, interrupted, stops, db>>
      /\ UNCHANGED <<link, thread, request, sent, store, acked>>
      /\ server = "start"
  BY Zenon DEF CreateSocket, At, links
<1>3. FlagTypes' /\ ServerTypes'
  <2>1. FlagTypes'
    BY <1>1, <1>2, Zenon DEF FlagTypes
  <2>2. ServerTypes'
    BY <1>1, <1>2 DEF ServerTypes
  <2> QED BY <2>1, <2>2
<1>4. StopTypes' /\ LinkTypes' /\ RequestTypes' /\ HistoryTypes'
  BY <1>1, <1>2, StoreSame DEF StopTypes, LinkTypes, RequestTypes
<1>5. Handling'
  BY <1>1, <1>2, HandlingStays
<1>6. Closing'
  <2>1. \A s \in Callers : stops[s] \notin {"close", "forget", "raised"}
    BY <1>1, <1>2 DEF Closing, CallOf
  <2>2. \A s \in Callers : CallOf(s)'
    BY <1>1, <1>2, <2>1 DEF Closing, CallOf
  <2>3. server' # "start" /\ sock'
    BY <1>2
  <2>4. SomeoneCloses'
    BY <2>3 DEF SomeoneCloses
  <2> QED BY <2>2, <2>3, <2>4 DEF Closing
<1> QED BY <1>3, <1>4, <1>5, <1>6, Zenon DEF IInv, Types

\* The call of stop in the finally clause begins.
LEMMA MainCalls ==
    ASSUME StopTypes, stops' = [stops EXCEPT ![Main] = "clear"]
    PROVE  /\ StopTypes'
           /\ \A s \in Callers : stops'[s] = stops[s] \/ stops'[s] = "clear"
BY DEF StopTypes, Callers

LEMMA ServerStepKeeps ==
    ASSUME IInv, ServerStep \/ AcceptWoken \/ Interrupt \/ Exit
    PROVE  IInv'
<1>1. FlagTypes /\ ServerTypes /\ StopTypes /\ LinkTypes
  BY Zenon DEF IInv, Types
<1>2. CASE CreateSocket
  BY <1>2, CreateSocketKeeps
<1>3. CASE Bind \/ SetupRaises \/ GetName \/ EnterAccept \/ MainEnds
  <2>1. /\ UNCHANGED <<running, sock, interrupted, stops, db>>
        /\ UNCHANGED <<link, thread, request, sent, store, acked>>
    BY <1>3, Zenon DEF Bind, SetupRaises, GetName, EnterAccept, MainEnds, At, links
  <2>2. /\ listener' \in {listener, "listening"}
        /\ server' \in {"name", "ended", "run", "blocked"}
    BY <1>3 DEF Bind, SetupRaises, GetName, EnterAccept, MainEnds, At
  <2>3. FlagTypes' /\ StopTypes' /\ LinkTypes'
    BY <1>1, <2>1 DEF FlagTypes, StopTypes, LinkTypes
  <2>4. ServerTypes'
    BY <1>1, <2>2 DEF ServerTypes
  <2> QED BY <2>1, <2>2, <2>3, <2>4, QuietKeeps
<1>4. CASE SetRunning
  <2>1. /\ UNCHANGED <<sock, listener, interrupted, stops, db>>
        /\ UNCHANGED <<link, thread, request, sent, store, acked>>
        /\ server' = "test" /\ running' = TRUE
    BY <1>4, Zenon DEF SetRunning, At, links
  <2>2. FlagTypes'
    BY <1>1, <2>1, Zenon DEF FlagTypes
  <2>3. StopTypes' /\ LinkTypes' /\ ServerTypes'
    BY <1>1, <2>1 DEF StopTypes, LinkTypes, ServerTypes
  <2> QED BY <2>1, <2>2, <2>3, QuietKeeps
<1>5. CASE TestRunning \/ AcceptFails \/ FinallyEnds
  <2>1. /\ UNCHANGED <<running, sock, listener, interrupted, db>>
        /\ UNCHANGED <<link, thread, request, sent, store, acked>>
    BY <1>5, Zenon DEF TestRunning, AcceptFails, FinallyEnds, links
  <2>2. /\ server' \in {"accept", "finally", "main", "ended"}
        /\ stops' = stops \/ stops' = [stops EXCEPT ![Main] = "clear"]
    BY <1>5 DEF TestRunning, AcceptFails, FinallyEnds, At
  <2>3. FlagTypes' /\ LinkTypes'
    BY <1>1, <2>1 DEF FlagTypes, LinkTypes
  <2>4. ServerTypes'
    BY <1>1, <2>1, <2>2 DEF ServerTypes
  <2>5. StopTypes' /\ \A s \in Callers : stops'[s] = stops[s] \/ stops'[s] = "clear"
    <3>1. CASE stops' = stops
      BY <1>1, <3>1 DEF StopTypes
    <3>2. CASE stops' = [stops EXCEPT ![Main] = "clear"]
      BY <1>1, <3>2, MainCalls
    <3> QED BY <2>2, <3>1, <3>2
  <2> QED BY <2>1, <2>2, <2>3, <2>4, <2>5, QuietKeeps
<1>6. CASE AcceptWoken \/ Interrupt
  <2>1. /\ UNCHANGED <<running, sock, db>>
        /\ UNCHANGED <<thread, request, sent, store, acked>>
        /\ interrupted' \in {interrupted, TRUE}
    BY <1>6, Zenon DEF AcceptWoken, Interrupt
  <2>2. /\ server' \in {"finally", "main"} /\ listener' \in {listener, "gone"}
        /\ stops' = [stops EXCEPT ![Main] = "clear"]
    BY <1>6 DEF AcceptWoken, Interrupt, At
  <2>3. FlagTypes'
    BY <1>1, <2>1, Zenon DEF FlagTypes
  <2>4. ServerTypes'
    BY <1>1, <2>2 DEF ServerTypes
  <2>5. \E C \in SUBSET Clients : link' = [d \in Clients |-> IF d \in C THEN "closed" ELSE link[d]]
    <3>1. CASE AcceptWoken
      <4> DEFINE C == {d \in Clients : Reset(d)}
      <4>1. link' = [d \in Clients |-> IF d \in C THEN "closed" ELSE link[d]]
        BY <3>1 DEF AcceptWoken
      <4> QED BY <4>1
    <3>2. CASE Interrupt
      <4> DEFINE C == {d \in Clients : link[d] = "accepted" \/ (listener = "dying" /\ Reset(d))}
      <4>1. link' = [d \in Clients |-> IF d \in C THEN "closed" ELSE link[d]]
        BY <3>2 DEF Interrupt
      <4> QED BY <4>1
    <3> QED BY <1>6, <3>1, <3>2
  <2>6. LinkTypes'
    BY <1>1, <2>1, <2>5 DEF LinkTypes
  <2>7. StopTypes' /\ \A s \in Callers : stops'[s] = stops[s] \/ stops'[s] = "clear"
    BY <1>1, <2>2, MainCalls
  <2> QED BY <2>1, <2>2, <2>3, <2>4, <2>6, <2>7, QuietKeeps
<1>7. CASE Accept
  <2>1. /\ UNCHANGED <<running, sock, interrupted, stops, db>>
        /\ UNCHANGED <<thread, request, sent, store, acked>>
    BY <1>7, Zenon DEF Accept
  <2>2. server' = "spawn" /\ listener' \in {listener, "gone"}
    BY <1>7 DEF Accept, At
  <2>3. LinkTypes'
    <3>1. PICK c \in Clients :
             link' = [d \in Clients |->
                        CASE d = c -> "accepted"
                          [] listener = "dying" /\ Reset(d) -> "closed"
                          [] OTHER -> link[d]]
      BY <1>7, Zenon DEF Accept
    <3>2. \A d \in Clients : link'[d] \in {"accepted", "closed", link[d]}
      <4> TAKE d \in Clients
      <4> DEFINE gone == listener = "dying" /\ Reset(d)
      <4>0. link'[d] = CASE d = c -> "accepted" [] gone -> "closed" [] OTHER -> link[d]
        BY <3>1
      <4> HIDE DEF gone
      <4>1. CASE d = c /\ ~gone
        BY <4>0, <4>1
      <4>2. CASE d # c /\ gone
        BY <4>0, <4>2
      <4>3. CASE d # c /\ ~gone
        BY <4>0, <4>3
      <4>4. CASE d = c /\ gone
        BY <4>0, <4>4
      <4> QED BY <4>1, <4>2, <4>3, <4>4
    <3>3. link' = [d \in Clients |-> link'[d]]
      BY <3>1
    <3> QED BY <1>1, <2>1, <3>2, <3>3 DEF LinkTypes
  <2>4. FlagTypes' /\ StopTypes'
    BY <1>1, <2>1 DEF FlagTypes, StopTypes
  <2>5. ServerTypes'
    BY <1>1, <2>2 DEF ServerTypes
  <2> QED BY <2>1, <2>2, <2>3, <2>4, <2>5, QuietKeeps
<1>8. CASE Spawn
  <2>1. /\ UNCHANGED <<running, sock, listener, interrupted, stops, db>>
        /\ UNCHANGED <<request, sent, store, acked>> /\ server' = "test"
    BY <1>8, Zenon DEF Spawn, At
  <2>2. PICK c \in Clients : /\ link' = [link EXCEPT ![c] = "open"]
                             /\ thread' = [thread EXCEPT ![c] = "recv"]
    BY <1>8, Zenon DEF Spawn
  <2>3. LinkTypes' /\ \A d \in Clients : thread'[d] \in {thread[d], "recv"}
    BY <1>1, <2>2 DEF LinkTypes
  <2>4. FlagTypes' /\ StopTypes' /\ ServerTypes'
    BY <1>1, <2>1 DEF FlagTypes, StopTypes, ServerTypes
  <2> QED BY <2>1, <2>3, <2>4, QuietKeeps
<1>9. CASE Exit
  <2>1. /\ UNCHANGED <<running, sock, listener, interrupted, stops, db>>
        /\ UNCHANGED <<request, sent, store, acked>> /\ server' = "exited"
    BY <1>9, Zenon DEF Exit, At
  <2>2. LinkTypes' /\ \A d \in Clients : thread'[d] = "none"
    BY <1>9 DEF Exit, LinkTypes
  <2>3. FlagTypes' /\ StopTypes' /\ ServerTypes'
    BY <1>1, <2>1 DEF FlagTypes, StopTypes, ServerTypes
  <2> QED BY <2>1, <2>2, <2>3, QuietKeeps
<1> QED BY <1>2, <1>3, <1>4, <1>5, <1>6, <1>7, <1>8, <1>9 DEF ServerStep

-----------------------------------------------------------------------------
(* The steps of the callers of stop *)

\* A step of one call, seen from outside.
LEMMA StopMoves ==
    ASSUME StopTypes, NEW s \in Callers, NEW pc, NEW next, StopAt(s, pc, next),
           next \in {"clear", "test", "close", "forget", "shutdown", "done", "raised"}
    PROVE  /\ StopTypes' /\ stops[s] = pc /\ stops'[s] = next
           /\ \A t \in Callers : t # s => stops'[t] = stops[t]
BY DEF StopTypes, StopAt

\* What is left to show of a step that stops, opens or closes nothing but the database.
LEMMA StopStepRest ==
    ASSUME IInv, UNCHANGED <<server, thread, request, sent, store, acked>>,
           FlagTypes', listener' \in {"none", "listening", "dying", "gone"}, LinkTypes',
           StopTypes', \A t \in Callers : CallOf(t)', SomeoneCloses',
           sock' => sock
    PROVE  IInv'
<1>1. /\ ServerTypes /\ RequestTypes /\ HistoryTypes /\ Handling /\ Closing
  BY Zenon DEF IInv, Types
<1>2. ServerTypes' /\ RequestTypes' /\ HistoryTypes'
  BY <1>1, StoreSame DEF ServerTypes, RequestTypes
<1>3. Handling'
  BY <1>1, HandlingStays
<1>4. (sock => server # "start")'
  BY <1>1 DEF Closing
<1>5. Closing'
  BY <1>4, Zenon DEF Closing
<1> QED BY <1>2, <1>3, <1>5, Zenon DEF IInv, Types

LEMMA StopStepKeeps ==
    ASSUME IInv, NEW s \in Callers, CallStop(s) \/ StopStep(s)
    PROVE  IInv'
<1>1. FlagTypes /\ ServerTypes /\ StopTypes /\ LinkTypes
  BY Zenon DEF IInv, Types
<1>2. /\ sock => server # "start"
      /\ \A t \in Callers : CallOf(t)
      /\ SomeoneCloses
  BY Zenon DEF IInv, Closing
<1>3. listener \in {"none", "listening", "dying", "gone"}
  BY <1>1 DEF ServerTypes
<1>4. CASE CallStop(s) \/ ClearRunning(s)
  <2>1. /\ UNCHANGED <<sock, listener, server, interrupted, db>>
        /\ UNCHANGED <<link, thread, request, sent, store, acked>>
        /\ running' \in {running, FALSE}
    BY <1>4, Zenon DEF CallStop, ClearRunning, links
  <2>2. StopAt(s, "idle", "clear") \/ StopAt(s, "clear", "test")
    BY <1>4, Zenon DEF CallStop, ClearRunning
  <2>3. FlagTypes'
    BY <1>1, <2>1, Zenon DEF FlagTypes
  <2>4. LinkTypes' /\ ServerTypes'
    BY <1>1, <2>1 DEF LinkTypes, ServerTypes
  <2>5. /\ StopTypes' /\ \A t \in Callers : t # s => stops'[t] = stops[t]
        /\ stops'[s] = "clear" \/ (stops[s] = "clear" /\ stops'[s] = "test")
    <3>1. CASE StopAt(s, "idle", "clear")
      BY <1>1, <3>1, StopMoves
    <3>2. CASE StopAt(s, "clear", "test")
      BY <1>1, <3>2, StopMoves
    <3> QED BY <2>2, <3>1, <3>2
  <2> QED BY <2>1, <2>3, <2>4, <2>5, QuietKeeps
<1>5. CASE TestSock(s)
  <2>1. /\ UNCHANGED <<running, sock, listener, server, interrupted, db>>
        /\ UNCHANGED <<link, thread, request, sent, store, acked>>
    BY <1>5, Zenon DEF TestSock, links
  <2>2. \/ sock /\ StopAt(s, "test", "close")
        \/ ~sock /\ StopAt(s, "test", "shutdown")
    BY <1>5, Zenon DEF TestSock
  <2>3. /\ StopTypes' /\ \A t \in Callers : t # s => stops'[t] = stops[t]
        /\ \/ sock /\ stops'[s] = "close"
           \/ ~sock /\ stops'[s] = "shutdown"
    BY <1>1, <2>2, StopMoves
  <2>4. \A t \in Callers : CallOf(t)'
    BY <1>2, <2>1, <2>3 DEF CallOf
  <2>5. SomeoneCloses'
    BY <2>1, <2>3 DEF SomeoneCloses, Closer
  <2>6. FlagTypes' /\ LinkTypes'
    BY <1>1, <2>1 DEF FlagTypes, LinkTypes
  <2> QED BY <1>3, <2>1, <2>3, <2>4, <2>5, <2>6, StopStepRest
<1>6. CASE CloseSock(s)
  <2>1. /\ UNCHANGED <<running, sock, server, interrupted, db>>
        /\ UNCHANGED <<thread, request, sent, store, acked>> /\ sock
        /\ StopAt(s, "close", "forget")
    BY <1>6, Zenon DEF CloseSock
  <2>2. listener' \in {"dying", "gone"}
    BY <1>6 DEF CloseSock
  <2>3. LinkTypes'
    <3>1. \A d \in Clients : link'[d] \in {"closed", link[d]}
      BY <1>6 DEF CloseSock
    <3>2. link' = [d \in Clients |-> link'[d]]
      BY <1>6 DEF CloseSock
    <3> QED BY <1>1, <2>1, <3>1, <3>2 DEF LinkTypes
  <2>4. /\ StopTypes' /\ stops[s] = "close" /\ stops'[s] = "forget"
        /\ \A t \in Callers : t # s => stops'[t] = stops[t]
    BY <1>1, <2>1, StopMoves
  <2>5. \A t \in Callers : CallOf(t)'
    BY <1>2, <2>1, <2>4 DEF CallOf
  <2>6. SomeoneCloses'
    BY <2>1 DEF SomeoneCloses
  <2>7. FlagTypes'
    BY <1>1, <2>1 DEF FlagTypes
  <2> QED BY <2>1, <2>2, <2>3, <2>4, <2>5, <2>6, <2>7, StopStepRest
<1>7. CASE CloseRaises(s)
  <2>1. /\ UNCHANGED <<running, sock, listener, server, interrupted, db>>
        /\ UNCHANGED <<link, thread, request, sent, store, acked>>
        /\ ~sock /\ StopAt(s, "close", "raised")
    BY <1>7, Zenon DEF CloseRaises, links
  <2>2. /\ StopTypes' /\ stops[s] = "close" /\ stops'[s] = "raised"
        /\ \A t \in Callers : t # s => stops'[t] = stops[t]
    BY <1>1, <2>1, StopMoves
  <2>3. \A t \in Callers : CallOf(t)'
    BY <1>2, <2>1, <2>2 DEF CallOf
  <2>4. SomeoneCloses'
    <3> SUFFICES ASSUME db' PROVE \E t \in Callers : Closer(t)'
      BY DEF SomeoneCloses
    <3>1. PICK t \in Callers : Closer(t)
      BY <1>2, <2>1, <2>2 DEF SomeoneCloses
    <3>2. t # s
      BY <2>2, <3>1 DEF Closer
    <3>3. Closer(t)'
      BY <2>1, <2>2, <3>1, <3>2 DEF Closer
    <3> QED BY <3>3
  <2>5. FlagTypes' /\ LinkTypes'
    BY <1>1, <2>1 DEF FlagTypes, LinkTypes
  <2> QED BY <1>3, <2>1, <2>2, <2>3, <2>4, <2>5, StopStepRest
<1>8. CASE ForgetSock(s)
  <2>1. /\ UNCHANGED <<running, listener, server, interrupted, db>>
        /\ UNCHANGED <<link, thread, request, sent, store, acked>>
        /\ sock' = FALSE /\ StopAt(s, "forget", "shutdown")
    BY <1>8, Zenon DEF ForgetSock, links
  <2>2. /\ StopTypes' /\ stops[s] = "forget" /\ stops'[s] = "shutdown"
        /\ \A t \in Callers : t # s => stops'[t] = stops[t]
    BY <1>1, <2>1, StopMoves
  <2>3. \A t \in Callers : CallOf(t)'
    BY <1>2, <2>1, <2>2 DEF CallOf
  <2>4. SomeoneCloses'
    BY <2>2 DEF SomeoneCloses, Closer
  <2>5. FlagTypes'
    BY <1>1, <2>1, Zenon DEF FlagTypes
  <2>6. LinkTypes'
    BY <1>1, <2>1 DEF LinkTypes
  <2> QED BY <1>3, <2>1, <2>2, <2>3, <2>4, <2>5, <2>6, StopStepRest
<1>9. CASE CloseDb(s)
  <2>1. /\ UNCHANGED <<running, sock, listener, server, interrupted>>
        /\ UNCHANGED <<link, thread, request, sent, store, acked>>
        /\ db' = FALSE /\ StopAt(s, "shutdown", "done")
    BY <1>9, Zenon DEF CloseDb, links
  <2>2. /\ StopTypes' /\ stops'[s] = "done"
        /\ \A t \in Callers : t # s => stops'[t] = stops[t]
    BY <1>1, <2>1, StopMoves
  <2>3. \A t \in Callers : CallOf(t)'
    BY <1>2, <2>1, <2>2 DEF CallOf
  <2>4. SomeoneCloses'
    BY <2>1 DEF SomeoneCloses
  <2>5. FlagTypes'
    BY <1>1, <2>1, Zenon DEF FlagTypes
  <2>6. LinkTypes'
    BY <1>1, <2>1 DEF LinkTypes
  <2> QED BY <1>3, <2>1, <2>2, <2>3, <2>4, <2>5, <2>6, StopStepRest
<1> QED BY <1>4, <1>5, <1>6, <1>7, <1>8, <1>9 DEF StopStep

-----------------------------------------------------------------------------
(* The steps of the clients and of the connection threads *)

\* A step of one connection leaves the others as they are.
LEMMA OtherConnections ==
    ASSUME IInv, NEW c \in Clients, UNCHANGED lifecycle,
           \A d \in Clients : d # c => /\ thread'[d] = thread[d] /\ request'[d] = request[d]
                                       /\ sent'[d] = sent[d],
           Kept \subseteq Kept', HandlingOf(c)',
           LinkTypes', RequestTypes', HistoryTypes'
    PROVE  IInv'
<1>1. UNCHANGED <<running, sock, listener, server, interrupted, stops, db>>
  BY Zenon DEF lifecycle
<1>2. FlagTypes /\ ServerTypes /\ StopTypes /\ Handling /\ Closing
  BY Zenon DEF IInv, Types
<1>3. FlagTypes' /\ ServerTypes' /\ StopTypes'
  BY <1>1, <1>2 DEF FlagTypes, ServerTypes, StopTypes
<1>4. Closing'
  BY <1>1, <1>2, ClosingStays
<1>5. ASSUME NEW d \in Clients, d # c PROVE HandlingOf(d)'
  <2>1. HandlingOf(d)
    BY <1>2 DEF Handling
  <2>2. Written(d)' = Written(d)
    BY <1>5 DEF Written
  <2>3. thread'[d] = thread[d] /\ request'[d] = request[d] /\ sent'[d] = sent[d]
    BY <1>5
  <2> QED BY <2>1, <2>2, <2>3 DEF HandlingOf
<1>6. Handling'
  BY <1>5, Zenon DEF Handling
<1> QED BY <1>3, <1>4, <1>6, Zenon DEF IInv, Types

LEMMA ClientKeeps ==
    ASSUME IInv, NEW c \in Clients, Connect(c) \/ Leave(c) \/ ThreadEnds(c) \/ Send(c)
    PROVE  IInv'
<1>1. /\ FlagTypes /\ ServerTypes /\ StopTypes /\ LinkTypes /\ RequestTypes /\ HistoryTypes
      /\ Handling
  BY Zenon DEF IInv, Types
<1>2. CASE Connect(c) \/ Leave(c) \/ ThreadEnds(c)
  <2>1. /\ UNCHANGED <<running, sock, listener, server, interrupted, stops, db>>
        /\ UNCHANGED <<request, sent, store, acked>>
    BY <1>2, Zenon DEF Connect, Leave, ThreadEnds, lifecycle
  <2>2. /\ \E v \in {"backlog", "left", "closed"} : link' = [link EXCEPT ![c] = v]
        /\ thread' = thread \/ thread' = [thread EXCEPT ![c] = "none"]
    BY <1>2 DEF Connect, Leave, ThreadEnds
  <2>3. LinkTypes' /\ \A d \in Clients : thread'[d] \in {thread[d], "none"}
    BY <1>1, <2>2 DEF LinkTypes
  <2>4. FlagTypes' /\ ServerTypes' /\ StopTypes'
    BY <1>1, <2>1 DEF FlagTypes, ServerTypes, StopTypes
  <2> QED BY <2>1, <2>3, <2>4, QuietKeeps
<1>3. CASE Send(c)
  <2>1. /\ UNCHANGED lifecycle /\ UNCHANGED <<link, thread, store, acked>>
        /\ request[c] = "none"
    BY <1>3, Zenon DEF Send
  <2>2. PICK k \in Kinds[c] : request' = [request EXCEPT ![c] = k]
    BY <1>3, Zenon DEF Send
  <2>3. sent' = [sent EXCEPT ![c] = sent[c] + 1] /\ sent[c] < MaxRequests
    BY <1>3, Zenon DEF Send
  <2>4. k \in AllKinds
    <3>1. Kinds \in [Clients -> SUBSET AllKinds]
      BY ServiceAssumption, Zenon DEF ServiceAssumption
    <3> QED BY <2>2, <3>1
  <2>5. sent[c] \in Nat /\ sent[c] + 1 \in Nat
    BY <1>1 DEF RequestTypes
  <2>6. RequestTypes'
    BY <1>1, <2>2, <2>3, <2>4, <2>5 DEF RequestTypes
  <2>7. LinkTypes' /\ HistoryTypes' /\ Kept' = Kept
    BY <1>1, <2>1, StoreSame DEF LinkTypes
  <2>8. \A d \in Clients : d # c => request'[d] = request[d] /\ sent'[d] = sent[d]
    BY <1>1, <2>2, <2>3 DEF RequestTypes
  <2>9. HandlingOf(c)'
    <3>1. thread[c] \notin {"query", "write", "append", "ok"}
      BY <1>1, <2>1 DEF Handling, HandlingOf
    <3>2. thread'[c] = thread[c]
      BY <2>1
    <3> QED BY <3>1, <3>2 DEF HandlingOf
  <2> QED BY <2>1, <2>6, <2>7, <2>8, <2>9, OtherConnections
<1> QED BY <1>2, <1>3

\* A thread that changes its place and nothing of its connection.
LEMMA ThreadMoves ==
    ASSUME IInv, NEW c \in Clients, NEW next,
           next \in {"recv", "write", "append", "query", "ok", "answer", "raise"},
           thread' = [thread EXCEPT ![c] = next],
           UNCHANGED lifecycle, UNCHANGED <<link, request, sent, acked>>,
           Kept \subseteq Kept', HistoryTypes',
           next = "query" => request[c] = "query",
           next \in {"write", "append"} => request[c] = "write",
           next = "ok" => \/ request[c] = "query"
                          \/ request[c] = "write" /\ Written(c) \in Kept'
    PROVE  IInv'
<1>1. LinkTypes /\ RequestTypes /\ Handling
  BY Zenon DEF IInv, Types
<1>2. LinkTypes' /\ RequestTypes'
  BY <1>1 DEF LinkTypes, RequestTypes
<1>3. thread'[c] = next /\ \A d \in Clients : d # c => thread'[d] = thread[d]
  BY <1>1 DEF LinkTypes
<1>4. Written(c)' = Written(c)
  BY DEF Written
<1>5. HandlingOf(c)'
  BY <1>3, <1>4 DEF HandlingOf
<1> QED BY <1>2, <1>3, <1>5, OtherConnections

\* Lines only come to the end: what could be read before still can be.
LEMMA ReadableGrows ==
    ASSUME lines \in Seq(Line), lines' \in Seq(Line),
           \A i \in DOMAIN lines : /\ i \in DOMAIN lines'
                                  /\ (lines'[i] = lines[i] \/ lines[i] = Torn)
    PROVE  Readable \subseteq Readable'
<1> SUFFICES ASSUME NEW i \in DOMAIN lines, \A j \in 1..i : Parses(j)
             PROVE  lines[i] \in Readable'
  BY DEF Readable
<1>1. \A j \in 1..i : j \in DOMAIN lines /\ lines[j] \notin {Torn, Bad}
  BY DEF Parses
<1>2. \A j \in 1..i : lines'[j] = lines[j]
  BY <1>1
<1>3. \A j \in 1..i : Parses(j)'
  BY <1>1, <1>2 DEF Parses
<1>4. i \in DOMAIN lines' /\ i \in 1..i
  <2>1. DOMAIN lines = 1..Len(lines)
    OBVIOUS
  <2>2. i \in Nat /\ 1 =< i
    BY <2>1
  <2> QED BY <2>2
<1> QED BY <1>2, <1>3, <1>4 DEF Readable

LEMMA ReadableTyped ==
    ASSUME HistoryTypes
    PROVE  Readable \subseteq Point
<1> SUFFICES ASSUME NEW i \in DOMAIN lines, \A j \in 1..i : Parses(j)
             PROVE  lines[i] \in Point
  BY DEF Readable
<1>1. lines[i] \in Line /\ i \in 1..i
  BY DEF HistoryTypes
<1> QED BY <1>1 DEF Line, Parses

\* A line that is written is kept, and keeps what was.
LEMMA LineKept ==
    ASSUME HistoryTypes, NEW x \in Point, lines' = AppendLine(lines, x),
           hidden' = IF \A i \in DOMAIN lines : Parses(i) THEN hidden ELSE hidden \cup {x}
    PROVE  HistoryTypes' /\ x \in Kept' /\ Kept \subseteq Kept'
<1> USE DEF HistoryTypes
<1>1. LinesOf(Point) = Line
  BY DEF LinesOf, Line
<1>2. /\ lines' \in Seq(Line)
      /\ \A i \in DOMAIN lines : /\ i \in DOMAIN lines'
                                /\ (lines'[i] = lines[i] \/ lines[i] = Torn)
  BY <1>1, AppendLineKeeps
<1>3. Readable \subseteq Readable'
  BY <1>2, ReadableGrows
<1>4. x \in Kept'
  <2>1. CASE \A i \in DOMAIN lines : Parses(i)
    <3>1. lines' = Append(lines, x)
      BY <2>1 DEF AppendLine, Endless, Parses
    <3>2. x \notin {Torn, Bad}
      BY FileAssumption
    <3>3. \A j \in 1..(Len(lines) + 1) : Parses(j)'
      BY <2>1, <3>1, <3>2 DEF Parses
    <3>4. Len(lines) + 1 \in DOMAIN lines' /\ lines'[Len(lines) + 1] = x
      BY <3>1
    <3> QED BY <3>3, <3>4 DEF Kept, Readable
  <2>2. CASE ~\A i \in DOMAIN lines : Parses(i)
    BY <2>2 DEF Kept
  <2> QED BY <2>1, <2>2
<1> QED BY <1>2, <1>3, <1>4 DEF Kept

LEMMA TornKept ==
    ASSUME HistoryTypes, lines' \in {lines, AppendTorn(lines)}, hidden' = hidden
    PROVE  HistoryTypes' /\ Kept \subseteq Kept'
<1> USE DEF HistoryTypes
<1>1. LinesOf(Point) = Line
  BY DEF LinesOf, Line
<1>2. /\ lines' \in Seq(Line)
      /\ \A i \in DOMAIN lines : i \in DOMAIN lines' /\ lines'[i] = lines[i]
  BY <1>1, AppendTornKeeps
<1>3. Readable \subseteq Readable'
  BY <1>2, ReadableGrows
<1> QED BY <1>2, <1>3 DEF Kept

LEMMA ThreadKeeps ==
    ASSUME IInv, NEW c \in Clients, ThreadStep(c)
    PROVE  IInv'
<1>1. LinkTypes /\ RequestTypes /\ HistoryTypes /\ Handling
  BY Zenon DEF IInv, Types
<1>2. HandlingOf(c)
  BY <1>1 DEF Handling
<1>3. CASE Recv(c)
  <2>1. /\ UNCHANGED lifecycle /\ UNCHANGED <<link, request, sent, store, acked>>
        /\ thread' = [thread EXCEPT ![c] = Route(request[c])]
    BY <1>3, Zenon DEF Recv
  <2>2. /\ Route(request[c]) \in {"write", "query", "raise", "answer"}
        /\ Route(request[c]) = "query" => request[c] = "query"
        /\ Route(request[c]) = "write" => request[c] = "write"
    BY DEF Route
  <2>3. HistoryTypes' /\ Kept' = Kept
    BY <1>1, <2>1, StoreSame
  <2> HIDE DEF Route
  <2> QED BY <2>1, <2>2, <2>3, ThreadMoves
<1>4. CASE TestOpen(c)
  <2>1. /\ UNCHANGED lifecycle /\ UNCHANGED <<link, request, sent, store, acked>>
        /\ thread[c] = "write"
        /\ \/ thread' = [thread EXCEPT ![c] = "append"]
           \/ thread' = [thread EXCEPT ![c] = "answer"]
    BY <1>4 DEF TestOpen
  <2>2. request[c] = "write"
    BY <1>2, <2>1 DEF HandlingOf
  <2>3. HistoryTypes' /\ Kept' = Kept
    BY <1>1, <2>1, StoreSame
  <2>4. CASE thread' = [thread EXCEPT ![c] = "append"]
    BY <2>1, <2>2, <2>3, <2>4, ThreadMoves
  <2>5. CASE thread' = [thread EXCEPT ![c] = "answer"]
    BY <2>1, <2>3, <2>5, ThreadMoves
  <2> QED BY <2>1, <2>4, <2>5
<1>5. CASE AppendPoint(c)
  <2>1. /\ UNCHANGED lifecycle /\ UNCHANGED <<link, request, sent, acked>>
        /\ thread[c] = "append"
    BY <1>5, Zenon DEF AppendPoint
  <2>2. request[c] = "write" /\ sent[c] \in Nat
    BY <1>1, <1>2, <2>1 DEF HandlingOf, RequestTypes
  <2>3. Written(c) \in Point
    BY <2>2 DEF Written, Point
  <2>4. CASE /\ lines' = AppendLine(lines, Written(c))
             /\ hidden' = IF \A i \in DOMAIN lines : Parses(i) THEN hidden
                          ELSE hidden \cup {Written(c)}
             /\ thread' = [thread EXCEPT ![c] = "ok"]
    <3>1. HistoryTypes' /\ Written(c) \in Kept' /\ Kept \subseteq Kept'
      BY <1>1, <2>3, <2>4, LineKept
    <3> QED BY <2>1, <2>2, <2>4, <3>1, ThreadMoves
  <2>5. CASE /\ lines' \in {lines, AppendTorn(lines)} /\ hidden' = hidden
             /\ thread' = [thread EXCEPT ![c] = "answer"]
    <3>1. HistoryTypes' /\ Kept \subseteq Kept'
      BY <1>1, <2>5, TornKept
    <3> QED BY <2>1, <2>5, <3>1, ThreadMoves
  <2> QED BY <1>5, <2>4, <2>5, Zenon DEF AppendPoint
<1>6. CASE Query(c)
  <2>1. /\ UNCHANGED lifecycle /\ UNCHANGED <<link, request, sent, store, acked>>
        /\ thread[c] = "query" /\ thread' = [thread EXCEPT ![c] = "ok"]
    BY <1>6, Zenon DEF Query
  <2>2. request[c] = "query"
    BY <1>2, <2>1 DEF HandlingOf
  <2>3. HistoryTypes' /\ Kept' = Kept
    BY <1>1, <2>1, StoreSame
  <2> QED BY <2>1, <2>2, <2>3, ThreadMoves
<1>7. CASE Answer(c)
  <2>1. /\ UNCHANGED lifecycle /\ UNCHANGED <<link, sent, store>>
        /\ request' = [request EXCEPT ![c] = "none"]
        /\ thread' = [thread EXCEPT ![c] = "recv"]
    BY <1>7, Zenon DEF Answer
  <2>2. HistoryTypes' /\ Kept' = Kept
    BY <1>1, <2>1, StoreSame
  <2>3. /\ LinkTypes' /\ RequestTypes' /\ thread'[c] = "recv" /\ request'[c] = "none"
        /\ \A d \in Clients : d # c => thread'[d] = thread[d] /\ request'[d] = request[d]
    BY <1>1, <2>1 DEF LinkTypes, RequestTypes
  <2>4. HandlingOf(c)'
    BY <2>3 DEF HandlingOf
  <2> QED BY <2>1, <2>2, <2>3, <2>4, OtherConnections
<1>8. CASE ThreadEnds(c)
  BY <1>8, ClientKeeps
<1> QED BY <1>3, <1>4, <1>5, <1>6, <1>7, <1>8 DEF ThreadStep

-----------------------------------------------------------------------------
LEMMA StutterKeeps ==
    ASSUME IInv, UNCHANGED vars
    PROVE  IInv'
<1>1. /\ UNCHANGED <<running, sock, listener, server, interrupted, stops, db>>
      /\ UNCHANGED <<link, thread, request, sent, store, acked>>
  BY Zenon DEF vars, lifecycle, links
<1>2. FlagTypes /\ ServerTypes /\ StopTypes /\ LinkTypes
  BY Zenon DEF IInv, Types
<1>3. FlagTypes' /\ ServerTypes' /\ StopTypes' /\ LinkTypes'
  BY <1>1, <1>2 DEF FlagTypes, ServerTypes, StopTypes, LinkTypes
<1> QED BY <1>1, <1>3, QuietKeeps

LEMMA NextKeeps ==
    ASSUME IInv, [ServiceNext]_vars
    PROVE  IInv'
<1>1. CASE ServerStep \/ AcceptWoken \/ Interrupt \/ Exit
  BY <1>1, ServerStepKeeps
<1>2. CASE \E s \in Stoppers \cup {Main} : CallStop(s) \/ StopStep(s)
  BY <1>2, StopStepKeeps, Zenon DEF Callers
<1>3. CASE \E c \in Clients : Connect(c) \/ Send(c) \/ Leave(c) \/ ThreadStep(c)
  BY <1>3, ClientKeeps, ThreadKeeps, Zenon
<1>4. CASE UNCHANGED vars
  BY <1>4, StutterKeeps
<1> QED BY <1>1, <1>2, <1>3, <1>4, Zenon DEF ServiceNext

\* The inductive invariant: the types, what each connection thread handles, and
\* that some call of stop is on its way to closing the database.
THEOREM Inductive == ServiceSpec => []IInv
<1>1. ServiceInit => IInv
  BY InitIInv
<1>2. IInv /\ [ServiceNext]_vars => IInv'
  BY NextKeeps
<1> QED BY <1>1, <1>2, PTL DEF ServiceSpec

LEMMA ReadSame ==
    ASSUME ReadInv, UNCHANGED <<rows, acked>>, Kept \subseteq Kept'
    PROVE  ReadInv'
BY DEF ReadInv

LEMMA ReadKeeps ==
    ASSUME IInv, ReadInv, [ServiceNext]_vars
    PROVE  ReadInv'
<1>1. CASE ServerStep \/ AcceptWoken \/ Interrupt \/ Exit
  <2>1. UNCHANGED <<rows, acked, store>>
    BY <1>1, Zenon
       DEF ServerStep, CreateSocket, Bind, SetupRaises, GetName, SetRunning, TestRunning,
           EnterAccept, AcceptFails, Accept, Spawn, FinallyEnds, MainEnds, AcceptWoken,
           Interrupt, Exit, links
  <2> QED BY <2>1, StoreSame, ReadSame
<1>2. CASE \E s \in Stoppers \cup {Main} : CallStop(s) \/ StopStep(s)
  <2>1. UNCHANGED <<rows, acked, store>>
    BY <1>2, Zenon
       DEF CallStop, StopStep, ClearRunning, TestSock, CloseSock, CloseRaises, ForgetSock,
           CloseDb, links
  <2> QED BY <2>1, StoreSame, ReadSame
<1>3. ASSUME NEW c \in Clients, Connect(c) \/ Send(c) \/ Leave(c) \/ ThreadStep(c)
      PROVE  ReadInv'
  <2>1. CASE Query(c)
    <3>1. /\ UNCHANGED <<acked, store>>
          /\ rows' = [rows EXCEPT ![c] = Readable] \/ rows' = [rows EXCEPT ![c] = {}]
      BY <2>1 DEF Query
    <3>2. Readable \subseteq Point /\ Readable \subseteq Kept
      BY ReadableTyped DEF IInv, Types, Kept
    <3>3. Kept' = Kept
      BY <3>1, StoreSame
    <3> QED BY <3>1, <3>2, <3>3 DEF ReadInv
  <2>2. CASE Answer(c)
    <3>1. /\ UNCHANGED store /\ rows' = [rows EXCEPT ![c] = {}]
          /\ acked' = IF thread[c] = "ok" THEN acked \cup Told(c) ELSE acked
      BY <2>2, Zenon DEF Answer
    <3>2. thread[c] = "ok" => Told(c) \subseteq Kept
      BY DEF Told, ReadInv, IInv, Handling, HandlingOf
    <3>3. Kept' = Kept
      BY <3>1, StoreSame
    <3> QED BY <3>1, <3>2, <3>3 DEF ReadInv
  <2>3. CASE AppendPoint(c)
    <3>1. HistoryTypes /\ RequestTypes /\ UNCHANGED <<rows, acked>>
      BY <2>3, Zenon DEF AppendPoint, IInv, Types
    <3>2. Written(c) \in Point
      BY <3>1 DEF Written, Point, RequestTypes
    <3>3. Kept \subseteq Kept'
      BY <2>3, <3>1, <3>2, LineKept, TornKept DEF AppendPoint
    <3> QED BY <3>1, <3>3, ReadSame
  <2>4. CASE Connect(c) \/ Send(c) \/ Leave(c) \/ Recv(c) \/ TestOpen(c) \/ ThreadEnds(c)
    <3>1. UNCHANGED <<rows, acked, store>>
      BY <2>4, Zenon DEF Connect, Send, Leave, Recv, TestOpen, ThreadEnds
    <3> QED BY <3>1, StoreSame, ReadSame
  <2> QED BY <1>3, <2>1, <2>2, <2>3, <2>4, Zenon DEF ThreadStep
<1>4. CASE UNCHANGED vars
  <2>1. UNCHANGED <<rows, acked, store>>
    BY <1>4, Zenon DEF vars, links
  <2> QED BY <2>1, StoreSame, ReadSame
<1> QED BY <1>1, <1>2, <1>3, <1>4, Zenon DEF ServiceNext

LEMMA InitRead == ServiceInit => ReadInv
<1> SUFFICES ASSUME ServiceInit PROVE ReadInv
  OBVIOUS
<1>1. rows = [c \in Clients |-> {}] /\ acked = Readable
  BY Zenon DEF ServiceInit
<1> QED BY <1>1 DEF ReadInv, Kept

\* Type correctness, and with it that only what was written was answered OK.
THEOREM TypeCorrect == ServiceSpec => []ServiceTypeOK
<1>1. IInv /\ ReadInv => ServiceTypeOK
  <2> SUFFICES ASSUME IInv, ReadInv PROVE ServiceTypeOK
    OBVIOUS
  <2>1. \A p \in acked : p \in hidden \/ \E i \in DOMAIN lines : lines[i] = p
    BY DEF ReadInv, Kept, Readable
  <2> QED BY <2>1, Zenon DEF IInv, ReadInv, Types, FlagTypes, ServerTypes, StopTypes,
             LinkTypes, RequestTypes, HistoryTypes, Callers, ServiceTypeOK
<1> QED BY <1>1, InitRead, ReadKeeps, Inductive, PTL DEF ServiceSpec

\* However many calls of stop overlap, and whichever of them end with an
\* AttributeError: when they are over, the database is closed.
THEOREM Stopped_is_closed == ServiceSpec => []StoppedIsClosed
<1>1. IInv => StoppedIsClosed
  <2> SUFFICES ASSUME IInv, NEW s \in DOMAIN stops, stops[s] \in {"done", "raised"},
                      \A t \in DOMAIN stops : ~Stopping(t), db
               PROVE  FALSE
    BY DEF StoppedIsClosed
  <2>1. StopTypes /\ Closing
    BY Zenon DEF IInv, Types
  <2>2. DOMAIN stops = Callers
    BY <2>1 DEF StopTypes
  <2>3. stops[s] = "raised" /\ ~sock
    BY <2>1, <2>2 DEF Closing, CallOf
  <2>4. PICK t \in Callers : Closer(t)
    BY <2>1, <2>2, <2>3 DEF Closing, SomeoneCloses
  <2>5. Stopping(t)
    BY <2>4 DEF Closer, Stopping
  <2> QED BY <2>2, <2>5
<1> QED BY <1>1, Inductive, PTL

\* No other step takes a thread from the reading of a QUERY to its answer.
LEMMA OnlyQueryReads ==
    ASSUME IInv, ServiceNext, NEW c \in Clients, thread[c] = "query", thread'[c] = "ok"
    PROVE  Query(c)
<1>1. LinkTypes
  BY Zenon DEF IInv, Types
<1>2. thread' # thread
  OBVIOUS
<1>3. ~(ServerStep \/ AcceptWoken \/ Interrupt \/ Exit)
  <2>1. CASE Spawn
    <3>1. PICK d \in Clients : thread' = [thread EXCEPT ![d] = "recv"]
      BY <2>1, Zenon DEF Spawn
    <3> QED BY <1>1, <3>1 DEF LinkTypes
  <2>2. CASE Exit
    BY <2>2 DEF Exit
  <2>3. CASE (ServerStep \/ AcceptWoken \/ Interrupt) /\ ~Spawn
    <3>1. thread' = thread
      BY <2>3, Zenon
         DEF ServerStep, CreateSocket, Bind, SetupRaises, GetName, SetRunning, TestRunning,
             EnterAccept, AcceptFails, Accept, FinallyEnds, MainEnds, AcceptWoken,
             Interrupt, links
    <3> QED BY <1>2, <3>1
  <2> QED BY <2>1, <2>2, <2>3
<1>4. ~(\E s \in Stoppers \cup {Main} : CallStop(s) \/ StopStep(s))
  BY <1>2, Zenon
     DEF CallStop, StopStep, ClearRunning, TestSock, CloseSock, CloseRaises, ForgetSock,
         CloseDb, links
<1>5. PICK d \in Clients : Connect(d) \/ Send(d) \/ Leave(d) \/ ThreadStep(d)
  BY <1>3, <1>4, Zenon DEF ServiceNext
<1>6. d = c
  <2>1. thread' = thread \/ \E v : thread' = [thread EXCEPT ![d] = v]
    BY <1>5, Zenon DEF Connect, Send, Leave, ThreadStep, Recv, TestOpen, AppendPoint, Query,
                       Answer, ThreadEnds
  <2> QED BY <1>1, <1>2, <2>1 DEF LinkTypes
<1>7. ~(Recv(c) \/ TestOpen(c) \/ AppendPoint(c) \/ Answer(c))
  BY Zenon DEF Recv, TestOpen, AppendPoint, Answer
<1>8. ~ThreadEnds(c)
  <2>1. ThreadEnds(c) => thread' = [thread EXCEPT ![c] = "none"]
    BY Zenon DEF ThreadEnds
  <2> QED BY <1>1, <2>1 DEF LinkTypes
<1>9. ~(Connect(c) \/ Send(c) \/ Leave(c))
  BY <1>2, Zenon DEF Connect, Send, Leave
<1> QED BY <1>5, <1>6, <1>7, <1>8, <1>9, Zenon DEF ThreadStep

\* What was answered OK is in the rows of every query of an open database, unless it
\* was written when the file had a line that does not parse.
THEOREM Acknowledged_are_read == ServiceSpec => AckedIsRead
<1> DEFINE Reads(c) == thread[c] = "query" /\ thread'[c] = "ok"
                          => acked \ hidden \subseteq rows'[c] \/ ~db
<1>1. IInv /\ ReadInv /\ [ServiceNext]_vars => [\A c \in Clients : Reads(c)]_vars
  <2> SUFFICES ASSUME IInv, ReadInv, ServiceNext, NEW c \in Clients,
                      thread[c] = "query", thread'[c] = "ok", db
               PROVE  acked \ hidden \subseteq rows'[c]
    BY Zenon
  <2>1. Query(c)
    BY OnlyQueryReads
  <2>2. rows' = [rows EXCEPT ![c] = Readable]
    BY <2>1 DEF Query
  <2>3. acked \ hidden \subseteq Readable
    BY DEF ReadInv, Kept
  <2> QED BY <2>2, <2>3 DEF ReadInv
<1>2. [][ServiceNext]_vars /\ [](IInv /\ ReadInv) => [][\A c \in Clients : Reads(c)]_vars
  BY <1>1, PTL
<1> QED BY <1>2, InitRead, ReadKeeps, Inductive, PTL DEF ServiceSpec, AckedIsRead
=============================================================================
