----------------------------- MODULE Connection -----------------------------
(***************************************************************************)
(* One connection: serve_connection and FrameDecoder of                    *)
(* src/tsdb/server/tcp_server.py with the handler of src/tsdb/service.py,  *)
(* and Client._request of src/tsdb/server/client.py, over a byte stream    *)
(* that either side reads in pieces of any length.                         *)
(***************************************************************************)
EXTENDS Integers, Sequences

CONSTANTS
    LENGTH_PREFIX,
    RecvSize,      \* recv_size of serve_connection
    Sizes,         \* the lengths of the payloads a client sends, in order
    Undecodable,   \* the requests that are not UTF-8
    AnswerSize,
    Window         \* requests sent ahead of their answers: 1 for Client

ASSUME ConnectionAssumption ==
    /\ LENGTH_PREFIX \in Nat \ {0} /\ RecvSize \in Nat \ {0}
    /\ Sizes \in Seq(Nat) /\ AnswerSize \in Nat /\ Window \in Nat \ {0}
    /\ \A m \in Undecodable : m \in DOMAIN Sizes /\ Sizes[m] > 0

VARIABLES
    uplink, downlink,   \* the bytes on their way
    nsent,              \* requests the client has sent
    client,             \* the client: where it is, what _recv_exactly has and needs
    got,                \* the payloads it has received
    server,             \* the connection thread: where it is, decoder._buf, feed's out
    handled             \* the requests the handler was called with

clients == <<nsent, client, got>>
vars == <<uplink, downlink, clients, server, handled>>

\* A byte is one of the header, which together hold a length, or one of a payload.
Header(n) == [k \in 1..LENGTH_PREFIX |-> <<"length", n, k>>]
Payload(m) == [k \in 1..Sizes[m] |-> <<"request", m, k>>]
Answer(p) == [k \in 1..AnswerSize |-> <<"answer", p, k>>]

encode_frame(p) == Header(Len(p)) \o p

\* struct.unpack; bytes that are no header would give any length.
LengthIn(buf) == IF buf[1][1] = "length" THEN buf[1][2] ELSE 0

Front(s, n) == SubSeq(s, 1, n)
Rest(s, n) == SubSeq(s, n + 1, Len(s))
Pieces(s, n) == {k \in 1..Len(s) : k =< n}
Prefixes(s) == {Front(s, k) : k \in 0..Len(s)}

Init ==
    /\ uplink = <<>> /\ downlink = <<>>
    /\ nsent = 0 /\ got = <<>> /\ handled = <<>>
    /\ client = [pc |-> "ready", buf |-> <<>>, need |-> 0]
    /\ server = [pc |-> "recv", buf |-> <<>>, out |-> <<>>]

ServerOpen == server.pc # "closed"
ClientOpen == client.pc # "closed"

-----------------------------------------------------------------------------
(* Client._request *)

\* sendall; to a closed connection it fails at once or later, at the answer.
SendRequest ==
    /\ client.pc = "ready" /\ nsent < Len(Sizes) /\ nsent - Len(got) < Window
    /\ nsent' = nsent + 1
    /\ uplink' = IF ServerOpen THEN uplink \o encode_frame(Payload(nsent + 1)) ELSE uplink
    /\ UNCHANGED <<downlink, client, got, server, handled>>

ReadAnswer ==
    /\ client.pc = "ready" /\ Len(got) < nsent
    /\ client' = [pc |-> "header", buf |-> <<>>, need |-> LENGTH_PREFIX]
    /\ UNCHANGED <<uplink, downlink, nsent, got, server, handled>>

\* Mutant of RecvExactly: recv is not told how many bytes are missing.
RecvAny ==
    /\ client.pc \in {"header", "payload"} /\ Len(client.buf) < client.need
    /\ \E n \in Pieces(downlink, RecvSize) :
         /\ client' = [client EXCEPT !.buf = @ \o Front(downlink, n)]
         /\ downlink' = Rest(downlink, n)
    /\ UNCHANGED <<uplink, nsent, got, server, handled>>

\* One recv of _recv_exactly.
RecvExactly ==
    /\ client.pc \in {"header", "payload"} /\ Len(client.buf) < client.need
    /\ \E n \in Pieces(downlink, client.need - Len(client.buf)) :
         /\ client' = [client EXCEPT !.buf = @ \o Front(downlink, n)]
         /\ downlink' = Rest(downlink, n)
    /\ UNCHANGED <<uplink, nsent, got, server, handled>>

HeaderRead ==
    /\ client.pc = "header" /\ Len(client.buf) = client.need
    /\ client' = [pc |-> "payload", buf |-> <<>>, need |-> LengthIn(client.buf)]
    /\ UNCHANGED <<uplink, downlink, nsent, got, server, handled>>

PayloadRead ==
    /\ client.pc = "payload" /\ Len(client.buf) = client.need
    /\ got' = Append(got, client.buf)
    /\ client' = [pc |-> "ready", buf |-> <<>>, need |-> 0]
    /\ UNCHANGED <<uplink, downlink, nsent, server, handled>>

\* recv returns b"": ConnectionError.
ClosedMidFrame ==
    /\ client.pc \in {"header", "payload"} /\ Len(client.buf) < client.need
    /\ downlink = <<>> /\ ~ServerOpen
    /\ client' = [client EXCEPT !.pc = "closed"]
    /\ UNCHANGED <<uplink, downlink, nsent, got, server, handled>>

\* The client goes away; what it had not sent out yet is lost.
ClientGone ==
    /\ ClientOpen
    /\ client' = [client EXCEPT !.pc = "closed"]
    /\ uplink' \in Prefixes(uplink) /\ downlink' = <<>>
    /\ UNCHANGED <<nsent, got, server, handled>>

-----------------------------------------------------------------------------
(* serve_connection *)

Recv ==
    /\ server.pc = "recv"
    /\ \E n \in Pieces(uplink, RecvSize) :
         /\ server' = [server EXCEPT !.pc = "feed", !.buf = @ \o Front(uplink, n)]
         /\ uplink' = Rest(uplink, n)
    /\ UNCHANGED <<downlink, clients, handled>>

\* recv returns b"" or raises, as the client is gone.
RecvEnds ==
    /\ server.pc = "recv" /\ ~ClientOpen
    /\ server' = [server EXCEPT !.pc = "closed"]
    /\ uplink' = <<>>
    /\ UNCHANGED <<downlink, clients, handled>>

\* Mutant of Complete: a frame that ends with the buffer is left in it.
CompleteAndMore(buf) ==
    Len(buf) >= LENGTH_PREFIX /\ Len(buf) > LENGTH_PREFIX + LengthIn(buf)

Complete(buf) ==
    Len(buf) >= LENGTH_PREFIX /\ Len(buf) >= LENGTH_PREFIX + LengthIn(buf)

\* One iteration of FrameDecoder.feed.
Extract ==
    /\ server.pc = "feed" /\ Complete(server.buf)
    /\ LET size == LENGTH_PREFIX + LengthIn(server.buf)
       IN server' = [server EXCEPT
                        !.out = Append(@, SubSeq(server.buf, LENGTH_PREFIX + 1, size)),
                        !.buf = Rest(@, size)]
    /\ UNCHANGED <<uplink, downlink, clients, handled>>

\* Mutant of Fed: what is left of the chunk is forgotten.
FedAll ==
    /\ server.pc = "feed" /\ ~Complete(server.buf)
    /\ server' = [server EXCEPT !.pc = IF server.out = <<>> THEN "recv" ELSE "handle",
                                !.buf = <<>>]
    /\ UNCHANGED <<uplink, downlink, clients, handled>>

Fed ==
    /\ server.pc = "feed" /\ ~Complete(server.buf)
    /\ server' = [server EXCEPT !.pc = IF server.out = <<>> THEN "recv" ELSE "handle"]
    /\ UNCHANGED <<uplink, downlink, clients, handled>>

Decodes(p) == \A m \in Undecodable : p # Payload(m)

Handle ==
    /\ server.pc = "handle" /\ Decodes(Head(server.out))
    /\ handled' = Append(handled, Head(server.out))
    /\ server' = [server EXCEPT !.pc = "send"]
    /\ UNCHANGED <<uplink, downlink, clients>>

\* UnicodeDecodeError leaves serve_connection: the socket is closed, and bytes
\* it had not read may take with them the answers on their way.
HandlerRaises ==
    /\ server.pc = "handle" /\ ~Decodes(Head(server.out))
    /\ server' = [server EXCEPT !.pc = "closed"]
    /\ downlink' \in Prefixes(downlink) /\ uplink' = <<>>
    /\ UNCHANGED <<clients, handled>>

Respond ==
    /\ server.pc = "send"
    /\ downlink' = IF ClientOpen THEN downlink \o encode_frame(Answer(Head(server.out)))
                                 ELSE downlink
    /\ server' = [server EXCEPT !.pc = IF Tail(server.out) = <<>> THEN "recv" ELSE "handle",
                                !.out = Tail(@)]
    /\ UNCHANGED <<uplink, clients, handled>>

\* ConnectionError or OSError, which _serve_conn swallows.
RespondError ==
    /\ server.pc = "send" /\ ~ClientOpen
    /\ server' = [server EXCEPT !.pc = "closed"]
    /\ uplink' = <<>>
    /\ UNCHANGED <<downlink, clients, handled>>

\* The process ends, and with it the daemon thread.
ServerGone ==
    /\ ServerOpen
    /\ server' = [server EXCEPT !.pc = "closed"]
    /\ downlink' \in Prefixes(downlink) /\ uplink' = <<>>
    /\ UNCHANGED <<clients, handled>>

-----------------------------------------------------------------------------
ClientStep == ReadAnswer \/ RecvExactly \/ HeaderRead \/ PayloadRead \/ ClosedMidFrame

ServerStep ==
    Recv \/ RecvEnds \/ Extract \/ Fed \/ Handle \/ HandlerRaises \/ Respond \/ RespondError

Next == SendRequest \/ ClientStep \/ ClientGone \/ ServerStep \/ ServerGone

Spec == Init /\ [][Next]_vars

\* The client reads what it waits for, and the thread is scheduled.
FairSpec == Spec /\ WF_vars(ClientStep) /\ WF_vars(ServerStep)
-----------------------------------------------------------------------------
(* Properties *)

Byte ==
    ({"length"} \X Nat \X (1..LENGTH_PREFIX))
        \cup (UNION {{"request"} \X {m} \X (1..Sizes[m]) : m \in DOMAIN Sizes})
        \cup (UNION {{"answer"} \X {Payload(m)} \X (1..AnswerSize) : m \in DOMAIN Sizes})

\* Every variable has its type, and the client never reads past its frame.
TypeOK ==
    /\ uplink \in Seq(Byte) /\ downlink \in Seq(Byte)
    /\ nsent \in 0..Len(Sizes)
    /\ client \in [pc : {"ready", "header", "payload", "closed"}, buf : Seq(Byte), need : Nat]
    /\ Len(client.buf) =< client.need
    /\ got \in Seq(Seq(Byte)) /\ handled \in Seq(Seq(Byte))
    /\ server \in [pc : {"recv", "feed", "handle", "send", "closed"},
                   buf : Seq(Byte), out : Seq(Seq(Byte))]

Whole ==
    INSTANCE Exchange WITH Request <- {Payload(m) : m \in DOMAIN Sizes},
                           Answer <- Answer,
                           asked <- [m \in 1..nsent |-> Payload(m)]

\* However the stream is cut, requests are handled whole, in order and once, and
\* the answer to the n-th is the n-th payload the client reads.
ImplementsExchange == Whole!Spec

\* A request is answered, or its client sees the connection end.
Answered == \A m \in DOMAIN Sizes : nsent >= m ~> Len(got) >= m \/ ~ClientOpen
=============================================================================
