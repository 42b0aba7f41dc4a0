--------------------------- MODULE ConnectionProofs ---------------------------
(***************************************************************************)
(* What the framing keeps, for payloads of any number and length, pieces   *)
(* of any length and any window: the bytes that one side has not taken yet *)
(* are the frames it has not read yet, cut anywhere.                       *)
(***************************************************************************)
EXTENDS Connection, SequenceTheorems, TLAPS

FrameLen(p) == LENGTH_PREFIX + Len(p)

\* start[m] is where frame m starts, for the payloads ps from lo up to end,
\* which is not one of them.
Starts(start, ps, lo, end) ==
    /\ \A m \in lo..(end - 1) : start[m + 1] = start[m] + FrameLen(ps[m])
    /\ \A m, n \in lo..end : m =< n => start[m] =< start[n]

\* s is made of these frames up to a byte of one of them, or of all of them when
\* it is whole.
Cut(s, start, ps, lo, end, whole) ==
    /\ Len(s) =< start[end] - start[lo]
    /\ whole => Len(s) = start[end] - start[lo]
    /\ \A m \in lo..(end - 1) : \A k \in 1..FrameLen(ps[m]) :
          start[m] - start[lo] + k =< Len(s) =>
             s[start[m] - start[lo] + k] = encode_frame(ps[m])[k]

Framed(s, ps, lo, end, whole) ==
    \E start \in [Nat -> Nat] : Starts(start, ps, lo, end) /\ Cut(s, start, ps, lo, end, whole)

\* What each side sends over the whole connection.
Up == [m \in DOMAIN Sizes |-> Payload(m)]
Down == [m \in DOMAIN Sizes |-> Answer(Payload(m))]

-----------------------------------------------------------------------------
(* Sequences *)

LEMMA FrontRest ==
    ASSUME NEW S, NEW s \in Seq(S), NEW n \in Nat, n =< Len(s)
    PROVE  /\ Front(s, n) \in Seq(S) /\ Rest(s, n) \in Seq(S)
           /\ Len(Front(s, n)) = n /\ Len(Rest(s, n)) = Len(s) - n
           /\ \A i \in 1..n : Front(s, n)[i] = s[i]
           /\ \A i \in 1..(Len(s) - n) : Rest(s, n)[i] = s[n + i]
           /\ Front(s, n) \o Rest(s, n) = s
<1>0. Len(s) \in Nat /\ \A i \in 1..Len(s) : s[i] \in S
  BY LenProperties, ElementOfSeq
<1>1. /\ SubSeq(s, 1, n) \in Seq(S) /\ Len(SubSeq(s, 1, n)) = IF 1 =< n THEN n - 1 + 1 ELSE 0
      /\ \A i \in 1..(n - 1 + 1) : SubSeq(s, 1, n)[i] = s[1 + i - 1]
  <2>1. \A i \in 1..n : s[i] \in S
    BY <1>0
  <2> QED BY <2>1, SubSeqProperties
<1>2. /\ SubSeq(s, n + 1, Len(s)) \in Seq(S)
      /\ Len(SubSeq(s, n + 1, Len(s))) = IF n + 1 =< Len(s) THEN Len(s) - (n + 1) + 1 ELSE 0
      /\ \A i \in 1..(Len(s) - (n + 1) + 1) : SubSeq(s, n + 1, Len(s))[i] = s[n + 1 + i - 1]
  <2>1. \A i \in (n + 1)..Len(s) : s[i] \in S
    BY <1>0
  <2>2. n + 1 \in Int /\ Len(s) \in Int
    BY <1>0
  <2> QED BY <2>1, <2>2, SubSeqProperties
<1>3. SubSeq(s, 1, n) \o SubSeq(s, n + 1, Len(s)) = SubSeq(s, 1, Len(s))
  <2>1. 1 \in 1..(Len(s) + 1) /\ n \in (1 - 1)..Len(s) /\ Len(s) \in n..Len(s)
    BY <1>0
  <2> QED BY <2>1, ConcatAdjacentSubSeq
<1>4. SubSeq(s, 1, Len(s)) = s
  BY SubSeqFull
<1>5. Len(s) - (n + 1) + 1 = Len(s) - n /\ n - 1 + 1 = n
  BY <1>0
<1>6. /\ Front(s, n) \in Seq(S) /\ Len(Front(s, n)) = n
      /\ \A i \in 1..n : Front(s, n)[i] = s[i]
  <2>1. \A i \in 1..n : 1 + i - 1 = i
    OBVIOUS
  <2> QED BY <1>1, <1>5, <2>1 DEF Front
<1>7. /\ Rest(s, n) \in Seq(S) /\ Len(Rest(s, n)) = Len(s) - n
      /\ \A i \in 1..(Len(s) - n) : Rest(s, n)[i] = s[n + i]
  <2>1. \A i \in 1..(Len(s) - n) : n + 1 + i - 1 = n + i
    BY <1>0
  <2>2. Len(SubSeq(s, n + 1, Len(s))) = Len(s) - n
    BY <1>0, <1>2
  <2> QED BY <1>2, <1>5, <2>1, <2>2 DEF Rest
<1>8. Front(s, n) \o Rest(s, n) = s
  BY <1>3, <1>4 DEF Front, Rest
<1> QED BY <1>6, <1>7, <1>8

\* Bytes that one side takes from the stream stay where they are in what it has
\* and what is to come.
LEMMA TakenFromStream ==
    ASSUME NEW S, NEW b \in Seq(S), NEW s \in Seq(S), NEW n \in Nat, n =< Len(s)
    PROVE  /\ b \o Front(s, n) \in Seq(S) /\ Rest(s, n) \in Seq(S)
           /\ Len(b \o Front(s, n)) = Len(b) + n
           /\ (b \o Front(s, n)) \o Rest(s, n) = b \o s
<1>1. /\ Front(s, n) \in Seq(S) /\ Rest(s, n) \in Seq(S) /\ Len(Front(s, n)) = n
      /\ Front(s, n) \o Rest(s, n) = s
  BY FrontRest
<1>2. \A f, r \in Seq(S) : (b \o f) \o r = b \o (f \o r)
  BY ConcatAssociative
<1>3. \A f \in Seq(S) : b \o f \in Seq(S) /\ Len(b \o f) = Len(b) + Len(f)
  BY ConcatProperties
<1>4. b \o Front(s, n) \in Seq(S) /\ Len(b \o Front(s, n)) = Len(b) + n
  BY <1>1, <1>3, Zenon
<1>5. (b \o Front(s, n)) \o Rest(s, n) = b \o s
  <2>1. (b \o Front(s, n)) \o Rest(s, n) = b \o (Front(s, n) \o Rest(s, n))
    BY <1>1, <1>2, Zenon
  <2> QED BY <1>1, <2>1, Zenon
<1> QED BY <1>1, <1>4, <1>5, Zenon

\* r is s up to some byte.
Starting(r, s) == Len(r) =< Len(s) /\ \A i \in 1..Len(r) : r[i] = s[i]

LEMMA PrefixesOf ==
    ASSUME NEW S, NEW s \in Seq(S), NEW r \in Prefixes(s)
    PROVE  r \in Seq(S) /\ Starting(r, s)
<1>1. PICK k \in 0..Len(s) : r = Front(s, k)
  BY DEF Prefixes
<1>2. k \in Nat /\ k =< Len(s) /\ Len(s) \in Nat
  BY LenProperties
<1>3. /\ Front(s, k) \in Seq(S) /\ Len(Front(s, k)) = k
      /\ \A i \in 1..k : Front(s, k)[i] = s[i]
  BY <1>2, FrontRest
<1> QED BY <1>1, <1>2, <1>3 DEF Starting

LEMMA PiecesOf ==
    ASSUME NEW S, NEW s \in Seq(S), NEW m \in Int, NEW n \in Pieces(s, m)
    PROVE  n \in Nat /\ 0 < n /\ n =< Len(s) /\ n =< m
<1>1. Len(s) \in Nat
  BY LenProperties
<1> QED BY <1>1 DEF Pieces

-----------------------------------------------------------------------------
(* Frames *)

LEMMA FunctionIsSequence ==
    ASSUME NEW S, NEW n \in Nat, NEW f \in [1..n -> S]
    PROVE  f \in Seq(S) /\ Len(f) = n
<1>1. f \in Seq(S)
  BY SeqDef
<1>2. Len(f) \in Nat /\ DOMAIN f = 1..Len(f)
  BY <1>1, LenProperties
<1>3. DOMAIN f = 1..n
  OBVIOUS
<1>4. Len(f) = n
  BY <1>2, <1>3
<1> QED BY <1>1, <1>4

LEMMA HeaderIs ==
    ASSUME NEW n \in Nat
    PROVE  /\ Header(n) \in Seq(Byte) /\ Len(Header(n)) = LENGTH_PREFIX
           /\ \A k \in 1..LENGTH_PREFIX : Header(n)[k] = <<"length", n, k>>
<1>0. LENGTH_PREFIX \in Nat
  BY ConnectionAssumption
<1>1. Header(n) \in [1..LENGTH_PREFIX -> Byte]
  BY DEF Header, Byte
<1>2. \A k \in 1..LENGTH_PREFIX : Header(n)[k] = <<"length", n, k>>
  BY DEF Header
<1> QED BY <1>0, <1>1, <1>2, FunctionIsSequence

LEMMA PayloadIs ==
    ASSUME NEW m \in DOMAIN Sizes
    PROVE  Payload(m) \in Seq(Byte)
<1>1. Sizes[m] \in Nat
  BY ConnectionAssumption, ElementOfSeq, LenProperties
<1>2. \A k \in 1..Sizes[m] : <<"request", m, k>> \in Byte
  <2>1. {"request"} \X {m} \X (1..Sizes[m]) \subseteq Byte
    BY DEF Byte
  <2> QED BY <2>1
<1>3. Payload(m) \in [1..Sizes[m] -> Byte]
  BY <1>2 DEF Payload
<1> QED BY <1>1, <1>3, FunctionIsSequence

LEMMA AnswerIs ==
    ASSUME NEW m \in DOMAIN Sizes
    PROVE  Answer(Payload(m)) \in Seq(Byte)
<1>1. AnswerSize \in Nat
  BY ConnectionAssumption
<1>2. \A k \in 1..AnswerSize : <<"answer", Payload(m), k>> \in Byte
  <2>1. {"answer"} \X {Payload(m)} \X (1..AnswerSize) \subseteq Byte
    BY DEF Byte
  <2> QED BY <2>1
<1>3. Answer(Payload(m)) \in [1..AnswerSize -> Byte]
  BY <1>2 DEF Answer
<1> QED BY <1>1, <1>3, FunctionIsSequence

LEMMA FrameIs ==
    ASSUME NEW p \in Seq(Byte)
    PROVE  /\ Len(p) \in Nat /\ FrameLen(p) \in Nat /\ FrameLen(p) = LENGTH_PREFIX + Len(p)
           /\ encode_frame(p) \in Seq(Byte) /\ Len(encode_frame(p)) = FrameLen(p)
           /\ \A k \in 1..LENGTH_PREFIX : encode_frame(p)[k] = <<"length", Len(p), k>>
           /\ \A k \in 1..Len(p) : encode_frame(p)[LENGTH_PREFIX + k] = p[k]
<1>0. LENGTH_PREFIX \in Nat /\ Len(p) \in Nat
  BY ConnectionAssumption, LenProperties
<1>1. /\ Header(Len(p)) \in Seq(Byte) /\ Len(Header(Len(p))) = LENGTH_PREFIX
      /\ \A k \in 1..LENGTH_PREFIX : Header(Len(p))[k] = <<"length", Len(p), k>>
  BY <1>0, HeaderIs
<1>2. \A h \in Seq(Byte) :
         /\ h \o p \in Seq(Byte) /\ Len(h \o p) = Len(h) + Len(p)
         /\ \A i \in 1..(Len(h) + Len(p)) :
               (h \o p)[i] = IF i =< Len(h) THEN h[i] ELSE p[i - Len(h)]
  BY ConcatProperties
<1>3. /\ encode_frame(p) \in Seq(Byte) /\ Len(encode_frame(p)) = LENGTH_PREFIX + Len(p)
      /\ \A i \in 1..(LENGTH_PREFIX + Len(p)) :
            encode_frame(p)[i] = IF i =< LENGTH_PREFIX THEN Header(Len(p))[i]
                                                      ELSE p[i - LENGTH_PREFIX]
  BY <1>1, <1>2, Zenon DEF encode_frame
<1>4. \A k \in 1..LENGTH_PREFIX : encode_frame(p)[k] = <<"length", Len(p), k>>
  BY <1>0, <1>1, <1>3
<1>5. \A k \in 1..Len(p) : encode_frame(p)[LENGTH_PREFIX + k] = p[k]
  <2>1. \A j \in 1..(LENGTH_PREFIX + Len(p)) :
           ~(j =< LENGTH_PREFIX) => encode_frame(p)[j] = p[j - LENGTH_PREFIX]
    BY <1>3
  <2> SUFFICES ASSUME NEW k \in 1..Len(p), NEW j, j = LENGTH_PREFIX + k
               PROVE  encode_frame(p)[j] = p[k]
    OBVIOUS
  <2>2. j \in 1..(LENGTH_PREFIX + Len(p)) /\ ~(j =< LENGTH_PREFIX) /\ j - LENGTH_PREFIX = k
    BY <1>0
  <2> QED BY <2>1, <2>2, Zenon
<1> QED BY <1>0, <1>3, <1>4, <1>5 DEF FrameLen

-----------------------------------------------------------------------------
(* Streams *)

Bytes(s) == s \in Seq(Byte)
HasLen(s, n) == n \in Nat /\ Len(s) = n

\* The payloads from lo up to end are sequences of bytes.
Payloads(ps, lo, end) ==
    lo \in Nat /\ end \in Nat /\ lo =< end /\ \A m \in lo..(end - 1) : Bytes(ps[m])

LEMMA LensOf ==
    ASSUME NEW ps, NEW lo, NEW end, Payloads(ps, lo, end)
    PROVE  \A m \in lo..(end - 1) : Len(ps[m]) \in Nat /\ FrameLen(ps[m]) \in Nat
<1> TAKE m \in lo..(end - 1)
<1>1. ps[m] \in Seq(Byte)
  BY DEF Payloads, Bytes
<1> QED BY <1>1, FrameIs

\* A stream on which nothing was sent.
LEMMA FramedEmpty ==
    ASSUME NEW ps
    PROVE  Framed(<<>>, ps, 1, 1, TRUE)
<1> DEFINE start == [n \in Nat |-> 0]
<1>1. start \in [Nat -> Nat] /\ \A n \in Nat : start[n] = 0
  OBVIOUS
<1> HIDE DEF start
<1>2. Starts(start, ps, 1, 1)
  BY <1>1 DEF Starts
<1>3. Cut(<<>>, start, ps, 1, 1, TRUE)
  BY <1>1 DEF Cut
<1> QED BY <1>1, <1>2, <1>3 DEF Framed

\* Starts that go on after start with one more frame, of length size.
Longer(more, start, ps, lo, end, size) ==
    /\ \A m \in lo..end : more[m] = start[m]
    /\ more[end + 1] = start[end] + size
    /\ Starts(more, ps, lo, end + 1)

\* One more frame starts where the last one ends.
LEMMA NextStart ==
    ASSUME NEW ps, NEW lo \in Nat, NEW end \in Nat, lo =< end,
           NEW size \in Nat, size = FrameLen(ps[end]),
           NEW start \in [Nat -> Nat], Starts(start, ps, lo, end)
    PROVE  \E more \in [Nat -> Nat] : Longer(more, start, ps, lo, end, size)
<1> DEFINE more == [start EXCEPT ![end + 1] = start[end] + size]
<1>0. end + 1 \in Nat /\ start[end] \in Nat
  OBVIOUS
<1>1. /\ more \in [Nat -> Nat]
      /\ \A m \in lo..end : more[m] = start[m]
      /\ more[end + 1] = start[end] + size
  <2>1. \A m \in lo..end : m \in Nat /\ m # end + 1
    BY <1>0
  <2>2. start[end] + size \in Nat
    BY <1>0
  <2> QED BY <1>0, <2>1, <2>2
<1> HIDE DEF more
<1>2. \A m \in lo..end : more[m + 1] = more[m] + FrameLen(ps[m])
  <2> TAKE m \in lo..end
  <2>1. CASE m = end
    <3>1. end \in lo..end
      BY <1>0
    <3> QED BY <1>1, <2>1, <3>1
  <2>2. CASE m # end
    <3>1. m \in lo..(end - 1) /\ m + 1 \in lo..end
      BY <1>0, <2>2
    <3>2. start[m + 1] = start[m] + FrameLen(ps[m])
      BY <3>1 DEF Starts
    <3> QED BY <1>1, <3>1, <3>2
  <2> QED BY <2>1, <2>2
<1>3. \A m, n \in lo..(end + 1) : m =< n => more[m] =< more[n]
  <2> SUFFICES ASSUME NEW m \in lo..(end + 1), NEW n \in lo..(end + 1), m =< n
               PROVE  more[m] =< more[n]
    OBVIOUS
  <2>0. m \in Nat /\ n \in Nat
    BY <1>0
  <2>1. more[m] \in Nat /\ more[n] \in Nat /\ start[m] \in Nat
    BY <1>1, <2>0
  <2>2. CASE n # end + 1
    <3>1. m \in lo..end /\ n \in lo..end
      BY <1>0, <2>2
    <3> QED BY <1>1, <3>1 DEF Starts
  <2>3. CASE n = end + 1 /\ m # end + 1
    <3>1. m \in lo..end /\ end \in lo..end /\ m =< end
      BY <1>0, <2>3
    <3>2. start[m] =< start[end]
      BY <3>1 DEF Starts
    <3> QED BY <1>0, <1>1, <2>1, <2>3, <3>1, <3>2
  <2>4. CASE n = end + 1 /\ m = end + 1
    <3>1. more[m] = more[n]
      BY <2>4
    <3> QED BY <2>1, <3>1
  <2> QED BY <2>2, <2>3, <2>4
<1>4. (end + 1) - 1 = end
  BY <1>0
<1>5. Starts(more, ps, lo, end + 1)
  BY <1>2, <1>3, <1>4 DEF Starts
<1> QED BY <1>1, <1>5 DEF Longer

\* A peer that is gone has sent the frames it sent, or fewer.
LEMMA FramedMore ==
    ASSUME NEW ps, NEW lo, NEW end, Payloads(ps, lo, end), Bytes(ps[end]),
           NEW s, Bytes(s), NEW whole, Framed(s, ps, lo, end, whole)
    PROVE  Framed(s, ps, lo, end + 1, FALSE)
<1>0. PICK size \in Nat : size = FrameLen(ps[end])
  BY FrameIs DEF Bytes
<1>1. PICK start \in [Nat -> Nat] : Starts(start, ps, lo, end) /\ Cut(s, start, ps, lo, end, whole)
  BY DEF Framed
<1>a. lo \in Nat /\ end \in Nat /\ lo =< end
  BY DEF Payloads
<1>2. PICK more \in [Nat -> Nat] : Longer(more, start, ps, lo, end, size)
  BY <1>0, <1>1, <1>a, NextStart
<1>b. Len(s) \in Nat
  BY LenProperties DEF Bytes
<1>3. start[lo] \in Nat /\ start[end] \in Nat /\ lo \in lo..end
  BY <1>a
<1>4. Len(s) =< start[end] - start[lo]
  BY <1>1 DEF Cut
<1>5. Len(s) =< more[end + 1] - more[lo]
  <2>1. more[end + 1] = start[end] + size /\ more[lo] = start[lo]
    BY <1>2, <1>3, Zenon DEF Longer
  <2>2. \A a, b, c, n \in Nat : n =< a - b => n =< (a + c) - b
    OBVIOUS
  <2> QED BY <1>b, <1>3, <1>4, <2>1, <2>2, Zenon
<1>6. \A m \in lo..end : \A k \in 1..FrameLen(ps[m]) :
         more[m] - more[lo] + k =< Len(s) => s[more[m] - more[lo] + k] = encode_frame(ps[m])[k]
  <2> SUFFICES ASSUME NEW m \in lo..end, NEW k \in 1..FrameLen(ps[m]),
                      more[m] - more[lo] + k =< Len(s)
               PROVE  s[more[m] - more[lo] + k] = encode_frame(ps[m])[k]
    OBVIOUS
  <2>1. more[m] = start[m] /\ more[lo] = start[lo] /\ start[m] \in Nat /\ k \in Nat /\ 0 < k
    BY <1>a, <1>2, <1>3 DEF Longer
  <2>2. m # end
    BY <1>a, <1>b, <1>3, <1>4, <2>1
  <2>3. m \in lo..(end - 1)
    BY <1>a, <2>2
  <2> QED BY <1>1, <2>1, <2>3 DEF Cut
<1>7. (end + 1) - 1 = end
  BY <1>a
<1>8. Cut(s, more, ps, lo, end + 1, FALSE)
  <2>1. \A m \in lo..((end + 1) - 1) : \A k \in 1..FrameLen(ps[m]) :
           more[m] - more[lo] + k =< Len(s) =>
              s[more[m] - more[lo] + k] = encode_frame(ps[m])[k]
    BY <1>6, <1>7, Zenon
  <2> QED BY <1>5, <2>1, Zenon DEF Cut
<1> QED BY <1>2, <1>8 DEF Framed, Longer

\* sendall of one more frame.
LEMMA FramedSend ==
    ASSUME NEW ps, NEW lo, NEW end, Payloads(ps, lo, end), Bytes(ps[end]),
           NEW s, Bytes(s), Framed(s, ps, lo, end, TRUE)
    PROVE  Framed(s \o encode_frame(ps[end]), ps, lo, end + 1, TRUE)
<1>0. PICK size \in Nat : size = FrameLen(ps[end])
  BY FrameIs DEF Bytes
<1>1. PICK start \in [Nat -> Nat] : Starts(start, ps, lo, end) /\ Cut(s, start, ps, lo, end, TRUE)
  BY DEF Framed
<1>a. lo \in Nat /\ end \in Nat /\ lo =< end
  BY DEF Payloads
<1>2. PICK more \in [Nat -> Nat] : Longer(more, start, ps, lo, end, size)
  BY <1>0, <1>1, <1>a, NextStart
<1>b. PICK n \in Nat : n = Len(s)
  BY LenProperties DEF Bytes
<1> DEFINE e == encode_frame(ps[end])
<1>c. Bytes(e) /\ Len(e) = size
  BY <1>0, FrameIs DEF Bytes
<1> HIDE DEF e
<1>d. Len(s \o e) = n + size /\ \A i \in 1..(n + size) : (s \o e)[i] = IF i =< n THEN s[i] ELSE e[i - n]
  BY <1>b, <1>c, ConcatProperties DEF Bytes
<1> DEFINE t == s \o e
<1> HIDE DEF t
<1>e. Len(t) = n + size /\ \A i \in 1..(n + size) : t[i] = IF i =< n THEN s[i] ELSE e[i - n]
  BY <1>d DEF t
<1>3. start[lo] \in Nat /\ start[end] \in Nat /\ lo \in lo..end
  BY <1>a
<1>4. n = start[end] - start[lo]
  BY <1>1, <1>b DEF Cut
<1>5. n + size = more[end + 1] - more[lo]
  <2>1. more[end + 1] = start[end] + size /\ more[lo] = start[lo]
    BY <1>2, <1>3, Zenon DEF Longer
  <2> QED BY <1>3, <1>4, <2>1
<1>6. \A m \in lo..end : \A k \in 1..FrameLen(ps[m]) :
         t[more[m] - more[lo] + k] = encode_frame(ps[m])[k]
  <2> SUFFICES ASSUME NEW m \in lo..end, NEW k \in 1..FrameLen(ps[m])
               PROVE  t[more[m] - more[lo] + k] = encode_frame(ps[m])[k]
    OBVIOUS
  <2>1. more[m] = start[m] /\ more[lo] = start[lo] /\ start[m] \in Nat /\ k \in Nat /\ 0 < k
    BY <1>a, <1>2, <1>3 DEF Longer
  <2>2. CASE m = end
    <3>1. k \in 1..size /\ encode_frame(ps[m])[k] = e[k]
      BY <1>0, <2>2 DEF e
    <3>2. more[m] - more[lo] + k = n + k
      BY <1>4, <2>1, <2>2, Zenon
    <3>3. n + k \in 1..(n + size) /\ ~(n + k =< n) /\ (n + k) - n = k
      BY <3>1
    <3>4. t[n + k] = e[k]
      BY <1>e, <3>3
    <3> QED BY <3>1, <3>2, <3>4
  <2>3. CASE m # end
    <3>1. m \in lo..(end - 1) /\ m + 1 \in lo..end /\ end \in lo..end /\ m + 1 =< end
      BY <1>a, <2>3
    <3>2. PICK len : len = FrameLen(ps[m])
      OBVIOUS
    <3>3. start[m + 1] = start[m] + len /\ start[m + 1] =< start[end] /\ start[lo] =< start[m]
      <4>1. lo \in lo..end /\ m \in lo..end /\ lo =< m
        BY <1>a
      <4> QED BY <1>1, <3>1, <3>2, <4>1 DEF Starts
    <3>4. len \in Int
      BY <3>1, <3>2, LensOf
    <3>5. k =< len /\ start[m] - start[lo] + k =< n /\ 0 < start[m] - start[lo] + k
      BY <1>3, <1>4, <2>1, <3>2, <3>3, <3>4
    <3>6. PICK i : i = start[m] - start[lo] + k
      OBVIOUS
    <3>7. i \in 1..(n + size) /\ i =< n
      BY <1>3, <2>1, <3>5, <3>6
    <3>8. t[i] = s[i]
      BY <1>e, <3>7
    <3>9. s[start[m] - start[lo] + k] = encode_frame(ps[m])[k]
      BY <1>1, <1>b, <3>1, <3>5 DEF Cut
    <3> QED BY <2>1, <3>6, <3>8, <3>9
  <2> QED BY <2>2, <2>3
<1>7. (end + 1) - 1 = end
  BY <1>a
<1>8. Cut(t, more, ps, lo, end + 1, TRUE)
  <2>1. \A m \in lo..((end + 1) - 1) : \A k \in 1..FrameLen(ps[m]) :
           more[m] - more[lo] + k =< Len(t) =>
              t[more[m] - more[lo] + k] = encode_frame(ps[m])[k]
    BY <1>6, <1>7, Zenon
  <2>2. Len(t) =< more[end + 1] - more[lo] /\ Len(t) = more[end + 1] - more[lo]
    BY <1>5, <1>e
  <2> QED BY <2>1, <2>2, Zenon DEF Cut
<1> QED BY <1>2, <1>8 DEF Framed, Longer, t, e

\* Only the first bytes arrive.
LEMMA FramedPrefix ==
    ASSUME NEW ps, NEW lo, NEW end, NEW whole, NEW s, Bytes(s), Framed(s, ps, lo, end, whole),
           Payloads(ps, lo, end), NEW r, Bytes(r), Starting(r, s)
    PROVE  Framed(r, ps, lo, end, FALSE)
<1>1. PICK start \in [Nat -> Nat] : Starts(start, ps, lo, end) /\ Cut(s, start, ps, lo, end, whole)
  BY DEF Framed
<1>2. Len(r) \in Nat /\ Len(s) \in Nat /\ Len(r) =< Len(s)
  BY LenProperties DEF Bytes, Starting
<1>a. PICK n \in Nat : n = Len(r)
  BY <1>2
<1>3. \A i \in 1..n : r[i] = s[i]
  BY <1>a DEF Starting
<1>4. lo \in Nat /\ end \in Nat /\ lo =< end /\ start[lo] \in Nat /\ start[end] \in Nat
  BY DEF Payloads
<1>5. Len(r) =< start[end] - start[lo]
  <2>1. Len(s) =< start[end] - start[lo]
    BY <1>1 DEF Cut
  <2> QED BY <1>2, <1>4, <2>1
<1>6. \A m \in lo..(end - 1) : \A k \in 1..FrameLen(ps[m]) :
         start[m] - start[lo] + k =< n => r[start[m] - start[lo] + k] = encode_frame(ps[m])[k]
  <2> SUFFICES ASSUME NEW m \in lo..(end - 1), NEW k \in 1..FrameLen(ps[m]),
                      start[m] - start[lo] + k =< n
               PROVE  r[start[m] - start[lo] + k] = encode_frame(ps[m])[k]
    OBVIOUS
  <2>1. start[m] \in Nat /\ k \in Nat /\ 0 < k
    BY <1>4
  <2>2. start[lo] =< start[m]
    <3>1. lo \in lo..end /\ m \in lo..end /\ lo =< m
      BY <1>4
    <3> QED BY <1>1, <3>1 DEF Starts
  <2>3. start[m] - start[lo] + k \in 1..n
    BY <1>4, <2>1, <2>2
  <2>4. start[m] - start[lo] + k =< Len(s)
    BY <1>2, <1>4, <1>a, <2>1, <2>3
  <2>5. s[start[m] - start[lo] + k] = encode_frame(ps[m])[k]
    BY <1>1, <2>4 DEF Cut
  <2> QED BY <1>3, <2>3, <2>5
<1>7. Cut(r, start, ps, lo, end, FALSE)
  BY <1>5, <1>6, <1>a, Zenon DEF Cut
<1> QED BY <1>1, <1>7 DEF Framed

\* The first bytes are the length of the first payload.
LEMMA FramedFirst ==
    ASSUME NEW ps, NEW lo, NEW end, NEW whole, NEW s, Bytes(s), Framed(s, ps, lo, end, whole),
           Payloads(ps, lo, end), NEW n \in Nat, HasLen(s, n), n >= LENGTH_PREFIX
    PROVE  /\ lo < end /\ Bytes(ps[lo]) /\ Len(ps[lo]) \in Nat
           /\ \A k \in 1..LENGTH_PREFIX : s[k] = <<"length", Len(ps[lo]), k>>
<1>1. PICK start \in [Nat -> Nat] : Starts(start, ps, lo, end) /\ Cut(s, start, ps, lo, end, whole)
  BY DEF Framed
<1>2. lo \in Nat /\ end \in Nat /\ lo =< end /\ start[lo] \in Nat /\ start[end] \in Nat
  BY DEF Payloads
<1>3. LENGTH_PREFIX \in Nat /\ 0 < LENGTH_PREFIX
  BY ConnectionAssumption
<1>4. lo < end
  <2>1. n =< start[end] - start[lo]
    BY <1>1 DEF Cut, HasLen
  <2> QED BY <1>2, <1>3, <2>1
<1>5. lo \in lo..(end - 1)
  BY <1>2, <1>4
<1>6. Bytes(ps[lo])
  BY <1>5 DEF Payloads
<1>7. PICK len \in Nat : HasLen(ps[lo], len) /\ FrameLen(ps[lo]) = LENGTH_PREFIX + len
  BY <1>6, FrameIs DEF Bytes, HasLen
<1>8. \A k \in 1..LENGTH_PREFIX : encode_frame(ps[lo])[k] = <<"length", len, k>>
  BY <1>6, <1>7, FrameIs DEF Bytes, HasLen
<1>9. \A k \in 1..LENGTH_PREFIX : s[k] = encode_frame(ps[lo])[k]
  <2> TAKE k \in 1..LENGTH_PREFIX
  <2>1. k \in 1..FrameLen(ps[lo]) /\ start[lo] - start[lo] + k = k /\ k =< n
    BY <1>2, <1>3, <1>7
  <2> QED BY <1>1, <1>5, <2>1 DEF Cut, HasLen
<1> QED BY <1>4, <1>6, <1>7, <1>8, <1>9 DEF HasLen

\* The first frame is taken off the stream, of which the rest is framed as before.
LEMMA FramedNext ==
    ASSUME NEW ps, NEW lo, NEW end, NEW whole, NEW s, Bytes(s), Framed(s, ps, lo, end, whole),
           Payloads(ps, lo, end), NEW n \in Nat, HasLen(s, n), lo < end,
           NEW len \in Nat, HasLen(ps[lo], len), n >= LENGTH_PREFIX + len
    PROVE  /\ SubSeq(s, LENGTH_PREFIX + 1, LENGTH_PREFIX + len) = ps[lo]
           /\ Bytes(Rest(s, LENGTH_PREFIX + len))
           /\ Framed(Rest(s, LENGTH_PREFIX + len), ps, lo + 1, end, whole)
           /\ Payloads(ps, lo + 1, end)
<1>1. PICK start \in [Nat -> Nat] : Starts(start, ps, lo, end) /\ Cut(s, start, ps, lo, end, whole)
  BY DEF Framed
<1>2. /\ lo \in Nat /\ end \in Nat /\ lo =< end /\ start[lo] \in Nat /\ start[end] \in Nat
      /\ start[lo + 1] \in Nat /\ LENGTH_PREFIX \in Nat
  <2>1. lo \in Nat /\ end \in Nat /\ lo =< end
    BY DEF Payloads
  <2>2. LENGTH_PREFIX \in Nat
    BY ConnectionAssumption
  <2> QED BY <2>1, <2>2
<1>3. lo \in lo..(end - 1)
  BY <1>2
<1>4. Bytes(ps[lo])
  BY <1>3 DEF Payloads
<1>5. FrameLen(ps[lo]) = LENGTH_PREFIX + len
  BY <1>4, FrameIs DEF Bytes, HasLen
<1>6. PICK size \in Nat : size = LENGTH_PREFIX + len
  BY <1>2, <1>5
<1>7. \A k \in 1..size : s[k] = encode_frame(ps[lo])[k]
  <2> TAKE k \in 1..size
  <2>1. k \in 1..FrameLen(ps[lo]) /\ start[lo] - start[lo] + k = k /\ k =< n
    BY <1>2, <1>5, <1>6
  <2> QED BY <1>1, <1>3, <2>1 DEF Cut, HasLen
<1>8. SubSeq(s, LENGTH_PREFIX + 1, size) = ps[lo]
  <2> DEFINE sub == SubSeq(s, LENGTH_PREFIX + 1, size)
  <2>1. \A i \in (LENGTH_PREFIX + 1)..size : s[i] \in Byte
    <3>1. \A i \in 1..n : s[i] \in Byte
      BY ElementOfSeq DEF Bytes, HasLen
    <3>2. \A i \in (LENGTH_PREFIX + 1)..size : i \in 1..n
      BY <1>2, <1>6
    <3> QED BY <3>1, <3>2
  <2>2. /\ sub \in Seq(Byte)
        /\ Len(sub) = IF LENGTH_PREFIX + 1 =< size THEN size - (LENGTH_PREFIX + 1) + 1 ELSE 0
        /\ \A i \in 1..(size - (LENGTH_PREFIX + 1) + 1) : sub[i] = s[LENGTH_PREFIX + 1 + i - 1]
    <3>1. LENGTH_PREFIX + 1 \in Int /\ size \in Int
      BY <1>2
    <3> QED BY <2>1, <3>1, SubSeqProperties
  <2> HIDE DEF sub
  <2>3. size - (LENGTH_PREFIX + 1) + 1 = len
    BY <1>2, <1>5, <1>6
  <2>4. Len(sub) = len
    BY <1>2, <1>5, <1>6, <2>2, <2>3
  <2>5. \A i \in 1..len : sub[i] = ps[lo][i]
    <3> TAKE i \in 1..len
    <3>1. LENGTH_PREFIX + 1 + i - 1 = LENGTH_PREFIX + i /\ LENGTH_PREFIX + i \in 1..size
      BY <1>2, <1>5, <1>6
    <3>2. sub[i] = s[LENGTH_PREFIX + i]
      BY <2>2, <2>3, <3>1
    <3>3. s[LENGTH_PREFIX + i] = encode_frame(ps[lo])[LENGTH_PREFIX + i]
      BY <1>7, <3>1
    <3>4. encode_frame(ps[lo])[LENGTH_PREFIX + i] = ps[lo][i]
      BY <1>4, FrameIs DEF Bytes, HasLen
    <3> QED BY <3>2, <3>3, <3>4
  <2>6. sub = ps[lo]
    <3>1. \A p \in Seq(Byte) : Len(sub) = Len(p) /\ (\A i \in 1..Len(sub) : sub[i] = p[i]) => sub = p
      BY <2>2, SeqEqual
    <3> QED BY <1>4, <2>4, <2>5, <3>1, Zenon DEF Bytes, HasLen
  <2> QED BY <2>6 DEF sub
<1>9. PICK r : r = Rest(s, size)
  OBVIOUS
<1>10. PICK left \in Nat : left = n - size
  BY <1>6
<1>11. Bytes(r) /\ Len(r) = left /\ \A i \in 1..left : r[i] = s[size + i]
  <2>1. size =< n
    BY <1>6
  <2>2. /\ Rest(s, size) \in Seq(Byte) /\ Len(Rest(s, size)) = n - size
        /\ \A i \in 1..(n - size) : Rest(s, size)[i] = s[size + i]
    BY <2>1, FrontRest DEF Bytes, HasLen
  <2> QED BY <1>9, <1>10, <2>2 DEF Bytes
<1>12. start[lo + 1] = start[lo] + size
  BY <1>1, <1>3, <1>5, <1>6 DEF Starts
<1>13. Starts(start, ps, lo + 1, end)
  <2>1. (lo + 1)..(end - 1) \subseteq lo..(end - 1) /\ (lo + 1)..end \subseteq lo..end
    BY <1>2
  <2> QED BY <1>1, <2>1 DEF Starts
<1>14. left =< start[end] - start[lo + 1] /\ (whole => left = start[end] - start[lo + 1])
  <2>1. n =< start[end] - start[lo] /\ (whole => n = start[end] - start[lo])
    BY <1>1 DEF Cut, HasLen
  <2> QED BY <1>2, <1>10, <1>12, <2>1
<1>15. \A m \in (lo + 1)..(end - 1) : \A k \in 1..FrameLen(ps[m]) :
          start[m] - start[lo + 1] + k =< left =>
             r[start[m] - start[lo + 1] + k] = encode_frame(ps[m])[k]
  <2> SUFFICES ASSUME NEW m \in (lo + 1)..(end - 1), NEW k \in 1..FrameLen(ps[m]),
                      start[m] - start[lo + 1] + k =< left
               PROVE  r[start[m] - start[lo + 1] + k] = encode_frame(ps[m])[k]
    OBVIOUS
  <2>1. start[m] \in Nat /\ k \in Nat /\ 0 < k /\ m \in lo..(end - 1)
    BY <1>2
  <2>2. start[lo + 1] =< start[m]
    <3>1. lo + 1 \in lo..end /\ m \in lo..end /\ lo + 1 =< m
      BY <1>2
    <3> QED BY <1>1, <3>1 DEF Starts
  <2>3. start[m] - start[lo + 1] + k \in 1..left
    BY <1>2, <2>1, <2>2
  <2>4. size + (start[m] - start[lo + 1] + k) = start[m] - start[lo] + k
    BY <1>2, <1>12, <2>1
  <2>5. start[m] - start[lo] + k =< n
    BY <1>2, <1>10, <2>1, <2>3, <2>4
  <2>6. s[start[m] - start[lo] + k] = encode_frame(ps[m])[k]
    BY <1>1, <2>1, <2>5 DEF Cut, HasLen
  <2> QED BY <1>11, <2>3, <2>4, <2>6
<1>16. Cut(r, start, ps, lo + 1, end, whole)
  BY <1>11, <1>14, <1>15, Zenon DEF Cut
<1>17. Payloads(ps, lo + 1, end)
  <2>1. (lo + 1)..(end - 1) \subseteq lo..(end - 1) /\ lo + 1 =< end /\ lo + 1 \in Nat
    BY <1>2
  <2> QED BY <2>1 DEF Payloads
<1> QED BY <1>6, <1>8, <1>9, <1>11, <1>13, <1>16, <1>17 DEF Framed

-----------------------------------------------------------------------------
(* The two streams *)

LEMMA SizesAre == Len(Sizes) \in Nat /\ DOMAIN Sizes = 1..Len(Sizes)
BY ConnectionAssumption, LenProperties

LEMMA PayloadsSent ==
    ASSUME NEW lo, NEW end, NEW size, HasLen(Sizes, size),
           lo \in Nat, end \in Nat, 0 < lo, lo =< end, end =< size + 1
    PROVE  Payloads(Up, lo, end) /\ Payloads(Down, lo, end)
<1>0. size \in Nat
  BY DEF HasLen
<1>1. DOMAIN Sizes = 1..size
  BY SizesAre DEF HasLen
<1>2. ASSUME NEW m \in lo..(end - 1)
      PROVE  Bytes(Up[m]) /\ Bytes(Down[m])
  <2>1. m \in DOMAIN Sizes
    BY <1>0, <1>1
  <2>2. Up[m] = Payload(m) /\ Down[m] = Answer(Payload(m))
    BY <2>1 DEF Up, Down
  <2> QED BY <2>1, <2>2, PayloadIs, AnswerIs DEF Bytes
<1> QED BY <1>2 DEF Payloads

\* What the server holds and has not received, when ans requests were answered,
\* nout others are in out, and the client has sent some.
UpAt(stream, out, ans, nout, sent, open) ==
    /\ ans + nout =< sent
    /\ \A j \in 1..nout : out[j] = Payload(ans + j)
    /\ Framed(stream, Up, (ans + nout) + 1, sent + 1, open)

\* What the client holds and has not received, when it has ngot of ans answers.
DownAt(stream, ngot, ans, open) ==
    ngot =< ans /\ Framed(stream, Down, ngot + 1, ans + 1, open)

LEMMA UpSend ==
    ASSUME NEW size, HasLen(Sizes, size), NEW ans \in Nat, NEW nout \in Nat, NEW sent \in Nat,
           sent < size, NEW stream, Bytes(stream), NEW out,
           UpAt(stream, out, ans, nout, sent, TRUE)
    PROVE  UpAt(stream \o encode_frame(Payload(sent + 1)), out, ans, nout, sent + 1, TRUE)
<1>0. size \in Nat
  BY DEF HasLen
<1>1. ans + nout =< sent
  BY DEF UpAt
<1>2. Payloads(Up, (ans + nout) + 1, sent + 1)
  <2>1. /\ (ans + nout) + 1 \in Nat /\ sent + 1 \in Nat /\ 0 < (ans + nout) + 1
        /\ (ans + nout) + 1 =< sent + 1 /\ sent + 1 =< size + 1
    BY <1>0, <1>1
  <2> QED BY <2>1, PayloadsSent
<1>3. sent + 1 \in DOMAIN Sizes
  <2>1. DOMAIN Sizes = 1..size
    BY SizesAre DEF HasLen
  <2> QED BY <1>0, <2>1
<1>4. Up[sent + 1] = Payload(sent + 1) /\ Bytes(Up[sent + 1])
  BY <1>3, PayloadIs DEF Up, Bytes
<1>5. Framed(stream, Up, (ans + nout) + 1, sent + 1, TRUE)
  BY DEF UpAt
<1>6. Framed(stream \o encode_frame(Up[sent + 1]), Up, (ans + nout) + 1, (sent + 1) + 1, TRUE)
  BY <1>2, <1>4, <1>5, FramedSend
<1>7. ans + nout =< sent + 1
  BY <1>1
<1> QED BY <1>4, <1>6, <1>7, Zenon DEF UpAt

LEMMA UpPrefix ==
    ASSUME NEW size, HasLen(Sizes, size), NEW ans \in Nat, NEW nout \in Nat, NEW sent \in Nat,
           sent =< size, NEW stream, Bytes(stream), NEW out, NEW open,
           UpAt(stream, out, ans, nout, sent, open),
           NEW r, Bytes(r), Starting(r, stream)
    PROVE  UpAt(r, out, ans, nout, sent, FALSE)
<1>0. size \in Nat
  BY DEF HasLen
<1>1. ans + nout =< sent
  BY DEF UpAt
<1>2. Payloads(Up, (ans + nout) + 1, sent + 1)
  <2>1. /\ (ans + nout) + 1 \in Nat /\ sent + 1 \in Nat /\ 0 < (ans + nout) + 1
        /\ (ans + nout) + 1 =< sent + 1 /\ sent + 1 =< size + 1
    BY <1>0, <1>1
  <2> QED BY <2>1, PayloadsSent
<1>3. Framed(r, Up, (ans + nout) + 1, sent + 1, FALSE)
  BY <1>2, FramedPrefix DEF UpAt
<1> QED BY <1>3, Zenon DEF UpAt

\* The first frame of a stream of n bytes can be read, and be one more in out.
UpTakes(stream, n, out, ans, nout, sent, open) ==
    \E len \in Nat :
       /\ stream[1] = <<"length", len, 1>>
       /\ n >= LENGTH_PREFIX + len =>
             \A more :
                /\ \A j \in 1..nout : more[j] = out[j]
                /\ more[nout + 1] = SubSeq(stream, LENGTH_PREFIX + 1, LENGTH_PREFIX + len)
                => UpAt(Rest(stream, LENGTH_PREFIX + len), more, ans, nout + 1, sent, open)

\* feed takes a frame off the stream.
LEMMA UpFrame ==
    ASSUME NEW size, HasLen(Sizes, size), NEW ans \in Nat, NEW nout \in Nat, NEW sent \in Nat,
           sent =< size, NEW stream, Bytes(stream), NEW out, NEW open,
           UpAt(stream, out, ans, nout, sent, open),
           NEW n \in Nat, HasLen(stream, n), n >= LENGTH_PREFIX
    PROVE  UpTakes(stream, n, out, ans, nout, sent, open)
<1>0. size \in Nat /\ LENGTH_PREFIX \in Nat /\ 0 < LENGTH_PREFIX
  BY ConnectionAssumption DEF HasLen
<1>1. ans + nout =< sent
  BY DEF UpAt
<1> DEFINE lo == (ans + nout) + 1
<1>2. Payloads(Up, lo, sent + 1)
  <2>1. lo \in Nat /\ sent + 1 \in Nat /\ 0 < lo /\ lo =< sent + 1 /\ sent + 1 =< size + 1
    BY <1>0, <1>1
  <2> QED BY <2>1, PayloadsSent
<1>3. Framed(stream, Up, lo, sent + 1, open)
  BY DEF UpAt
<1>4. lo \in Nat
  OBVIOUS
<1> HIDE DEF lo
<1>5. /\ lo < sent + 1 /\ Bytes(Up[lo]) /\ Len(Up[lo]) \in Nat
      /\ \A k \in 1..LENGTH_PREFIX : stream[k] = <<"length", Len(Up[lo]), k>>
  BY <1>2, <1>3, FramedFirst
<1>6. PICK len \in Nat : HasLen(Up[lo], len) /\ stream[1] = <<"length", len, 1>>
  <2>1. 1 \in 1..LENGTH_PREFIX
    BY <1>0
  <2> QED BY <1>5, <2>1 DEF HasLen
<1>7. ASSUME n >= LENGTH_PREFIX + len, NEW more, \A j \in 1..nout : more[j] = out[j],
             more[nout + 1] = SubSeq(stream, LENGTH_PREFIX + 1, LENGTH_PREFIX + len)
      PROVE  UpAt(Rest(stream, LENGTH_PREFIX + len), more, ans, nout + 1, sent, open)
  <2>1. /\ SubSeq(stream, LENGTH_PREFIX + 1, LENGTH_PREFIX + len) = Up[lo]
        /\ Framed(Rest(stream, LENGTH_PREFIX + len), Up, lo + 1, sent + 1, open)
    BY <1>2, <1>3, <1>5, <1>6, <1>7, FramedNext
  <2>2. (ans + (nout + 1)) + 1 = lo + 1 /\ ans + (nout + 1) = lo /\ lo =< sent
    BY <1>5 DEF lo
  <2>3. Up[lo] = Payload(lo)
    <3>1. lo \in 1..size /\ DOMAIN Sizes = 1..size
      BY <1>0, <2>2, SizesAre DEF HasLen, lo
    <3> QED BY <3>1 DEF Up
  <2>4. \A j \in 1..(nout + 1) : more[j] = Payload(ans + j)
    <3> TAKE j \in 1..(nout + 1)
    <3>1. CASE j = nout + 1
      BY <1>7, <2>1, <2>2, <2>3, <3>1
    <3>2. CASE j # nout + 1
      <4>1. j \in 1..nout
        BY <3>2
      <4> QED BY <1>7, <4>1 DEF UpAt
    <3> QED BY <3>1, <3>2
  <2> QED BY <2>1, <2>2, <2>4 DEF UpAt
<1> QED BY <1>6, <1>7 DEF UpTakes

LEMMA DownRespond ==
    ASSUME NEW size, HasLen(Sizes, size), NEW ngot \in Nat, NEW ans \in Nat, ans < size,
           NEW stream, Bytes(stream), DownAt(stream, ngot, ans, TRUE)
    PROVE  DownAt(stream \o encode_frame(Answer(Payload(ans + 1))), ngot, ans + 1, TRUE)
<1>0. size \in Nat
  BY DEF HasLen
<1>1. ngot =< ans
  BY DEF DownAt
<1>2. Payloads(Down, ngot + 1, ans + 1)
  <2>1. /\ ngot + 1 \in Nat /\ ans + 1 \in Nat /\ 0 < ngot + 1
        /\ ngot + 1 =< ans + 1 /\ ans + 1 =< size + 1
    BY <1>0, <1>1
  <2> QED BY <2>1, PayloadsSent
<1>3. ans + 1 \in DOMAIN Sizes
  <2>1. DOMAIN Sizes = 1..size
    BY SizesAre DEF HasLen
  <2> QED BY <1>0, <2>1
<1>4. Down[ans + 1] = Answer(Payload(ans + 1)) /\ Bytes(Down[ans + 1])
  BY <1>3, AnswerIs DEF Down, Bytes
<1>5. Framed(stream, Down, ngot + 1, ans + 1, TRUE)
  BY DEF DownAt
<1>6. Framed(stream \o encode_frame(Down[ans + 1]), Down, ngot + 1, (ans + 1) + 1, TRUE)
  BY <1>2, <1>4, <1>5, FramedSend
<1>7. ngot =< ans + 1
  BY <1>1
<1> QED BY <1>4, <1>6, <1>7, Zenon DEF DownAt

\* The server stops, maybe between a call of the handler and its answer.
LEMMA DownMore ==
    ASSUME NEW size, HasLen(Sizes, size), NEW ngot \in Nat, NEW ans \in Nat, ans < size,
           NEW stream, Bytes(stream), NEW open, DownAt(stream, ngot, ans, open)
    PROVE  DownAt(stream, ngot, ans + 1, FALSE)
<1>0. size \in Nat
  BY DEF HasLen
<1>1. ngot =< ans
  BY DEF DownAt
<1>2. Payloads(Down, ngot + 1, ans + 1)
  <2>1. /\ ngot + 1 \in Nat /\ ans + 1 \in Nat /\ 0 < ngot + 1
        /\ ngot + 1 =< ans + 1 /\ ans + 1 =< size + 1
    BY <1>0, <1>1
  <2> QED BY <2>1, PayloadsSent
<1>3. ans + 1 \in DOMAIN Sizes
  <2>1. DOMAIN Sizes = 1..size
    BY SizesAre DEF HasLen
  <2> QED BY <1>0, <2>1
<1>4. Down[ans + 1] = Answer(Payload(ans + 1)) /\ Bytes(Down[ans + 1])
  BY <1>3, AnswerIs DEF Down, Bytes
<1>5. Framed(stream, Down, ngot + 1, ans + 1, open)
  BY DEF DownAt
<1>6. Framed(stream, Down, ngot + 1, (ans + 1) + 1, FALSE)
  BY <1>2, <1>4, <1>5, FramedMore
<1>7. ngot =< ans + 1
  BY <1>1
<1> QED BY <1>6, <1>7, Zenon DEF DownAt

LEMMA DownPrefix ==
    ASSUME NEW size, HasLen(Sizes, size), NEW ngot \in Nat, NEW ans \in Nat, ans =< size,
           NEW stream, Bytes(stream), NEW open, DownAt(stream, ngot, ans, open),
           NEW r, Bytes(r), Starting(r, stream)
    PROVE  DownAt(r, ngot, ans, FALSE)
<1>0. size \in Nat
  BY DEF HasLen
<1>1. ngot =< ans
  BY DEF DownAt
<1>2. Payloads(Down, ngot + 1, ans + 1)
  <2>1. /\ ngot + 1 \in Nat /\ ans + 1 \in Nat /\ 0 < ngot + 1
        /\ ngot + 1 =< ans + 1 /\ ans + 1 =< size + 1
    BY <1>0, <1>1
  <2> QED BY <2>1, PayloadsSent
<1>3. Framed(r, Down, ngot + 1, ans + 1, FALSE)
  BY <1>2, FramedPrefix DEF DownAt
<1> QED BY <1>1, <1>3, Zenon DEF DownAt

\* The first frame of a stream of n bytes is the answer after ngot others.
DownGives(stream, n, ngot, ans, open) ==
    \E len \in Nat :
       /\ \A k \in 1..LENGTH_PREFIX : stream[k] = <<"length", len, k>>
       /\ n >= LENGTH_PREFIX + len =>
             /\ SubSeq(stream, LENGTH_PREFIX + 1, LENGTH_PREFIX + len) = Answer(Payload(ngot + 1))
             /\ DownAt(Rest(stream, LENGTH_PREFIX + len), ngot + 1, ans, open)

\* _recv_exactly returns a header, and then its payload.
LEMMA DownFrame ==
    ASSUME NEW size, HasLen(Sizes, size), NEW ngot \in Nat, NEW ans \in Nat, ans =< size,
           NEW stream, Bytes(stream), NEW open, DownAt(stream, ngot, ans, open),
           NEW n \in Nat, HasLen(stream, n), n >= LENGTH_PREFIX
    PROVE  ngot < ans /\ DownGives(stream, n, ngot, ans, open)
<1>0. size \in Nat
  BY DEF HasLen
<1>1. ngot =< ans
  BY DEF DownAt
<1>2. Payloads(Down, ngot + 1, ans + 1)
  <2>1. /\ ngot + 1 \in Nat /\ ans + 1 \in Nat /\ 0 < ngot + 1
        /\ ngot + 1 =< ans + 1 /\ ans + 1 =< size + 1
    BY <1>0, <1>1
  <2> QED BY <2>1, PayloadsSent
<1>3. Framed(stream, Down, ngot + 1, ans + 1, open)
  BY DEF DownAt
<1>4. /\ ngot + 1 < ans + 1 /\ Bytes(Down[ngot + 1]) /\ Len(Down[ngot + 1]) \in Nat
      /\ \A k \in 1..LENGTH_PREFIX : stream[k] = <<"length", Len(Down[ngot + 1]), k>>
  BY <1>2, <1>3, FramedFirst
<1>5. PICK len \in Nat : HasLen(Down[ngot + 1], len)
  BY <1>4 DEF HasLen
<1>6. \A k \in 1..LENGTH_PREFIX : stream[k] = <<"length", len, k>>
  BY <1>4, <1>5 DEF HasLen
<1>7. ngot < ans /\ ngot + 1 =< ans
  BY <1>1, <1>4
<1>8. ASSUME n >= LENGTH_PREFIX + len
      PROVE  /\ SubSeq(stream, LENGTH_PREFIX + 1, LENGTH_PREFIX + len) = Answer(Payload(ngot + 1))
             /\ DownAt(Rest(stream, LENGTH_PREFIX + len), ngot + 1, ans, open)
  <2>1. /\ SubSeq(stream, LENGTH_PREFIX + 1, LENGTH_PREFIX + len) = Down[ngot + 1]
        /\ Framed(Rest(stream, LENGTH_PREFIX + len), Down, (ngot + 1) + 1, ans + 1, open)
    BY <1>2, <1>3, <1>4, <1>5, <1>8, FramedNext
  <2>2. Down[ngot + 1] = Answer(Payload(ngot + 1))
    <3>1. ngot + 1 \in 1..size /\ DOMAIN Sizes = 1..size
      BY <1>0, <1>7, SizesAre DEF HasLen
    <3> QED BY <3>1 DEF Down
  <2> QED BY <1>7, <2>1, <2>2 DEF DownAt
<1> QED BY <1>5, <1>6, <1>7, <1>8 DEF DownGives

-----------------------------------------------------------------------------
(* The inductive invariant *)

\* The requests answered: the one that was handled last waits for sendall.
Answers == IF server.pc = "send" THEN Len(handled) - 1 ELSE Len(handled)

\* What the client has of the answers it has not given to its caller.
Seen == IF client.pc = "payload" THEN Header(client.need) \o client.buf ELSE client.buf

UpInv ==
    ServerOpen => UpAt(server.buf \o uplink, server.out, Answers, Len(server.out),
                       nsent, ClientOpen)

DownInv == ClientOpen => DownAt(Seen \o downlink, Len(got), Answers, ServerOpen)

ServerInv ==
    /\ server.pc = "recv" => server.out = <<>>
    /\ server.pc \in {"handle", "send"} => server.out # <<>>
    /\ server.pc = "send" => handled # <<>>

ClientInv ==
    /\ client.pc = "ready" => client.buf = <<>>
    /\ client.pc = "header" => client.need = LENGTH_PREFIX

\* Requests are handled whole, in their order and once; so are answers received.
HandledInv == Len(handled) =< nsent /\ \A i \in 1..Len(handled) : handled[i] = Payload(i)
GotInv == Len(got) =< Len(handled) /\ \A i \in 1..Len(got) : got[i] = Answer(Payload(i))

IInv ==
    /\ TypeOK /\ ServerInv /\ ClientInv
    /\ UpInv /\ DownInv /\ HandledInv /\ GotInv

-----------------------------------------------------------------------------
(* Types *)

ServerPc == {"recv", "feed", "handle", "send", "closed"}
ClientPc == {"ready", "header", "payload", "closed"}

\* The parts of TypeOK, by the variable they are about.
ServerType == server \in [pc : ServerPc, buf : Seq(Byte), out : Seq(Seq(Byte))]
ClientType ==
    /\ client \in [pc : ClientPc, buf : Seq(Byte), need : Nat]
    /\ Len(client.buf) =< client.need
Streams == uplink \in Seq(Byte) /\ downlink \in Seq(Byte)
Counts == nsent \in 0..Len(Sizes) /\ got \in Seq(Seq(Byte)) /\ handled \in Seq(Seq(Byte))

LEMMA TypeParts == TypeOK <=> ServerType /\ ClientType /\ Streams /\ Counts
BY DEF TypeOK, ServerType, ClientType, Streams, Counts, ServerPc, ClientPc

LEMMA LengthType ==
    ASSUME NEW b \in Seq(Byte), b # <<>>
    PROVE  LengthIn(b) \in Nat
<1>1. 1 \in 1..Len(b)
  BY EmptySeq
<1>2. b[1] \in Byte
  BY <1>1, ElementOfSeq
<1>3. ASSUME NEW x \in Byte, x[1] = "length" PROVE x[2] \in Nat
  <2>1. CASE x \in {"length"} \X Nat \X (1..LENGTH_PREFIX)
    BY <2>1
  <2>2. CASE x \in UNION {{"request"} \X {m} \X (1..Sizes[m]) : m \in DOMAIN Sizes}
    BY <1>3, <2>2
  <2>3. CASE x \in UNION {{"answer"} \X {Payload(m)} \X (1..AnswerSize) : m \in DOMAIN Sizes}
    BY <1>3, <2>3
  <2> QED BY <2>1, <2>2, <2>3 DEF Byte
<1> QED BY <1>2, <1>3 DEF LengthIn

LEMMA AppendType ==
    ASSUME NEW S, NEW s \in Seq(S), NEW x \in S
    PROVE  Append(s, x) \in Seq(S)
BY AppendProperties

\* A frame sent is one more piece of the stream.
LEMMA SentType ==
    ASSUME NEW s \in Seq(Byte), NEW p \in Seq(Byte)
    PROVE  s \o encode_frame(p) \in Seq(Byte)
<1>1. encode_frame(p) \in Seq(Byte)
  BY FrameIs
<1>2. \A e \in Seq(Byte) : s \o e \in Seq(Byte)
  BY ConcatProperties
<1> QED BY <1>1, <1>2, Zenon

\* A piece of the stream, taken by one side.
LEMMA PieceTypes ==
    ASSUME NEW b \in Seq(Byte), NEW s \in Seq(Byte), NEW max \in Int, NEW n \in Pieces(s, max)
    PROVE  /\ b \o Front(s, n) \in Seq(Byte) /\ Rest(s, n) \in Seq(Byte)
           /\ Len(b \o Front(s, n)) = Len(b) + n /\ n \in Nat /\ n =< max
           /\ (b \o Front(s, n)) \o Rest(s, n) = b \o s
<1>1. n \in Nat /\ n =< Len(s) /\ n =< max
  BY PiecesOf
<1>2. \A k \in Nat : k =< Len(s) =>
         /\ b \o Front(s, k) \in Seq(Byte) /\ Rest(s, k) \in Seq(Byte)
         /\ Len(b \o Front(s, k)) = Len(b) + k
         /\ (b \o Front(s, k)) \o Rest(s, k) = b \o s
  BY TakenFromStream
<1> QED BY <1>1, <1>2, Zenon

LEMMA PrefixType ==
    ASSUME NEW s \in Seq(Byte), NEW r \in Prefixes(s)
    PROVE  r \in Seq(Byte)
BY PrefixesOf

LEMMA ClientTypes ==
    ASSUME TypeOK, ClientInv, SendRequest \/ ClientStep \/ ClientGone
    PROVE  TypeOK'
<1>0. ServerType /\ ClientType /\ Streams /\ Counts
  BY TypeParts
<1>1. SUFFICES ServerType' /\ ClientType' /\ Streams' /\ Counts'
  BY DEF TypeOK, ServerType, ClientType, Streams, Counts, ServerPc, ClientPc
<1>2. CASE SendRequest
  <2>1. UNCHANGED <<downlink, client, got, server, handled>>
    BY <1>2 DEF SendRequest
  <2>2. nsent \in Nat /\ nsent < Len(Sizes) /\ nsent' = nsent + 1
    BY <1>0, <1>2, SizesAre DEF SendRequest, Counts
  <2>3. nsent' \in 0..Len(Sizes) /\ nsent + 1 \in DOMAIN Sizes
    BY <2>2, SizesAre
  <2>4. uplink' \in Seq(Byte)
    <3>1. uplink \o encode_frame(Payload(nsent + 1)) \in Seq(Byte)
      BY <1>0, <2>3, PayloadIs, SentType DEF Streams
    <3> QED BY <1>0, <1>2, <3>1 DEF SendRequest, Streams
  <2>5. Counts'
    BY <1>0, <2>1, <2>3 DEF Counts
  <2>6. Streams'
    BY <1>0, <2>1, <2>4 DEF Streams
  <2> QED BY <1>0, <2>1, <2>5, <2>6 DEF ServerType, ClientType
<1>3. CASE ReadAnswer
  <2>1. UNCHANGED <<uplink, downlink, nsent, got, server, handled>>
    BY <1>3 DEF ReadAnswer
  <2>2. ClientType'
    BY <1>3, ConnectionAssumption DEF ReadAnswer, ClientType, ClientPc
  <2> QED BY <1>0, <2>1, <2>2 DEF ServerType, Streams, Counts
<1>4. CASE RecvExactly
  <2>1. PICK n \in Pieces(downlink, client.need - Len(client.buf)) :
           /\ client' = [client EXCEPT !.buf = client.buf \o Front(downlink, n)]
           /\ downlink' = Rest(downlink, n)
    BY <1>4 DEF RecvExactly
  <2>2. UNCHANGED <<uplink, nsent, got, server, handled>>
    BY <1>4 DEF RecvExactly
  <2>3. client.buf \in Seq(Byte) /\ downlink \in Seq(Byte) /\ uplink \in Seq(Byte) /\ client.need \in Nat
    BY <1>0 DEF ClientType, Streams
  <2>4. Len(client.buf) \in Nat
    BY <2>3, LenProperties
  <2>5. client.need - Len(client.buf) \in Int
    BY <2>3, <2>4
  <2>6. PICK new : new = client.buf \o Front(downlink, n)
    OBVIOUS
  <2>7. /\ new \in Seq(Byte) /\ Rest(downlink, n) \in Seq(Byte)
        /\ Len(new) = Len(client.buf) + n /\ n \in Nat /\ n =< client.need - Len(client.buf)
    BY <2>3, <2>5, <2>6, PieceTypes
  <2>8. Len(new) =< client.need
    BY <2>3, <2>4, <2>7
  <2>9. client' = [client EXCEPT !.buf = new]
    BY <2>1, <2>6
  <2>10. ClientType'
    BY <1>0, <2>7, <2>8, <2>9 DEF ClientType
  <2>11. Streams'
    BY <2>1, <2>2, <2>3, <2>7 DEF Streams
  <2> QED BY <1>0, <2>2, <2>10, <2>11 DEF ServerType, Counts
<1>5. CASE HeaderRead
  <2>1. UNCHANGED <<uplink, downlink, nsent, got, server, handled>>
    BY <1>5 DEF HeaderRead
  <2>2. client.buf # <<>>
    <3>1. Len(client.buf) = LENGTH_PREFIX
      BY <1>5 DEF HeaderRead, ClientInv
    <3> QED BY <3>1, ConnectionAssumption, EmptySeq
  <2>3. LengthIn(client.buf) \in Nat
    BY <1>0, <2>2, LengthType DEF ClientType
  <2>4. ClientType'
    BY <1>5, <2>3 DEF HeaderRead, ClientType, ClientPc
  <2> QED BY <1>0, <2>1, <2>4 DEF ServerType, Streams, Counts
<1>6. CASE PayloadRead
  <2>1. UNCHANGED <<uplink, downlink, nsent, server, handled>>
    BY <1>6 DEF PayloadRead
  <2>2. got' \in Seq(Seq(Byte))
    BY <1>0, <1>6, AppendType DEF PayloadRead, ClientType, Counts
  <2>3. ClientType'
    BY <1>6 DEF PayloadRead, ClientType, ClientPc
  <2> QED BY <1>0, <2>1, <2>2, <2>3 DEF ServerType, Streams, Counts
<1>7. CASE ClosedMidFrame
  <2>1. UNCHANGED <<uplink, downlink, nsent, got, server, handled>>
    BY <1>7 DEF ClosedMidFrame
  <2>2. ClientType'
    BY <1>0, <1>7 DEF ClosedMidFrame, ClientType, ClientPc
  <2> QED BY <1>0, <2>1, <2>2 DEF ServerType, Streams, Counts
<1>8. CASE ClientGone
  <2>1. UNCHANGED <<nsent, got, server, handled>>
    BY <1>8 DEF ClientGone
  <2>2. ClientType'
    BY <1>0, <1>8 DEF ClientGone, ClientType, ClientPc
  <2>3. Streams'
    <3>1. uplink' \in Seq(Byte)
      BY <1>0, <1>8, PrefixType DEF ClientGone, Streams
    <3> QED BY <1>8, <3>1 DEF ClientGone, Streams
  <2> QED BY <1>0, <2>1, <2>2, <2>3 DEF ServerType, Counts
<1> QED BY <1>2, <1>3, <1>4, <1>5, <1>6, <1>7, <1>8 DEF ClientStep

LEMMA OutTypes ==
    ASSUME NEW out \in Seq(Seq(Byte)), out # <<>>
    PROVE  /\ Head(out) \in Seq(Byte) /\ Tail(out) \in Seq(Seq(Byte))
           /\ Head(out) = out[1] /\ Len(out) \in Nat \ {0} /\ Len(Tail(out)) = Len(out) - 1
           /\ \A i \in 1..Len(Tail(out)) : Tail(out)[i] = out[i + 1]
<1>1. Len(out) \in Nat \ {0}
  BY EmptySeq
<1>2. Head(out) = out[1]
  BY <1>1
<1> QED BY <1>1, <1>2, HeadTailProperties

\* The pieces that feed cuts off its buffer.
LEMMA FrameTypes ==
    ASSUME NEW b \in Seq(Byte), NEW n \in Nat, n = Len(b), NEW len \in Nat,
           n >= LENGTH_PREFIX + len
    PROVE  /\ SubSeq(b, LENGTH_PREFIX + 1, LENGTH_PREFIX + len) \in Seq(Byte)
           /\ Rest(b, LENGTH_PREFIX + len) \in Seq(Byte)
<1>0. LENGTH_PREFIX \in Nat
  BY ConnectionAssumption
<1>1. \A i \in (LENGTH_PREFIX + 1)..(LENGTH_PREFIX + len) : b[i] \in Byte
  <2>1. \A i \in (LENGTH_PREFIX + 1)..(LENGTH_PREFIX + len) : i \in 1..n
    BY <1>0
  <2> QED BY <2>1, ElementOfSeq
<1>2. SubSeq(b, LENGTH_PREFIX + 1, LENGTH_PREFIX + len) \in Seq(Byte)
  <2>1. LENGTH_PREFIX + 1 \in Int /\ LENGTH_PREFIX + len \in Int
    BY <1>0
  <2> QED BY <1>1, <2>1, SubSeqProperties
<1>3. Rest(b, LENGTH_PREFIX + len) \in Seq(Byte)
  <2>1. LENGTH_PREFIX + len \in Nat /\ LENGTH_PREFIX + len =< Len(b)
    BY <1>0
  <2> QED BY <2>1, FrontRest
<1> QED BY <1>2, <1>3

LEMMA ServerTypes ==
    ASSUME TypeOK, ServerInv, HandledInv, ServerStep \/ ServerGone,
           \A p : server.out # <<>> /\ p = Head(server.out) => Answer(p) \in Seq(Byte)
    PROVE  TypeOK'
<1>0. ServerType /\ ClientType /\ Streams /\ Counts
  BY TypeParts
<1>1. SUFFICES ServerType' /\ ClientType' /\ Streams' /\ Counts'
  BY DEF TypeOK, ServerType, ClientType, Streams, Counts, ServerPc, ClientPc
<1>2. UNCHANGED <<clients>> /\ ClientType'
  BY <1>0 DEF clients, ServerStep, ServerGone, Recv, RecvEnds, Extract, Fed, Handle, HandlerRaises,
              Respond, RespondError, ClientType
<1>a. server.buf \in Seq(Byte) /\ server.out \in Seq(Seq(Byte)) /\ uplink \in Seq(Byte) /\ downlink \in Seq(Byte)
  BY <1>0 DEF ServerType, Streams
<1>3. CASE Recv
  <2>1. PICK n \in Pieces(uplink, RecvSize) :
           /\ server' = [server EXCEPT !.pc = "feed", !.buf = server.buf \o Front(uplink, n)]
           /\ uplink' = Rest(uplink, n)
    BY <1>3 DEF Recv
  <2>2. UNCHANGED <<downlink, handled>>
    BY <1>3 DEF Recv
  <2>3. PICK new : new = server.buf \o Front(uplink, n)
    OBVIOUS
  <2>4. RecvSize \in Int
    BY ConnectionAssumption
  <2>5. new \in Seq(Byte) /\ Rest(uplink, n) \in Seq(Byte)
    BY <1>a, <2>3, <2>4, PieceTypes
  <2>6. server' = [server EXCEPT !.pc = "feed", !.buf = new]
    BY <2>1, <2>3
  <2>7. ServerType'
    BY <1>0, <2>5, <2>6 DEF ServerType, ServerPc
  <2> QED BY <1>0, <1>2, <1>a, <2>1, <2>2, <2>5, <2>7 DEF Streams, Counts, clients
<1>4. CASE RecvEnds \/ RespondError
  <2>1. ServerType'
    BY <1>0, <1>4 DEF RecvEnds, RespondError, ServerType, ServerPc
  <2>3. uplink' = <<>> /\ downlink' = downlink
    BY <1>4 DEF RecvEnds, RespondError
  <2>4. Streams'
    BY <1>a, <2>3 DEF Streams
  <2>2. UNCHANGED handled
    BY <1>4 DEF RecvEnds, RespondError
  <2> QED BY <1>0, <1>2, <2>1, <2>2, <2>4 DEF Counts, clients
<1>5. CASE Extract
  <2>1. Complete(server.buf) /\ UNCHANGED <<uplink, downlink, handled>>
    BY <1>5 DEF Extract
  <2>2. PICK n \in Nat : n = Len(server.buf)
    BY <1>a, LenProperties
  <2>3. server.buf # <<>>
    BY <2>1, ConnectionAssumption, EmptySeq DEF Complete
  <2>4. PICK len \in Nat : len = LengthIn(server.buf)
    BY <1>a, <2>3, LengthType
  <2>5. n >= LENGTH_PREFIX + len
    BY <2>1, <2>2, <2>4 DEF Complete
  <2>6. /\ SubSeq(server.buf, LENGTH_PREFIX + 1, LENGTH_PREFIX + len) \in Seq(Byte)
        /\ Rest(server.buf, LENGTH_PREFIX + len) \in Seq(Byte)
    BY <1>a, <2>2, <2>5, FrameTypes
  <2>7. PICK x, r : x = SubSeq(server.buf, LENGTH_PREFIX + 1, LENGTH_PREFIX + len)
                    /\ r = Rest(server.buf, LENGTH_PREFIX + len)
    OBVIOUS
  <2>8. server' = [server EXCEPT !.out = Append(server.out, x), !.buf = r]
    BY <1>5, <2>4, <2>7 DEF Extract
  <2>9. Append(server.out, x) \in Seq(Seq(Byte))
    BY <1>a, <2>6, <2>7, AppendType
  <2>10. ServerType'
    BY <1>0, <2>6, <2>7, <2>8, <2>9 DEF ServerType
  <2> QED BY <1>0, <1>2, <2>1, <2>10 DEF Streams, Counts, clients
<1>6. CASE Fed
  <2>1. ServerType'
    BY <1>0, <1>6 DEF Fed, ServerType, ServerPc
  <2> QED BY <1>0, <1>2, <1>6, <2>1 DEF Fed, Streams, Counts, clients
<1>7. CASE Handle
  <2>1. ServerType'
    BY <1>0, <1>7 DEF Handle, ServerType, ServerPc
  <2>2. Head(server.out) \in Seq(Byte)
    BY <1>7, <1>a, OutTypes DEF Handle, ServerInv
  <2>3. handled' \in Seq(Seq(Byte))
    BY <1>0, <1>7, <2>2, AppendType DEF Handle, Counts
  <2> QED BY <1>0, <1>2, <1>7, <2>1, <2>3 DEF Handle, Streams, Counts, clients
<1>8. CASE HandlerRaises \/ ServerGone
  <2>1. ServerType' /\ UNCHANGED handled /\ uplink' = <<>>
    BY <1>0, <1>8 DEF HandlerRaises, ServerGone, ServerType, ServerPc
  <2>2. downlink' \in Seq(Byte)
    BY <1>8, <1>a, PrefixType DEF HandlerRaises, ServerGone
  <2> QED BY <1>0, <1>2, <2>1, <2>2 DEF Streams, Counts, clients
<1>9. CASE Respond
  <2>1. server.out # <<>> /\ UNCHANGED <<uplink, handled>>
    BY <1>9 DEF Respond, ServerInv
  <2>2. Tail(server.out) \in Seq(Seq(Byte)) /\ Answer(Head(server.out)) \in Seq(Byte)
    BY <1>a, <2>1, OutTypes
  <2>3. ServerType'
    BY <1>0, <1>9, <2>2 DEF Respond, ServerType, ServerPc
  <2>4. downlink \o encode_frame(Answer(Head(server.out))) \in Seq(Byte)
    BY <1>a, <2>2, SentType
  <2>5. downlink' \in Seq(Byte)
    BY <1>9, <1>a, <2>4 DEF Respond
  <2> QED BY <1>0, <1>2, <2>1, <2>3, <2>5 DEF Streams, Counts, clients
<1> QED BY <1>3, <1>4, <1>5, <1>6, <1>7, <1>8, <1>9 DEF ServerStep

-----------------------------------------------------------------------------
(* The steps *)

\* The numbers that the invariant relates.
LEMMA Numbers ==
    ASSUME TypeOK, ServerInv, HandledInv, GotInv
    PROVE  \E size, ans, nout, ngot, done \in Nat :
              /\ HasLen(Sizes, size) /\ HasLen(server.out, nout)
              /\ HasLen(got, ngot) /\ HasLen(handled, done)
              /\ ans = Answers /\ nsent \in Nat /\ nsent =< size
              /\ ans = IF server.pc = "send" THEN done - 1 ELSE done
              /\ done =< nsent /\ ngot =< done
<1>0. ServerType /\ Counts
  BY TypeParts
<1>1. /\ Len(Sizes) \in Nat /\ Len(server.out) \in Nat /\ Len(got) \in Nat
      /\ Len(handled) \in Nat
  BY <1>0, SizesAre, LenProperties DEF ServerType, Counts
<1>2. nsent \in Nat /\ nsent =< Len(Sizes)
  BY <1>0, <1>1 DEF Counts
<1>3. server.pc = "send" => Len(handled) # 0
  BY <1>0, EmptySeq DEF ServerInv, Counts
<1>4. Answers \in Nat
  BY <1>1, <1>3 DEF Answers
<1>5. Len(handled) =< nsent /\ Len(got) =< Len(handled)
  BY DEF HandledInv, GotInv
<1> QED BY <1>1, <1>2, <1>4, <1>5 DEF HasLen, Answers

\* The request that handle_request gets is the next one.
LEMMA HeadIs ==
    ASSUME IInv, server.out # <<>>, ServerOpen
    PROVE  /\ Head(server.out) = Payload(Answers + 1) /\ Answers + 1 \in DOMAIN Sizes
           /\ Answers < nsent
<1>0. TypeOK /\ ServerInv /\ HandledInv /\ GotInv /\ UpInv
  BY DEF IInv
<1>1. PICK size, ans, nout, ngot, done \in Nat :
         /\ HasLen(Sizes, size) /\ HasLen(server.out, nout)
         /\ HasLen(got, ngot) /\ HasLen(handled, done)
         /\ ans = Answers /\ nsent \in Nat /\ nsent =< size
         /\ ans = IF server.pc = "send" THEN done - 1 ELSE done
         /\ done =< nsent /\ ngot =< done
  BY <1>0, Numbers
<1>2. server.out \in Seq(Seq(Byte))
  BY <1>0, TypeParts DEF ServerType
<1>3. nout # 0 /\ Head(server.out) = server.out[1]
  BY <1>1, <1>2, OutTypes DEF HasLen
<1>4. UpAt(server.buf \o uplink, server.out, ans, nout, nsent, ClientOpen)
  BY <1>0, <1>1 DEF UpInv, HasLen
<1>5. ans + nout =< nsent /\ \A j \in 1..nout : server.out[j] = Payload(ans + j)
  BY <1>4 DEF UpAt
<1>6. 1 \in 1..nout /\ ans < nsent /\ ans + 1 \in 1..size
  BY <1>1, <1>3, <1>5
<1>7. DOMAIN Sizes = 1..size
  BY <1>1, SizesAre DEF HasLen
<1> QED BY <1>1, <1>3, <1>5, <1>6, <1>7

\* TypeOK is an invariant.
LEMMA NextTypes ==
    ASSUME IInv, [Next]_vars
    PROVE  TypeOK'
<1>0. TypeOK /\ ServerInv /\ ClientInv /\ HandledInv
  BY DEF IInv
<1>1. CASE SendRequest \/ ClientStep \/ ClientGone
  BY <1>0, <1>1, ClientTypes
<1>2. CASE ServerStep \/ ServerGone
  <2>1. CASE ServerOpen
    <3>1. ASSUME NEW q, server.out # <<>>, q = Head(server.out) PROVE Answer(q) \in Seq(Byte)
      BY <2>1, <3>1, HeadIs, AnswerIs
    <3> QED BY <1>0, <1>2, <3>1, ServerTypes
  <2>2. CASE ~ServerOpen
    BY <1>2, <2>2 DEF ServerOpen, ServerStep, ServerGone, Recv, RecvEnds, Extract, Fed, Handle,
                      HandlerRaises, Respond, RespondError
  <2> QED BY <2>1, <2>2
<1>3. CASE UNCHANGED vars
  BY <1>0, <1>3 DEF TypeOK, vars, clients
<1> QED BY <1>1, <1>2, <1>3 DEF Next

LEMMA ServerInvKept ==
    ASSUME IInv, [Next]_vars
    PROVE  ServerInv'
<1>0. TypeOK /\ ServerInv
  BY DEF IInv
<1>1. CASE UNCHANGED <<server, handled>>
  BY <1>0, <1>1 DEF ServerInv
<1>2. CASE Recv \/ RecvEnds \/ Extract \/ HandlerRaises \/ RespondError \/ ServerGone
  <2>1. server'.pc \in {"feed", "closed"}
    BY <1>0, <1>2, TypeParts DEF ServerType, Recv, RecvEnds, Extract, HandlerRaises, RespondError,
                                 ServerGone
  <2> QED BY <2>1 DEF ServerInv
<1>3. CASE Fed
  BY <1>0, <1>3, TypeParts DEF ServerType, ServerInv, Fed
<1>4. CASE Handle
  <2>1. server'.pc = "send" /\ server'.out = server.out /\ server.out # <<>>
    BY <1>0, <1>4, TypeParts DEF ServerType, ServerInv, Handle
  <2>2. handled' # <<>>
    <3>1. Head(server.out) \in Seq(Byte) /\ handled \in Seq(Seq(Byte))
      BY <1>0, <2>1, TypeParts, OutTypes DEF ServerType, Counts
    <3> QED BY <1>4, <3>1, AppendProperties DEF Handle
  <2> QED BY <2>1, <2>2 DEF ServerInv
<1>5. CASE Respond
  BY <1>0, <1>5, TypeParts DEF ServerType, ServerInv, Respond
<1> QED
  BY <1>1, <1>2, <1>3, <1>4, <1>5
     DEF Next, ClientStep, ServerStep, SendRequest, ReadAnswer, RecvExactly, HeaderRead, PayloadRead,
         ClosedMidFrame, ClientGone, vars

LEMMA ClientInvKept ==
    ASSUME IInv, [Next]_vars
    PROVE  ClientInv'
<1>0. TypeOK /\ ClientInv
  BY DEF IInv
<1>1. CASE UNCHANGED client
  BY <1>0, <1>1 DEF ClientInv
<1>2. CASE ReadAnswer \/ HeaderRead \/ PayloadRead \/ ClosedMidFrame \/ ClientGone
  BY <1>0, <1>2, TypeParts DEF ClientType, ClientInv, ReadAnswer, HeaderRead, PayloadRead,
                               ClosedMidFrame, ClientGone
<1>3. CASE RecvExactly
  <2>1. client'.pc = client.pc /\ client'.need = client.need /\ client.pc # "ready"
    BY <1>0, <1>3, TypeParts DEF ClientType, RecvExactly
  <2> QED BY <1>0, <2>1 DEF ClientInv
<1> QED
  BY <1>1, <1>2, <1>3
     DEF Next, ClientStep, ServerStep, SendRequest, Recv, RecvEnds, Extract, Fed, Handle,
         HandlerRaises, Respond, RespondError, ServerGone, vars, clients

\* Requests are handled in their order, once.
LEMMA HandledInvKept ==
    ASSUME IInv, [Next]_vars
    PROVE  HandledInv'
<1>0. TypeOK /\ ServerInv /\ HandledInv /\ GotInv
  BY DEF IInv
<1>1. PICK size, ans, nout, ngot, done \in Nat :
         /\ HasLen(Sizes, size) /\ HasLen(server.out, nout)
         /\ HasLen(got, ngot) /\ HasLen(handled, done)
         /\ ans = Answers /\ nsent \in Nat /\ nsent =< size
         /\ ans = IF server.pc = "send" THEN done - 1 ELSE done
         /\ done =< nsent /\ ngot =< done
  BY <1>0, Numbers
<1>2. CASE UNCHANGED handled
  <2>1. nsent' = nsent \/ nsent' = nsent + 1
    BY DEF Next, ClientStep, ServerStep, SendRequest, ReadAnswer, RecvExactly, HeaderRead,
           PayloadRead, ClosedMidFrame, ClientGone, Recv, RecvEnds, Extract, Fed, Handle,
           HandlerRaises, Respond, RespondError, ServerGone, vars, clients
  <2>2. Len(handled) = done /\ done =< nsent'
    BY <1>1, <2>1 DEF HasLen
  <2> QED BY <1>0, <1>2, <2>2 DEF HandledInv
<1>3. CASE Handle
  <2>1. server.out # <<>> /\ ServerOpen /\ nsent' = nsent
    BY <1>0, <1>3 DEF Handle, ServerInv, ServerOpen, clients
  <2>2. ans = done
    BY <1>1, <1>3 DEF Handle
  <2>3. Head(server.out) = Payload(done + 1) /\ done < nsent
    BY <1>1, <2>1, <2>2, HeadIs
  <2>4. Head(server.out) \in Seq(Byte) /\ handled \in Seq(Seq(Byte))
    BY <1>0, <2>1, TypeParts, OutTypes DEF ServerType, Counts
  <2>5. HasLen(handled', done + 1) /\ handled'[done + 1] = Head(server.out)
        /\ \A i \in 1..done : handled'[i] = handled[i]
    <3>1. \A x \in Seq(Byte) :
             /\ HasLen(Append(handled, x), done + 1) /\ Append(handled, x)[done + 1] = x
             /\ \A i \in 1..done : Append(handled, x)[i] = handled[i]
      BY <1>1, <2>4, AppendProperties DEF HasLen
    <3>2. handled' = Append(handled, Head(server.out))
      BY <1>3 DEF Handle
    <3> QED BY <2>4, <3>1, <3>2, Zenon
  <2>6. \A i \in 1..(done + 1) : handled'[i] = Payload(i)
    <3> TAKE i \in 1..(done + 1)
    <3>1. CASE i = done + 1
      BY <2>3, <2>5, <3>1
    <3>2. CASE i # done + 1
      <4>1. i \in 1..done
        BY <3>2
      <4> QED BY <1>0, <1>1, <2>5, <4>1 DEF HandledInv, HasLen
    <3> QED BY <3>1, <3>2
  <2>7. done + 1 =< nsent'
    BY <1>1, <2>1, <2>3
  <2> QED BY <2>5, <2>6, <2>7 DEF HandledInv, HasLen
<1> QED
  BY <1>2, <1>3
     DEF Next, ClientStep, ServerStep, SendRequest, ReadAnswer, RecvExactly, HeaderRead,
         PayloadRead, ClosedMidFrame, ClientGone, Recv, RecvEnds, Extract, Fed,
         HandlerRaises, Respond, RespondError, ServerGone, vars, clients

LEMMA Joined ==
    ASSUME NEW b, Bytes(b), NEW s, Bytes(s)
    PROVE  Bytes(b \o s) /\ \A n, k \in Nat : HasLen(b, n) /\ HasLen(s, k) => HasLen(b \o s, n + k)
<1>1. b \o s \in Seq(Byte) /\ Len(b \o s) = Len(b) + Len(s)
  BY ConcatProperties DEF Bytes
<1> QED BY <1>1 DEF Bytes, HasLen

\* The bytes of a buffer come before those of the stream.
Before(b, s, n) == \A k \in 1..n : (b \o s)[k] = b[k]

LEMMA ByteInBuffer ==
    ASSUME NEW b, Bytes(b), NEW s, Bytes(s), NEW n \in Nat, HasLen(b, n)
    PROVE  Before(b, s, n)
<1>1. \A i \in 1..(Len(b) + Len(s)) : (b \o s)[i] = IF i =< Len(b) THEN b[i] ELSE s[i - Len(b)]
  BY ConcatProperties DEF Bytes
<1>2. PICK m \in Nat : HasLen(s, m)
  BY LenProperties DEF Bytes, HasLen
<1>3. \A k \in 1..n : k \in 1..(n + m) /\ k =< n
  BY <1>2
<1> QED BY <1>1, <1>2, <1>3 DEF HasLen, Before

\* A frame that is in the buffer is at the start of buffer and stream.
FrameInBuffer(b, s, min, max) ==
    /\ SubSeq(b \o s, min, max) = SubSeq(b, min, max)
    /\ Rest(b \o s, max) = Rest(b, max) \o s

LEMMA InBuffer ==
    ASSUME NEW b, Bytes(b), NEW s, Bytes(s), NEW n \in Nat, HasLen(b, n), NEW max \in Nat, max =< n,
           NEW min \in Nat, 0 < min
    PROVE  FrameInBuffer(b, s, min, max)
<1> DEFINE t == b \o s
<1>1. PICK m \in Nat : HasLen(s, m)
  BY LenProperties DEF Bytes, HasLen
<1>2. t \in Seq(Byte) /\ Len(t) = n + m /\ \A i \in 1..(n + m) : t[i] = IF i =< n THEN b[i] ELSE s[i - n]
  <2>1. /\ t \in Seq(Byte) /\ Len(t) = Len(b) + Len(s)
        /\ \A i \in 1..(Len(b) + Len(s)) : t[i] = IF i =< Len(b) THEN b[i] ELSE s[i - Len(b)]
    BY ConcatProperties DEF Bytes
  <2> QED BY <1>1, <2>1 DEF HasLen
<1>3. \A k \in 1..n : t[k] = b[k] /\ b[k] \in Byte
  <2>1. \A k \in 1..n : k \in 1..(n + m) /\ k =< n
    BY <1>1
  <2>2. \A k \in 1..n : b[k] \in Byte
    BY ElementOfSeq DEF Bytes, HasLen
  <2> QED BY <1>2, <2>1, <2>2
<1> HIDE DEF t
<1>4. SubSeq(t, min, max) = SubSeq(b, min, max)
  <2>1. \A i \in min..max : i \in 1..n
    OBVIOUS
  <2>2. \A i \in min..max : t[i] \in Byte /\ b[i] \in Byte
    BY <1>3, <2>1
  <2> DEFINE x == SubSeq(t, min, max)  y == SubSeq(b, min, max)
  <2>3. /\ x \in Seq(Byte) /\ Len(x) = IF min =< max THEN max - min + 1 ELSE 0
        /\ \A i \in 1..(max - min + 1) : x[i] = t[min + i - 1]
    <3>1. min \in Int /\ max \in Int
      OBVIOUS
    <3> QED BY <2>2, <3>1, SubSeqProperties
  <2>4. /\ y \in Seq(Byte) /\ Len(y) = IF min =< max THEN max - min + 1 ELSE 0
        /\ \A i \in 1..(max - min + 1) : y[i] = b[min + i - 1]
    <3>1. min \in Int /\ max \in Int
      OBVIOUS
    <3> QED BY <2>2, <3>1, SubSeqProperties
  <2> HIDE DEF x, y
  <2>5. PICK l \in Nat : l = IF min =< max THEN max - min + 1 ELSE 0
    <3>1. (IF min =< max THEN max - min + 1 ELSE 0) \in Nat
      OBVIOUS
    <3> QED BY <3>1, Zenon
  <2>6. \A i \in 1..l : i \in 1..(max - min + 1) /\ min + i - 1 \in 1..n
    BY <2>5
  <2>7. \A i \in 1..l : x[i] = y[i]
    BY <1>3, <2>3, <2>4, <2>6
  <2>8. x = y
    BY <2>3, <2>4, <2>5, <2>7, SeqEqual
  <2> QED BY <2>8 DEF x, y
<1>5. Rest(t, max) = Rest(b, max) \o s
  <2>1. max =< n + m
    BY <1>1
  <2>2. /\ Rest(t, max) \in Seq(Byte) /\ Len(Rest(t, max)) = (n + m) - max
        /\ \A i \in 1..((n + m) - max) : Rest(t, max)[i] = t[max + i]
    <3>1. \A k \in Nat : k =< Len(t) =>
             /\ Rest(t, k) \in Seq(Byte) /\ Len(Rest(t, k)) = Len(t) - k
             /\ \A i \in 1..(Len(t) - k) : Rest(t, k)[i] = t[k + i]
      BY <1>2, FrontRest
    <3> QED BY <1>2, <2>1, <3>1
  <2>3. /\ Rest(b, max) \in Seq(Byte) /\ Len(Rest(b, max)) = n - max
        /\ \A i \in 1..(n - max) : Rest(b, max)[i] = b[max + i]
    BY FrontRest DEF Bytes, HasLen
  <2>4. PICK r, x : r = Rest(b, max) /\ x = Rest(t, max)
    OBVIOUS
  <2>5. PICK k \in Nat : k = n - max
    OBVIOUS
  <2>6. /\ r \o s \in Seq(Byte) /\ Len(r \o s) = k + m
        /\ \A i \in 1..(k + m) : (r \o s)[i] = IF i =< k THEN r[i] ELSE s[i - k]
    <3>1. /\ r \o s \in Seq(Byte) /\ Len(r \o s) = Len(r) + Len(s)
          /\ \A i \in 1..(Len(r) + Len(s)) : (r \o s)[i] = IF i =< Len(r) THEN r[i] ELSE s[i - Len(r)]
      BY <2>3, <2>4, ConcatProperties DEF Bytes
    <3> QED BY <1>1, <2>3, <2>4, <2>5, <3>1 DEF HasLen
  <2>7. (n + m) - max = k + m
    BY <1>1, <2>5
  <2>8. \A i \in 1..(k + m) : x[i] = (r \o s)[i]
    <3> TAKE i \in 1..(k + m)
    <3>1. x[i] = t[max + i] /\ max + i \in 1..(n + m)
      BY <1>1, <2>2, <2>4, <2>5, <2>7
    <3>2. CASE i =< k
      <4>1. max + i =< n /\ i \in 1..k
        BY <2>5, <3>2
      <4> QED BY <1>2, <2>3, <2>4, <2>5, <2>6, <3>1, <3>2, <4>1
    <3>3. CASE ~(i =< k)
      <4>1. ~(max + i =< n) /\ (max + i) - n = i - k
        BY <2>5, <3>3
      <4> QED BY <1>2, <2>6, <3>1, <3>3, <4>1
    <3> QED BY <3>2, <3>3
  <2>9. x = r \o s
    <3>1. \A y \in Seq(Byte) : Len(x) = Len(y) /\ (\A i \in 1..Len(x) : x[i] = y[i]) => x = y
      BY <2>2, <2>4, SeqEqual
    <3>2. Len(x) = k + m
      BY <2>2, <2>4, <2>7
    <3> QED BY <2>6, <2>8, <3>1, <3>2, Zenon
  <2> QED BY <2>4, <2>9
<1> QED BY <1>4, <1>5 DEF t, FrameInBuffer

LEMMA Taken ==
    ASSUME NEW b, Bytes(b), NEW s, Bytes(s), NEW max \in Int, NEW n \in Pieces(s, max)
    PROVE  (b \o Front(s, n)) \o Rest(s, n) = b \o s
BY PieceTypes DEF Bytes

LEMMA JoinedFrame ==
    ASSUME NEW b, Bytes(b), NEW s, Bytes(s), NEW e, Bytes(e)
    PROVE  (b \o s) \o e = b \o (s \o e)
BY ConcatAssociative DEF Bytes

LEMMA JoinedPrefix ==
    ASSUME NEW b, Bytes(b), NEW s, Bytes(s), NEW r \in Prefixes(s)
    PROVE  Bytes(b \o r) /\ Starting(b \o r, b \o s)
<1>1. Bytes(r) /\ Starting(r, s)
  BY PrefixesOf DEF Bytes
<1>2. PICK n, m, k \in Nat : HasLen(b, n) /\ HasLen(s, m) /\ HasLen(r, k)
  BY <1>1, LenProperties DEF Bytes, HasLen
<1>3. /\ b \o r \in Seq(Byte) /\ Len(b \o r) = n + k
      /\ \A i \in 1..(n + k) : (b \o r)[i] = IF i =< n THEN b[i] ELSE r[i - n]
  BY <1>1, <1>2, ConcatProperties DEF Bytes, HasLen
<1>4. /\ b \o s \in Seq(Byte) /\ Len(b \o s) = n + m
      /\ \A i \in 1..(n + m) : (b \o s)[i] = IF i =< n THEN b[i] ELSE s[i - n]
  BY <1>2, ConcatProperties DEF Bytes, HasLen
<1>5. k =< m /\ \A i \in 1..k : r[i] = s[i]
  BY <1>1, <1>2 DEF Starting, HasLen
<1>6. \A i \in 1..(n + k) : (b \o r)[i] = (b \o s)[i]
  <2> TAKE i \in 1..(n + k)
  <2>1. i \in 1..(n + m)
    BY <1>2, <1>5
  <2>2. ~(i =< n) => i - n \in 1..k
    BY <1>2
  <2> QED BY <1>3, <1>4, <1>5, <2>1, <2>2
<1>7. n + k =< n + m
  BY <1>2, <1>5
<1> QED BY <1>3, <1>4, <1>6, <1>7 DEF Starting, Bytes

\* The server's buffer and the stream hold what it has not taken.
LEMMA UpInvKept ==
    ASSUME IInv, [Next]_vars
    PROVE  UpInv'
<1>0. TypeOK /\ ServerInv /\ ClientInv /\ HandledInv /\ GotInv /\ UpInv
  BY DEF IInv
<1>1. PICK size, ans, nout, ngot, done \in Nat :
         /\ HasLen(Sizes, size) /\ HasLen(server.out, nout)
         /\ HasLen(got, ngot) /\ HasLen(handled, done)
         /\ ans = Answers /\ nsent \in Nat /\ nsent =< size
         /\ ans = IF server.pc = "send" THEN done - 1 ELSE done
         /\ done =< nsent /\ ngot =< done
  BY <1>0, Numbers
<1>2. /\ Bytes(server.buf) /\ Bytes(uplink) /\ Bytes(server.buf \o uplink)
      /\ server.out \in Seq(Seq(Byte)) /\ client.pc \in ClientPc /\ server.pc \in ServerPc
  <2>1. Bytes(server.buf) /\ Bytes(uplink)
    BY <1>0, TypeParts DEF ServerType, Streams, Bytes
  <2>2. server.out \in Seq(Seq(Byte)) /\ client.pc \in ClientPc /\ server.pc \in ServerPc
    BY <1>0, TypeParts DEF ServerType, ClientType
  <2> QED BY <2>1, <2>2, Joined
<1>3. Len(server.out) = nout
  BY <1>1 DEF HasLen
<1>4. ServerOpen => UpAt(server.buf \o uplink, server.out, ans, nout, nsent, ClientOpen)
  BY <1>0, <1>1, <1>3 DEF UpInv
<1>5. CASE ~ServerOpen'
  BY <1>5 DEF UpInv
<1>6. CASE ReadAnswer \/ RecvExactly \/ HeaderRead \/ PayloadRead \/ UNCHANGED vars
  <2>1. UNCHANGED <<uplink, nsent, server, handled>>
    BY <1>6 DEF ReadAnswer, RecvExactly, HeaderRead, PayloadRead, vars, clients
  <2>2. ClientOpen' = ClientOpen
    <3>1. CASE ReadAnswer \/ HeaderRead \/ PayloadRead
      BY <3>1 DEF ReadAnswer, HeaderRead, PayloadRead, ClientOpen
    <3>2. CASE RecvExactly
      <4>1. client'.pc = client.pc
        BY <1>0, <3>2, TypeParts DEF RecvExactly, ClientType
      <4> QED BY <4>1 DEF ClientOpen
    <3>3. CASE UNCHANGED vars
      BY <3>3 DEF vars, clients, ClientOpen
    <3> QED BY <1>6, <3>1, <3>2, <3>3
  <2>3. Answers' = Answers /\ ServerOpen' = ServerOpen
    BY <2>1 DEF Answers, ServerOpen
  <2> QED BY <1>0, <2>1, <2>2, <2>3 DEF UpInv
<1>7. CASE SendRequest
  <2>1. /\ UNCHANGED <<server, handled, client>> /\ nsent' = nsent + 1 /\ client.pc = "ready"
        /\ nsent < size
    BY <1>1, <1>7 DEF SendRequest, HasLen
  <2>2. CASE ServerOpen
    <3>1. UpAt(server.buf \o uplink, server.out, ans, nout, nsent, TRUE)
      <4>1. ClientOpen = TRUE
        BY <2>1 DEF ClientOpen
      <4> QED BY <1>4, <2>2, <4>1
    <3> DEFINE e == encode_frame(Payload(nsent + 1))
    <3>2. UpAt((server.buf \o uplink) \o e, server.out, ans, nout, nsent + 1, TRUE)
      BY <1>1, <1>2, <2>1, <3>1, UpSend
    <3>3. Bytes(e)
      <4>1. nsent + 1 \in DOMAIN Sizes
        BY <1>1, <2>1, SizesAre DEF HasLen
      <4> QED BY <4>1, PayloadIs, FrameIs DEF Bytes
    <3>4. uplink' = uplink \o e
      BY <1>7, <2>2 DEF SendRequest
    <3> HIDE DEF e
    <3>5. (server.buf \o uplink) \o e = server.buf \o (uplink \o e)
      <4>1. PICK b, u, f : b = server.buf /\ u = uplink /\ f = e
        OBVIOUS
      <4>2. Bytes(b) /\ Bytes(u) /\ Bytes(f)
        BY <1>2, <3>3, <4>1
      <4>3. (b \o u) \o f = b \o (u \o f)
        BY <4>2, JoinedFrame
      <4> QED BY <4>1, <4>3
    <3>6. UpAt(server.buf \o uplink', server.out, ans, nout, nsent', TRUE)
      BY <2>1, <3>2, <3>4, <3>5
    <3>7. Answers' = ans /\ Len(server'.out) = nout /\ (ClientOpen' = TRUE)
      BY <1>1, <1>3, <2>1 DEF Answers, ClientOpen
    <3> QED BY <2>1, <3>6, <3>7 DEF UpInv
  <2>3. CASE ~ServerOpen
    BY <2>1, <2>3 DEF UpInv, ServerOpen
  <2> QED BY <2>2, <2>3
<1>8. CASE ClosedMidFrame
  BY <1>8 DEF ClosedMidFrame, ServerOpen, UpInv
<1>9. CASE ClientGone
  <2>1. /\ UNCHANGED <<server, handled, nsent>> /\ uplink' \in Prefixes(uplink)
        /\ (ClientOpen' = FALSE)
    BY <1>0, <1>9, TypeParts DEF ClientGone, ClientOpen, ClientType
  <2>2. Bytes(server.buf \o uplink') /\ Starting(server.buf \o uplink', server.buf \o uplink)
    BY <1>2, <2>1, JoinedPrefix
  <2>3. ServerOpen => UpAt(server.buf \o uplink', server.out, ans, nout, nsent, FALSE)
    BY <1>1, <1>2, <1>4, <2>2, UpPrefix
  <2>4. Answers' = ans /\ Len(server'.out) = nout /\ ServerOpen' = ServerOpen
    BY <1>1, <1>3, <2>1 DEF Answers, ServerOpen
  <2> QED BY <2>1, <2>3, <2>4 DEF UpInv
<1>10. CASE Recv
  <2>1. PICK n \in Pieces(uplink, RecvSize) :
           /\ server' = [server EXCEPT !.pc = "feed", !.buf = server.buf \o Front(uplink, n)]
           /\ uplink' = Rest(uplink, n)
    BY <1>10 DEF Recv
  <2>2. UNCHANGED <<clients, handled>> /\ server.pc = "recv"
    BY <1>10 DEF Recv
  <2>3. (server.buf \o Front(uplink, n)) \o Rest(uplink, n) = server.buf \o uplink
    <3>1. PICK b, u : b = server.buf /\ u = uplink
      OBVIOUS
    <3>2. RecvSize \in Int /\ n \in Pieces(u, RecvSize) /\ Bytes(b) /\ Bytes(u)
      BY <1>2, <3>1, ConnectionAssumption
    <3>3. (b \o Front(u, n)) \o Rest(u, n) = b \o u
      BY <3>2, Taken
    <3> QED BY <3>1, <3>3
  <2>4. PICK new : new = server.buf \o Front(uplink, n)
    OBVIOUS
  <2>5. server'.buf = new /\ server'.out = server.out /\ server'.pc = "feed"
    BY <1>0, <2>1, <2>4, TypeParts DEF ServerType
  <2>6. server'.buf \o uplink' = server.buf \o uplink
    BY <2>1, <2>3, <2>4, <2>5
  <2>7. Answers' = ans /\ ServerOpen /\ ClientOpen' = ClientOpen /\ nsent' = nsent
    BY <1>1, <2>2, <2>5 DEF Answers, ServerOpen, ClientOpen, clients
  <2> QED BY <1>3, <1>4, <2>5, <2>6, <2>7 DEF UpInv
<1>11. CASE Extract
  <2>1. Complete(server.buf) /\ UNCHANGED <<uplink, clients, handled>> /\ server.pc = "feed"
    BY <1>11 DEF Extract
  <2>2. PICK n, m \in Nat : HasLen(server.buf, n) /\ HasLen(uplink, m)
    BY <1>2, LenProperties DEF Bytes, HasLen
  <2>3. n >= LENGTH_PREFIX /\ n >= LENGTH_PREFIX + LengthIn(server.buf)
    BY <2>1, <2>2 DEF Complete, HasLen
  <2>4. HasLen(server.buf \o uplink, n + m) /\ n + m \in Nat /\ LENGTH_PREFIX \in Nat \ {0}
    BY <1>2, <2>2, Joined, ConnectionAssumption
  <2>5. n + m >= LENGTH_PREFIX /\ 1 \in 1..n
    BY <2>2, <2>3, <2>4
  <2>6. UpAt(server.buf \o uplink, server.out, ans, nout, nsent, ClientOpen)
    BY <1>4, <2>1 DEF ServerOpen
  <2> PICK b, u : b = server.buf /\ u = uplink
    OBVIOUS
  <2>a. Bytes(b) /\ Bytes(u) /\ HasLen(b, n)
    BY <1>2, <2>2
  <2>b. /\ HasLen(b \o u, n + m) /\ Bytes(b \o u)
        /\ UpAt(b \o u, server.out, ans, nout, nsent, ClientOpen)
    BY <1>2, <2>2, <2>4, <2>6
  <2>7. PICK len \in Nat :
           /\ (b \o u)[1] = <<"length", len, 1>>
           /\ n + m >= LENGTH_PREFIX + len =>
                 \A more :
                    /\ \A j \in 1..nout : more[j] = server.out[j]
                    /\ more[nout + 1] = SubSeq(b \o u, LENGTH_PREFIX + 1, LENGTH_PREFIX + len)
                    => UpAt(Rest(b \o u, LENGTH_PREFIX + len), more, ans, nout + 1, nsent, ClientOpen)
    <3>1. PICK t : t = b \o u
      OBVIOUS
    <3>2. PICK k \in Nat : k = n + m
      BY <2>4
    <3>3. Bytes(t) /\ HasLen(t, k) /\ UpAt(t, server.out, ans, nout, nsent, ClientOpen) /\ k >= LENGTH_PREFIX
      BY <2>5, <2>b, <3>1, <3>2
    <3>4. PICK o, open : o = server.out /\ open = ClientOpen
      OBVIOUS
    <3>5. UpAt(t, o, ans, nout, nsent, open)
      BY <3>3, <3>4
    <3>6. UpTakes(t, k, o, ans, nout, nsent, open)
      BY <1>1, <3>3, <3>5, UpFrame
    <3>7. UpTakes(b \o u, n + m, server.out, ans, nout, nsent, ClientOpen)
      BY <3>1, <3>2, <3>4, <3>6
    <3> QED BY <3>7, Zenon DEF UpTakes
  <2>8. b[1] = <<"length", len, 1>>
    <3>1. Before(b, u, n)
      BY <2>a, ByteInBuffer
    <3> QED BY <2>5, <2>7, <3>1 DEF Before
  <2>9. LengthIn(server.buf) = len
    BY <2>8 DEF LengthIn
  <2>10. n >= LENGTH_PREFIX + len /\ n + m >= LENGTH_PREFIX + len /\ LENGTH_PREFIX + len \in Nat
         /\ LENGTH_PREFIX + 1 \in Nat /\ 0 < LENGTH_PREFIX + 1
    BY <2>2, <2>3, <2>4, <2>9
  <2>11. PICK x, r : x = SubSeq(b, LENGTH_PREFIX + 1, LENGTH_PREFIX + len)
                     /\ r = Rest(b, LENGTH_PREFIX + len)
    OBVIOUS
  <2>12. /\ SubSeq(b \o u, LENGTH_PREFIX + 1, LENGTH_PREFIX + len) = x
         /\ Rest(b \o u, LENGTH_PREFIX + len) = r \o u
    <3>1. PICK min, max \in Nat : min = LENGTH_PREFIX + 1 /\ max = LENGTH_PREFIX + len
      BY <2>10
    <3>2. max =< n /\ 0 < min
      BY <2>10, <3>1
    <3>3. FrameInBuffer(b, u, min, max)
      BY <2>a, <3>2, InBuffer
    <3> QED BY <2>11, <3>1, <3>3 DEF FrameInBuffer
  <2>13. x \in Seq(Byte)
    BY <1>2, <2>2, <2>10, <2>11, FrameTypes DEF Bytes, HasLen
  <2>14. PICK out : out = Append(server.out, x)
    OBVIOUS
  <2>15. Len(out) = nout + 1 /\ out[nout + 1] = x /\ \A j \in 1..nout : out[j] = server.out[j]
    BY <1>2, <1>3, <2>13, <2>14, AppendProperties
  <2>16. UpAt(r \o uplink, out, ans, nout + 1, nsent, ClientOpen)
    BY <2>7, <2>10, <2>12, <2>15
  <2>17. server' = [server EXCEPT !.out = out, !.buf = r]
    BY <1>11, <2>9, <2>11, <2>14 DEF Extract
  <2>18. server'.out = out /\ server'.buf = r /\ server'.pc = server.pc
    BY <1>0, <2>17, TypeParts DEF ServerType
  <2>19. Answers' = ans /\ ClientOpen' = ClientOpen /\ nsent' = nsent
    BY <1>1, <2>1, <2>18 DEF Answers, ClientOpen, clients
  <2> QED BY <2>1, <2>15, <2>16, <2>18, <2>19 DEF UpInv
<1>12. CASE Fed
  <2>1. /\ server'.buf = server.buf /\ server'.out = server.out /\ server.pc = "feed"
        /\ server'.pc \in {"recv", "handle"} /\ UNCHANGED <<uplink, clients, handled>>
    BY <1>0, <1>12, TypeParts DEF Fed, ServerType
  <2>2. Answers' = ans /\ ServerOpen /\ ClientOpen' = ClientOpen /\ nsent' = nsent
    BY <1>1, <2>1 DEF Answers, ServerOpen, ClientOpen, clients
  <2> QED BY <1>3, <1>4, <2>1, <2>2 DEF UpInv
<1>13. CASE Handle
  <2>1. /\ server'.buf = server.buf /\ server'.out = server.out /\ server.pc = "handle"
        /\ server'.pc = "send" /\ UNCHANGED <<uplink, clients>>
    BY <1>0, <1>13, TypeParts DEF Handle, ServerType
  <2>2. Head(server.out) \in Seq(Byte) /\ handled \in Seq(Seq(Byte))
    BY <1>0, <1>2, <2>1, OutTypes, TypeParts DEF ServerInv, Counts
  <2>3. Len(handled') = done + 1
    BY <1>1, <1>13, <2>2, AppendProperties DEF Handle, HasLen
  <2>4. Answers' = ans /\ ServerOpen /\ ClientOpen' = ClientOpen /\ nsent' = nsent
    BY <1>1, <2>1, <2>3 DEF Answers, ServerOpen, ClientOpen, clients
  <2> QED BY <1>3, <1>4, <2>1, <2>4 DEF UpInv
<1>14. CASE Respond
  <2>1. /\ server'.buf = server.buf /\ server'.out = Tail(server.out) /\ server.pc = "send"
        /\ server'.pc \in {"recv", "handle"} /\ UNCHANGED <<uplink, clients, handled>>
        /\ server.out # <<>>
    BY <1>0, <1>14, TypeParts DEF Respond, ServerType, ServerInv
  <2>2. PICK out : out = Tail(server.out)
    OBVIOUS
  <2>3. Len(out) = nout - 1 /\ nout - 1 \in Nat /\ \A i \in 1..(nout - 1) : out[i] = server.out[i + 1]
    BY <1>2, <1>3, <2>1, <2>2, OutTypes
  <2>4. ans = done - 1 /\ Answers' = ans + 1 /\ ServerOpen /\ ClientOpen' = ClientOpen /\ nsent' = nsent
    BY <1>1, <2>1 DEF Answers, ServerOpen, ClientOpen, clients, HasLen
  <2>5. UpAt(server.buf \o uplink, server.out, ans, nout, nsent, ClientOpen)
    BY <1>4, <2>4
  <2>6. (ans + 1) + (nout - 1) = ans + nout
    BY <1>1
  <2>7. \A j \in 1..(nout - 1) : out[j] = Payload((ans + 1) + j)
    <3> TAKE j \in 1..(nout - 1)
    <3>1. j + 1 \in 1..nout /\ ans + (j + 1) = (ans + 1) + j
      BY <1>1
    <3> QED BY <2>3, <2>5, <3>1 DEF UpAt
  <2>8. UpAt(server.buf \o uplink, out, ans + 1, nout - 1, nsent, ClientOpen)
    BY <2>5, <2>6, <2>7 DEF UpAt
  <2> QED BY <2>1, <2>2, <2>3, <2>4, <2>8 DEF UpInv
<1>15. CASE RecvEnds \/ HandlerRaises \/ RespondError \/ ServerGone
  <2>1. server'.pc = "closed"
    BY <1>0, <1>15, TypeParts DEF ServerType, RecvEnds, HandlerRaises, RespondError, ServerGone
  <2> QED BY <2>1 DEF UpInv, ServerOpen
<1> QED
  BY <1>6, <1>7, <1>8, <1>9, <1>10, <1>11, <1>12, <1>13, <1>14, <1>15
     DEF Next, ClientStep, ServerStep

\* What the client has seen, and the header it has read.
LEMMA SeenType ==
    ASSUME TypeOK
    PROVE  /\ Bytes(client.buf) /\ Bytes(downlink) /\ Bytes(Seen) /\ Bytes(Seen \o downlink)
           /\ client.need \in Nat /\ client.pc \in ClientPc
           /\ Bytes(Header(client.need)) /\ HasLen(Header(client.need), LENGTH_PREFIX)
<1>1. Bytes(client.buf) /\ Bytes(downlink) /\ client.need \in Nat /\ client.pc \in ClientPc
  BY TypeParts DEF ClientType, Streams, Bytes
<1>2. Bytes(Header(client.need)) /\ HasLen(Header(client.need), LENGTH_PREFIX)
  BY <1>1, HeaderIs, ConnectionAssumption DEF Bytes, HasLen
<1>3. Bytes(Header(client.need) \o client.buf)
  BY <1>1, <1>2, Joined
<1>4. Bytes(Seen)
  BY <1>1, <1>3 DEF Seen
<1> QED BY <1>1, <1>2, <1>4, Joined

LEMMA RecvExactlyKeeps ==
    ASSUME IInv, RecvExactly
    PROVE  DownInv'
<1>0. TypeOK /\ DownInv
  BY DEF IInv
<1>1. PICK n \in Pieces(downlink, client.need - Len(client.buf)) :
         /\ client' = [client EXCEPT !.buf = client.buf \o Front(downlink, n)]
         /\ downlink' = Rest(downlink, n)
  BY DEF RecvExactly
<1>2. UNCHANGED <<got, server, handled>> /\ client.pc \in {"header", "payload"}
  BY DEF RecvExactly
<1>3. PICK h, b, d, max : /\ h = Header(client.need) /\ b = client.buf /\ d = downlink
                          /\ max = client.need - Len(client.buf)
  OBVIOUS
<1>4. Bytes(h) /\ Bytes(b) /\ Bytes(d) /\ max \in Int /\ n \in Pieces(d, max)
  <2>1. client.need \in Nat /\ Len(client.buf) \in Nat
    BY <1>0, SeenType, LenProperties DEF Bytes
  <2> QED BY <1>0, <1>1, <1>3, <2>1, SeenType
<1>5. PICK f, r : f = Front(d, n) /\ r = Rest(d, n)
  OBVIOUS
<1>6. (b \o f) \o r = b \o d
  BY <1>4, <1>5, Taken
<1>7. Bytes(f) /\ Bytes(r) /\ Bytes(b \o f)
  <2>1. n \in Nat /\ n =< Len(d)
    BY <1>4, PiecesOf DEF Bytes
  <2>2. Bytes(f) /\ Bytes(r)
    BY <1>4, <1>5, <2>1, FrontRest DEF Bytes
  <2> QED BY <1>4, <2>2, Joined
<1>8. client' = [client EXCEPT !.buf = b \o f] /\ downlink' = r
  BY <1>1, <1>3, <1>5
<1>9. client'.pc = client.pc /\ client'.need = client.need /\ client'.buf = b \o f
  BY <1>0, <1>8, TypeParts DEF ClientType
<1>10. Seen' \o downlink' = Seen \o downlink
  <2>1. CASE client.pc = "header"
    <3>1. Seen = b /\ Seen' = b \o f
      BY <1>3, <1>9, <2>1 DEF Seen
    <3> QED BY <1>3, <1>6, <1>8, <3>1
  <2>2. CASE client.pc = "payload"
    <3>1. Seen = h \o b /\ Seen' = h \o (b \o f)
      BY <1>3, <1>9, <2>2 DEF Seen
    <3>2. (h \o (b \o f)) \o r = h \o ((b \o f) \o r)
      <4>1. PICK x : x = b \o f
        OBVIOUS
      <4>2. Bytes(h) /\ Bytes(x) /\ Bytes(r)
        BY <1>4, <1>7, <4>1
      <4>3. (h \o x) \o r = h \o (x \o r)
        BY <4>2, JoinedFrame
      <4> QED BY <4>1, <4>3
    <3>3. (h \o b) \o d = h \o (b \o d)
      BY <1>4, JoinedFrame
    <3> QED BY <1>3, <1>6, <1>8, <3>1, <3>2, <3>3
  <2> QED BY <1>2, <2>1, <2>2
<1>11. ClientOpen /\ ClientOpen' /\ Answers' = Answers /\ ServerOpen' = ServerOpen
  BY <1>2, <1>9 DEF ClientOpen, ServerOpen, Answers
<1> QED BY <1>0, <1>2, <1>10, <1>11 DEF DownInv

LEMMA HeaderReadKeeps ==
    ASSUME IInv, HeaderRead
    PROVE  DownInv'
<1>0. TypeOK /\ ServerInv /\ ClientInv /\ HandledInv /\ GotInv /\ DownInv
  BY DEF IInv
<1>1. PICK size, ans, nout, ngot, done \in Nat :
         /\ HasLen(Sizes, size) /\ HasLen(server.out, nout)
         /\ HasLen(got, ngot) /\ HasLen(handled, done)
         /\ ans = Answers /\ nsent \in Nat /\ nsent =< size
         /\ ans = IF server.pc = "send" THEN done - 1 ELSE done
         /\ done =< nsent /\ ngot =< done
  BY <1>0, Numbers
<1>2. PICK b, d : b = client.buf /\ d = downlink
  OBVIOUS
<1>3. /\ client.pc = "header" /\ Len(b) = LENGTH_PREFIX
      /\ client' = [pc |-> "payload", buf |-> <<>>, need |-> LengthIn(b)]
      /\ UNCHANGED <<downlink, got, server, handled>>
  BY <1>0, <1>2 DEF HeaderRead, ClientInv
<1>4. LENGTH_PREFIX \in Nat \ {0}
  BY ConnectionAssumption
<1>5. Bytes(b) /\ Bytes(d) /\ HasLen(b, LENGTH_PREFIX)
  BY <1>0, <1>2, <1>3, <1>4, SeenType DEF HasLen
<1>6. PICK m \in Nat : HasLen(d, m)
  BY <1>5, LenProperties DEF Bytes, HasLen
<1>7. PICK t, k : t = b \o d /\ k = LENGTH_PREFIX + m
  OBVIOUS
<1>8. Bytes(t) /\ HasLen(t, k) /\ k \in Nat /\ k >= LENGTH_PREFIX
  <2>1. k \in Nat /\ k >= LENGTH_PREFIX
    BY <1>4, <1>6, <1>7
  <2> QED BY <1>4, <1>5, <1>6, <1>7, <2>1, Joined
<1>9. PICK open : open = ServerOpen
  OBVIOUS
<1>10. DownAt(t, ngot, ans, open)
  <2>1. ClientOpen /\ Seen = b /\ Len(got) = ngot
    BY <1>1, <1>2, <1>3 DEF ClientOpen, Seen, HasLen
  <2> QED BY <1>0, <1>1, <1>2, <1>7, <1>9, <2>1 DEF DownInv
<1>11. DownGives(t, k, ngot, ans, open)
  <2>1. ans =< size
    BY <1>1
  <2> QED BY <1>1, <1>8, <1>10, <2>1, DownFrame
<1>12. PICK len \in Nat : \A i \in 1..LENGTH_PREFIX : t[i] = <<"length", len, i>>
  BY <1>11 DEF DownGives
<1>13. \A i \in 1..LENGTH_PREFIX : b[i] = <<"length", len, i>>
  <2>1. Before(b, d, LENGTH_PREFIX)
    BY <1>4, <1>5, ByteInBuffer
  <2> QED BY <1>7, <1>12, <2>1 DEF Before
<1>14. LengthIn(b) = len
  BY <1>4, <1>13 DEF LengthIn
<1>15. Header(len) = b
  <2>1. /\ Header(len) \in Seq(Byte) /\ Len(Header(len)) = LENGTH_PREFIX
        /\ \A i \in 1..LENGTH_PREFIX : Header(len)[i] = <<"length", len, i>>
    BY HeaderIs
  <2> QED BY <1>3, <1>5, <1>13, <2>1, SeqEqual DEF Bytes
<1>16. Seen' = b
  <2>1. Seen' = Header(len) \o <<>>
    BY <1>3, <1>14 DEF Seen
  <2> QED BY <1>5, <1>15, <2>1, ConcatEmptySeq DEF Bytes
<1>17. Answers' = ans /\ Len(got') = ngot /\ ServerOpen' = open
  BY <1>1, <1>3, <1>9 DEF Answers, HasLen, ServerOpen
<1> QED BY <1>2, <1>3, <1>7, <1>10, <1>16, <1>17 DEF DownInv

\* The payload that _request returns is the answer to the next request.
LEMMA PayloadReadKeeps ==
    ASSUME IInv, PayloadRead
    PROVE  /\ DownInv' /\ Len(got) < Len(handled)
           /\ client.buf = Answer(Payload(Len(got) + 1))
<1>0. TypeOK /\ ServerInv /\ ClientInv /\ HandledInv /\ GotInv /\ DownInv
  BY DEF IInv
<1>1. PICK size, ans, nout, ngot, done \in Nat :
         /\ HasLen(Sizes, size) /\ HasLen(server.out, nout)
         /\ HasLen(got, ngot) /\ HasLen(handled, done)
         /\ ans = Answers /\ nsent \in Nat /\ nsent =< size
         /\ ans = IF server.pc = "send" THEN done - 1 ELSE done
         /\ done =< nsent /\ ngot =< done
  BY <1>0, Numbers
<1>2. PICK b, d, h, need : b = client.buf /\ d = downlink /\ need = client.need /\ h = Header(need)
  OBVIOUS
<1>3. /\ client.pc = "payload" /\ Len(b) = need /\ got' = Append(got, b)
      /\ client' = [pc |-> "ready", buf |-> <<>>, need |-> 0]
      /\ UNCHANGED <<downlink, server, handled>>
  BY <1>2 DEF PayloadRead
<1>4. LENGTH_PREFIX \in Nat \ {0}
  BY ConnectionAssumption
<1>5. /\ Bytes(b) /\ Bytes(d) /\ need \in Nat /\ HasLen(b, need)
      /\ Bytes(h) /\ HasLen(h, LENGTH_PREFIX) /\ HasLen(got, ngot) /\ got \in Seq(Seq(Byte))
  BY <1>0, <1>1, <1>2, <1>3, SeenType, TypeParts DEF HasLen, Counts
<1>6. PICK m \in Nat : HasLen(d, m)
  BY <1>5, LenProperties DEF Bytes, HasLen
<1>7. PICK f, n : f = h \o b /\ n = LENGTH_PREFIX + need
  OBVIOUS
<1>8. Bytes(f) /\ HasLen(f, n) /\ n \in Nat
  <2>1. n \in Nat
    BY <1>4, <1>5, <1>7
  <2> QED BY <1>4, <1>5, <1>7, <2>1, Joined
<1>9. PICK t, k : t = f \o d /\ k = n + m
  OBVIOUS
<1>10. Bytes(t) /\ HasLen(t, k) /\ k \in Nat /\ k >= LENGTH_PREFIX /\ k >= n
  <2>1. k \in Nat /\ k >= LENGTH_PREFIX /\ k >= n
    BY <1>4, <1>5, <1>6, <1>7, <1>8, <1>9
  <2> QED BY <1>5, <1>6, <1>8, <1>9, <2>1, Joined
<1>11. PICK open : open = ServerOpen
  OBVIOUS
<1>12. DownAt(t, ngot, ans, open)
  <2>1. ClientOpen /\ Seen = f /\ Len(got) = ngot
    BY <1>1, <1>2, <1>3, <1>7 DEF ClientOpen, Seen, HasLen
  <2> QED BY <1>0, <1>1, <1>2, <1>9, <1>11, <2>1 DEF DownInv
<1>13. DownGives(t, k, ngot, ans, open) /\ ngot < ans
  <2>1. ans =< size
    BY <1>1
  <2> QED BY <1>1, <1>10, <1>12, <2>1, DownFrame
<1>14. PICK len \in Nat :
          /\ \A i \in 1..LENGTH_PREFIX : t[i] = <<"length", len, i>>
          /\ k >= LENGTH_PREFIX + len =>
                /\ SubSeq(t, LENGTH_PREFIX + 1, LENGTH_PREFIX + len) = Answer(Payload(ngot + 1))
                /\ DownAt(Rest(t, LENGTH_PREFIX + len), ngot + 1, ans, open)
  BY <1>13 DEF DownGives
<1>15. len = need
  <2>1. 1 \in 1..LENGTH_PREFIX /\ 1 \in 1..n
    BY <1>4, <1>5, <1>7
  <2>2. h[1] = <<"length", need, 1>>
    BY <1>2, <1>5, <2>1, HeaderIs
  <2>3. Before(h, b, LENGTH_PREFIX) /\ Before(f, d, n)
    BY <1>4, <1>5, <1>8, ByteInBuffer
  <2>4. t[1] = h[1]
    BY <1>7, <1>9, <2>1, <2>3 DEF Before
  <2>5. <<"length", len, 1>> = <<"length", need, 1>>
    BY <1>14, <2>1, <2>2, <2>4
  <2> QED BY <2>5
<1>16. /\ SubSeq(t, LENGTH_PREFIX + 1, n) = Answer(Payload(ngot + 1))
       /\ DownAt(Rest(t, n), ngot + 1, ans, open)
  BY <1>7, <1>10, <1>14, <1>15
<1>17. SubSeq(t, LENGTH_PREFIX + 1, n) = SubSeq(f, LENGTH_PREFIX + 1, n) /\ Rest(t, n) = Rest(f, n) \o d
  <2>1. PICK min \in Nat : min = LENGTH_PREFIX + 1 /\ 0 < min
    BY <1>4
  <2>2. n =< n
    BY <1>8
  <2>3. FrameInBuffer(f, d, min, n)
    BY <1>5, <1>8, <2>1, <2>2, InBuffer
  <2> QED BY <1>9, <2>1, <2>3 DEF FrameInBuffer
<1>18. SubSeq(f, LENGTH_PREFIX + 1, n) = b /\ Rest(f, n) = <<>>
  <2>1. Rest(f, LENGTH_PREFIX) = Rest(h, LENGTH_PREFIX) \o b
    <3>1. PICK l \in Nat : l = LENGTH_PREFIX
      BY <1>4
    <3>2. l =< l /\ 0 < 1 /\ 1 \in Nat
      OBVIOUS
    <3>3. FrameInBuffer(h, b, 1, l)
      BY <1>5, <3>1, <3>2, InBuffer
    <3> QED BY <1>7, <3>1, <3>3 DEF FrameInBuffer
  <2>2. Rest(h, LENGTH_PREFIX) = <<>> /\ Rest(f, n) = <<>>
    <3>1. Len(h) = LENGTH_PREFIX /\ Len(f) = n
      BY <1>5, <1>8 DEF HasLen
    <3>2. \A s, i : i \in Nat => SubSeq(s, i + 1, i) = <<>>
      <4> SUFFICES ASSUME NEW s, NEW i \in Nat PROVE SubSeq(s, i + 1, i) = <<>>
        OBVIOUS
      <4>1. i < i + 1 /\ i \in Int /\ i + 1 \in Int
        OBVIOUS
      <4> QED BY <4>1, SubSeqEmpty
    <3> QED BY <1>4, <1>8, <3>1, <3>2 DEF Rest
  <2>3. Rest(f, LENGTH_PREFIX) = SubSeq(f, LENGTH_PREFIX + 1, n)
    BY <1>8 DEF Rest, HasLen
  <2>4. <<>> \o b = b
    BY <1>5, ConcatEmptySeq DEF Bytes
  <2> QED BY <2>1, <2>2, <2>3, <2>4
<1>19. b = Answer(Payload(ngot + 1)) /\ DownAt(<<>> \o d, ngot + 1, ans, open)
  BY <1>16, <1>17, <1>18
<1>20. Len(got') = ngot + 1 /\ Len(got) = ngot
  BY <1>3, <1>5, AppendProperties DEF Bytes, HasLen
<1>21. Seen' = <<>> /\ Answers' = ans /\ ServerOpen' = open
  BY <1>1, <1>3, <1>11 DEF Seen, Answers, ServerOpen
<1>22. DownInv'
  BY <1>2, <1>3, <1>19, <1>20, <1>21 DEF DownInv
<1>23. ngot < done /\ Len(handled) = done
  BY <1>1, <1>13 DEF HasLen
<1> QED BY <1>2, <1>19, <1>20, <1>22, <1>23

LEMMA RespondKeeps ==
    ASSUME IInv, Respond
    PROVE  DownInv'
<1>0. TypeOK /\ ServerInv /\ HandledInv /\ GotInv /\ DownInv
  BY DEF IInv
<1>1. PICK size, ans, nout, ngot, done \in Nat :
         /\ HasLen(Sizes, size) /\ HasLen(server.out, nout)
         /\ HasLen(got, ngot) /\ HasLen(handled, done)
         /\ ans = Answers /\ nsent \in Nat /\ nsent =< size
         /\ ans = IF server.pc = "send" THEN done - 1 ELSE done
         /\ done =< nsent /\ ngot =< done
  BY <1>0, Numbers
<1>2. /\ server.pc = "send" /\ server.out # <<>> /\ UNCHANGED <<clients, handled>>
      /\ server'.pc \in {"recv", "handle"}
  BY <1>0, TypeParts DEF Respond, ServerInv, ServerType
<1>3. CASE ~ClientOpen
  BY <1>2, <1>3 DEF DownInv, ClientOpen, clients
<1>4. CASE ClientOpen
  <2>1. Head(server.out) = Payload(ans + 1) /\ ans + 1 \in DOMAIN Sizes /\ ans < nsent
    BY <1>1, <1>2, HeadIs DEF ServerOpen
  <2>2. PICK f, d, e : f = Seen /\ d = downlink /\ e = encode_frame(Answer(Payload(ans + 1)))
    OBVIOUS
  <2>3. downlink' = d \o e
    BY <1>4, <2>1, <2>2 DEF Respond
  <2>4. Bytes(f) /\ Bytes(d) /\ Bytes(f \o d)
    BY <1>0, <2>2, SeenType
  <2>5. Bytes(e)
    BY <2>1, <2>2, AnswerIs, FrameIs DEF Bytes
  <2>6. (f \o d) \o e = f \o (d \o e)
    BY <2>4, <2>5, JoinedFrame
  <2>7. DownAt(f \o d, ngot, ans, TRUE)
    <3>1. Len(got) = ngot /\ (ServerOpen = TRUE)
      BY <1>1, <1>2 DEF HasLen, ServerOpen
    <3> QED BY <1>0, <1>1, <1>4, <2>2, <3>1 DEF DownInv
  <2>8. DownAt((f \o d) \o e, ngot, ans + 1, TRUE)
    <3>1. PICK t : t = f \o d
      OBVIOUS
    <3>2. ans < size
      BY <1>1, <2>1
    <3>3. Bytes(t) /\ DownAt(t, ngot, ans, TRUE)
      BY <2>4, <2>7, <3>1, Zenon
    <3>4. HasLen(Sizes, size) /\ ngot \in Nat /\ ans \in Nat
      BY <1>1
    <3>5. DownAt(t \o encode_frame(Answer(Payload(ans + 1))), ngot, ans + 1, TRUE)
      BY <3>2, <3>3, <3>4, DownRespond
    <3> QED BY <2>2, <3>1, <3>5
  <2>9. Seen' = f /\ Len(got') = ngot /\ Answers' = ans + 1 /\ (ServerOpen' = TRUE)
    BY <1>1, <1>2, <2>2 DEF Seen, HasLen, Answers, ServerOpen, clients
  <2>10. DownAt(Seen' \o downlink', Len(got'), Answers', ServerOpen')
    BY <2>3, <2>6, <2>8, <2>9
  <2> QED BY <2>10 DEF DownInv
<1> QED BY <1>3, <1>4

\* When the connection closes, some bytes of the answers are lost, and so may be
\* the answer to the request that was being handled.
LEMMA ClosingKeeps ==
    ASSUME IInv, HandlerRaises \/ ServerGone
    PROVE  DownInv'
<1>0. TypeOK /\ ServerInv /\ HandledInv /\ GotInv /\ DownInv
  BY DEF IInv
<1>1. PICK size, ans, nout, ngot, done \in Nat :
         /\ HasLen(Sizes, size) /\ HasLen(server.out, nout)
         /\ HasLen(got, ngot) /\ HasLen(handled, done)
         /\ ans = Answers /\ nsent \in Nat /\ nsent =< size
         /\ ans = IF server.pc = "send" THEN done - 1 ELSE done
         /\ done =< nsent /\ ngot =< done
  BY <1>0, Numbers
<1>2. /\ downlink' \in Prefixes(downlink) /\ UNCHANGED <<clients, handled>>
      /\ server'.pc = "closed" /\ ServerOpen
  BY <1>0, TypeParts DEF HandlerRaises, ServerGone, ServerType, ServerOpen
<1>3. CASE ~ClientOpen
  BY <1>2, <1>3 DEF DownInv, ClientOpen, clients
<1>4. CASE ClientOpen
  <2>1. PICK f, d, r : f = Seen /\ d = downlink /\ r = downlink'
    OBVIOUS
  <2>2. Bytes(f) /\ Bytes(d) /\ Bytes(f \o d) /\ r \in Prefixes(d)
    BY <1>0, <1>2, <2>1, SeenType
  <2>3. PICK t, x : t = f \o d /\ x = f \o r
    OBVIOUS
  <2>4. Bytes(t) /\ Bytes(x) /\ Starting(x, t)
    BY <2>2, <2>3, JoinedPrefix
  <2>5. PICK open : open = ServerOpen
    OBVIOUS
  <2>6. DownAt(t, ngot, ans, open)
    <3>1. Len(got) = ngot
      BY <1>1 DEF HasLen
    <3> QED BY <1>0, <1>1, <1>4, <2>1, <2>3, <2>5, <3>1 DEF DownInv
  <2>7. DownAt(t, ngot, done, FALSE) \/ DownAt(t, ngot, done, open)
    <3>1. CASE server.pc = "send"
      <4>1. ans < size /\ ans + 1 = done
        BY <1>1, <3>1
      <4>2. DownAt(t, ngot, ans + 1, FALSE)
        BY <1>1, <2>4, <2>6, <4>1, DownMore
      <4> QED BY <4>1, <4>2
    <3>2. CASE server.pc # "send"
      BY <1>1, <2>6, <3>2
    <3> QED BY <3>1, <3>2
  <2>8. DownAt(x, ngot, done, FALSE)
    <3>1. done =< size
      BY <1>1
    <3>2. \A o : DownAt(t, ngot, done, o) => DownAt(x, ngot, done, FALSE)
      BY <1>1, <2>4, <3>1, DownPrefix
    <3> QED BY <2>7, <3>2
  <2>9. Seen' = f /\ Len(got') = ngot /\ Answers' = done /\ (ServerOpen' = FALSE)
    BY <1>1, <1>2, <2>1 DEF Seen, HasLen, Answers, ServerOpen, clients
  <2>10. DownAt(Seen' \o downlink', Len(got'), Answers', ServerOpen')
    BY <2>1, <2>3, <2>8, <2>9
  <2> QED BY <2>10 DEF DownInv
<1> QED BY <1>3, <1>4

\* What the client has and the stream hold the answers it has not given out.
LEMMA DownInvKept ==
    ASSUME IInv, [Next]_vars
    PROVE  DownInv'
<1>0. TypeOK /\ ServerInv /\ ClientInv /\ HandledInv /\ GotInv /\ DownInv
  BY DEF IInv
<1>1. PICK size, ans, nout, ngot, done \in Nat :
         /\ HasLen(Sizes, size) /\ HasLen(server.out, nout)
         /\ HasLen(got, ngot) /\ HasLen(handled, done)
         /\ ans = Answers /\ nsent \in Nat /\ nsent =< size
         /\ ans = IF server.pc = "send" THEN done - 1 ELSE done
         /\ done =< nsent /\ ngot =< done
  BY <1>0, Numbers
<1>2. CASE ~ClientOpen'
  BY <1>2 DEF DownInv
<1>3. CASE SendRequest \/ ReadAnswer \/ Recv \/ Extract \/ Fed \/ Handle \/ UNCHANGED vars
  <2>1. UNCHANGED <<downlink, got>>
    BY <1>3 DEF SendRequest, ReadAnswer, Recv, Extract, Fed, Handle, vars, clients
  <2>2. Seen' = Seen /\ ClientOpen' = ClientOpen
    <3>1. CASE ReadAnswer
      <4>1. Seen = <<>> /\ Seen' = <<>>
        BY <1>0, <3>1 DEF ReadAnswer, ClientInv, Seen
      <4> QED BY <3>1, <4>1 DEF ReadAnswer, ClientOpen
    <3>2. CASE ~ReadAnswer
      <4>1. client' = client
        BY <1>3, <3>2 DEF SendRequest, Recv, Extract, Fed, Handle, vars, clients
      <4> QED BY <4>1 DEF Seen, ClientOpen
    <3> QED BY <3>1, <3>2
  <2>3. Answers' = Answers /\ ServerOpen' = ServerOpen
    <3>1. CASE UNCHANGED <<server, handled>>
      BY <3>1 DEF Answers, ServerOpen
    <3>2. CASE Recv \/ Extract \/ Fed
      <4>1. /\ server.pc \in {"recv", "feed"} /\ server'.pc \in {"recv", "feed", "handle"}
            /\ handled' = handled
        BY <1>0, <3>2, TypeParts DEF Recv, Extract, Fed, ServerType
      <4> QED BY <4>1 DEF Answers, ServerOpen
    <3>3. CASE Handle
      <4>1. server.pc = "handle" /\ server'.pc = "send" /\ server.out # <<>>
        BY <1>0, <3>3, TypeParts DEF Handle, ServerType, ServerInv
      <4>2. Head(server.out) \in Seq(Byte) /\ handled \in Seq(Seq(Byte))
        BY <1>0, <4>1, OutTypes, TypeParts DEF ServerType, Counts
      <4>3. Len(handled') = done + 1
        BY <1>1, <3>3, <4>2, AppendProperties DEF Handle, HasLen
      <4>4. Answers' = ans
        BY <1>1, <4>1, <4>3 DEF Answers
      <4> QED BY <1>1, <4>1, <4>4 DEF ServerOpen
    <3> QED BY <1>3, <3>1, <3>2, <3>3 DEF SendRequest, ReadAnswer, vars
  <2> QED BY <1>0, <2>1, <2>2, <2>3 DEF DownInv
<1>4. CASE ClosedMidFrame \/ ClientGone
  <2>1. client'.pc = "closed"
    BY <1>0, <1>4, TypeParts DEF ClosedMidFrame, ClientGone, ClientType
  <2> QED BY <2>1 DEF DownInv, ClientOpen
<1>5. CASE RecvEnds \/ RespondError
  BY <1>5 DEF RecvEnds, RespondError, DownInv, ClientOpen, clients
<1> QED
  BY <1>3, <1>4, <1>5, RecvExactlyKeeps, HeaderReadKeeps, PayloadReadKeeps, RespondKeeps, ClosingKeeps
     DEF Next, ClientStep, ServerStep

LEMMA GotInvKept ==
    ASSUME IInv, [Next]_vars
    PROVE  GotInv'
<1>0. TypeOK /\ ServerInv /\ HandledInv /\ GotInv
  BY DEF IInv
<1>1. PICK size, ans, nout, ngot, done \in Nat :
         /\ HasLen(Sizes, size) /\ HasLen(server.out, nout)
         /\ HasLen(got, ngot) /\ HasLen(handled, done)
         /\ ans = Answers /\ nsent \in Nat /\ nsent =< size
         /\ ans = IF server.pc = "send" THEN done - 1 ELSE done
         /\ done =< nsent /\ ngot =< done
  BY <1>0, Numbers
<1>2. CASE UNCHANGED <<got, handled>>
  BY <1>0, <1>2 DEF GotInv
<1>3. CASE Handle
  <2>1. Head(server.out) \in Seq(Byte) /\ handled \in Seq(Seq(Byte)) /\ got' = got
    BY <1>0, <1>3, OutTypes, TypeParts DEF Handle, ServerInv, ServerType, Counts, clients
  <2>2. Len(handled') = done + 1
    BY <1>1, <1>3, <2>1, AppendProperties DEF Handle, HasLen
  <2>3. Len(got) = ngot /\ ngot =< done + 1
    BY <1>1 DEF HasLen
  <2> QED BY <1>0, <2>1, <2>2, <2>3 DEF GotInv
<1>4. CASE PayloadRead
  <2>1. Len(got) < Len(handled) /\ client.buf = Answer(Payload(Len(got) + 1))
    BY <1>4, PayloadReadKeeps
  <2>2. got' = Append(got, client.buf) /\ handled' = handled
    BY <1>4 DEF PayloadRead
  <2>3. got \in Seq(Seq(Byte)) /\ client.buf \in Seq(Byte)
    BY <1>0, TypeParts, SeenType DEF Counts, Bytes
  <2>4. PICK b, g : b = client.buf /\ g = got
    OBVIOUS
  <2>5. /\ Len(Append(g, b)) = ngot + 1 /\ Append(g, b)[ngot + 1] = b
        /\ \A i \in 1..ngot : Append(g, b)[i] = g[i]
    BY <1>1, <2>3, <2>4, AppendProperties DEF HasLen
  <2>6. Len(got) = ngot /\ Len(handled) = done
    BY <1>1 DEF HasLen
  <2>7. \A i \in 1..(ngot + 1) : got'[i] = Answer(Payload(i))
    <3> TAKE i \in 1..(ngot + 1)
    <3>1. CASE i = ngot + 1
      BY <2>1, <2>2, <2>4, <2>5, <2>6, <3>1
    <3>2. CASE i # ngot + 1
      <4>1. i \in 1..ngot
        BY <3>2
      <4> QED BY <1>0, <2>2, <2>4, <2>5, <2>6, <4>1 DEF GotInv
    <3> QED BY <3>1, <3>2
  <2>8. Len(got') = ngot + 1 /\ ngot + 1 =< Len(handled')
    BY <1>1, <2>1, <2>2, <2>4, <2>5, <2>6
  <2> QED BY <2>7, <2>8 DEF GotInv
<1> QED
  BY <1>2, <1>3, <1>4
     DEF Next, ClientStep, ServerStep, SendRequest, ReadAnswer, RecvExactly, HeaderRead,
         ClosedMidFrame, ClientGone, Recv, RecvEnds, Extract, Fed,
         HandlerRaises, Respond, RespondError, ServerGone, vars, clients

LEMMA NextIInv ==
    ASSUME IInv, [Next]_vars
    PROVE  IInv'
BY NextTypes, ServerInvKept, ClientInvKept, UpInvKept, DownInvKept, HandledInvKept, GotInvKept
   DEF IInv

LEMMA InitIInv ==
    ASSUME Init
    PROVE  IInv
<1>1. <<>> \in Seq(Byte) /\ <<>> \in Seq(Seq(Byte)) /\ Len(<<>>) = 0 /\ Len(Sizes) \in Nat
  BY EmptySeq, SizesAre
<1>2. TypeOK
  BY <1>1 DEF Init, TypeOK
<1>3. ServerInv /\ ClientInv
  BY DEF Init, ServerInv, ClientInv
<1>4. HandledInv /\ GotInv
  BY <1>1 DEF Init, HandledInv, GotInv
<1>5. /\ server.buf \o uplink = <<>> /\ Seen \o downlink = <<>> /\ server.out = <<>>
      /\ Answers = 0 /\ Len(got) = 0 /\ Len(server.out) = 0 /\ nsent = 0
      /\ (ClientOpen = TRUE) /\ (ServerOpen = TRUE)
  <2>1. <<>> \o <<>> = <<>>
    BY <1>1, ConcatEmptySeq
  <2> QED BY <1>1, <2>1 DEF Init, Seen, Answers, ClientOpen, ServerOpen
<1>6. PICK z, one : z = 0 /\ one = 1
  OBVIOUS
<1>7. UpAt(<<>>, <<>>, z, z, z, TRUE) /\ DownAt(<<>>, z, z, TRUE)
  <2>1. (z + z) + 1 = one /\ z + 1 = one /\ z + z =< z /\ z =< z /\ 1..z = {}
    BY <1>6
  <2>2. Framed(<<>>, Up, one, one, TRUE) /\ Framed(<<>>, Down, one, one, TRUE)
    BY <1>6, FramedEmpty, Zenon
  <2> QED BY <2>1, <2>2 DEF UpAt, DownAt
<1>8. UpInv /\ DownInv
  BY <1>5, <1>6, <1>7 DEF UpInv, DownInv
<1> QED BY <1>2, <1>3, <1>4, <1>8 DEF IInv

\* The bytes in the buffers and on their way are the frames not yet read, the
\* requests handled and the answers received are the first ones, in order.
THEOREM Inductive == Spec => []IInv
<1> QED BY InitIInv, NextIInv, PTL DEF Spec

\* However the bytes arrive, the variables of serve_connection, FrameDecoder and
\* _recv_exactly keep their types, and the client never reads past its frame.
THEOREM TypeCorrect == Spec => []TypeOK
<1>1. IInv => TypeOK
  BY DEF IInv
<1> QED BY <1>1, Inductive, PTL

-----------------------------------------------------------------------------
(* The connection is an exchange of whole requests and answers *)

Asked == [m \in 1..nsent |-> Payload(m)]

LEMMA AskedIs ==
    ASSUME NEW n \in Nat, n =< Len(Sizes)
    PROVE  /\ [m \in 1..n |-> Payload(m)] \in Seq(Seq(Byte))
           /\ Len([m \in 1..n |-> Payload(m)]) = n
<1>1. \A m \in 1..n : Payload(m) \in Seq(Byte)
  BY SizesAre, PayloadIs
<1> QED BY <1>1, FunctionIsSequence

LEMMA InitRefines ==
    ASSUME Init
    PROVE  Whole!Init
<1>1. Asked = <<>>
  <2>1. 0 \in Nat /\ 0 =< Len(Sizes) /\ nsent = 0
    BY SizesAre DEF Init
  <2>2. Asked \in Seq(Seq(Byte)) /\ Len(Asked) = 0
    BY <2>1, AskedIs DEF Asked
  <2> QED BY <2>2, EmptySeq
<1> QED BY <1>1 DEF Whole!Init, Init, Asked

LEMMA SendRefines ==
    ASSUME IInv, SendRequest
    PROVE  Whole!Ask
<1>1. /\ nsent \in Nat /\ nsent + 1 =< Len(Sizes) /\ nsent' = nsent + 1
      /\ UNCHANGED <<handled, got>>
  BY SizesAre, TypeParts DEF IInv, SendRequest, Counts
<1>2. PICK n \in Nat : n = nsent /\ n + 1 \in Nat /\ n + 1 =< Len(Sizes) /\ n =< Len(Sizes)
  BY <1>1, SizesAre
<1>3. n + 1 \in DOMAIN Sizes
  BY <1>2, SizesAre
<1>4. [m \in 1..(n + 1) |-> Payload(m)] = Append([m \in 1..n |-> Payload(m)], Payload(n + 1))
  <2> DEFINE old == [m \in 1..n |-> Payload(m)]
             new == [m \in 1..(n + 1) |-> Payload(m)]
  <2>1. old \in Seq(Seq(Byte)) /\ Len(old) = n /\ new \in Seq(Seq(Byte)) /\ Len(new) = n + 1
    BY <1>2, AskedIs
  <2>2. Payload(n + 1) \in Seq(Byte)
    BY <1>3, PayloadIs
  <2>3. /\ \A m \in 1..n : old[m] = Payload(m)
        /\ \A m \in 1..(n + 1) : new[m] = Payload(m)
    OBVIOUS
  <2> HIDE DEF old, new
  <2>4. /\ Append(old, Payload(n + 1)) \in Seq(Seq(Byte))
        /\ Len(Append(old, Payload(n + 1))) = n + 1
        /\ Append(old, Payload(n + 1))[n + 1] = Payload(n + 1)
        /\ \A m \in 1..n : Append(old, Payload(n + 1))[m] = old[m]
    BY <2>1, <2>2, AppendProperties
  <2>5. \A m \in 1..(n + 1) : new[m] = Append(old, Payload(n + 1))[m]
    <3> TAKE m \in 1..(n + 1)
    <3>1. CASE m = n + 1
      BY <2>3, <2>4, <3>1
    <3>2. CASE m # n + 1
      <4>1. m \in 1..n
        BY <3>2
      <4> QED BY <2>3, <2>4, <4>1
    <3> QED BY <3>1, <3>2
  <2>6. new = Append(old, Payload(n + 1))
    BY <2>1, <2>4, <2>5, SeqEqual
  <2> QED BY <2>6 DEF old, new
<1>5. Payload(nsent + 1) \in {Payload(m) : m \in DOMAIN Sizes}
  BY <1>2, <1>3
<1>6. Asked' = Append(Asked, Payload(nsent + 1))
  BY <1>1, <1>2, <1>4 DEF Asked
<1> QED BY <1>1, <1>5, <1>6 DEF Whole!Ask, Asked

LEMMA HandleRefines ==
    ASSUME IInv, Handle
    PROVE  Whole!Handle
<1>1. /\ server.out # <<>> /\ ServerOpen /\ Answers = Len(handled)
      /\ UNCHANGED <<nsent, got>> /\ handled' = Append(handled, Head(server.out))
  BY DEF IInv, ServerInv, Handle, ServerOpen, Answers, clients
<1>2. Head(server.out) = Payload(Len(handled) + 1) /\ Len(handled) < nsent
  BY <1>1, HeadIs
<1>3. Len(handled) \in Nat /\ nsent \in Nat /\ nsent =< Len(Sizes)
  BY SizesAre, LenProperties, TypeParts DEF IInv, Counts
<1>4. Len(Asked) = nsent
  BY <1>3, AskedIs DEF Asked
<1>5. Asked[Len(handled) + 1] = Payload(Len(handled) + 1)
  <2>1. Len(handled) + 1 \in 1..nsent
    BY <1>2, <1>3
  <2> QED BY <2>1 DEF Asked
<1>6. Asked' = Asked
  BY <1>1 DEF Asked
<1> QED BY <1>1, <1>2, <1>4, <1>5, <1>6 DEF Whole!Handle, Asked

LEMMA GetRefines ==
    ASSUME IInv, PayloadRead
    PROVE  Whole!Get
<1>1. Len(got) < Len(handled) /\ client.buf = Answer(Payload(Len(got) + 1))
  BY PayloadReadKeeps
<1>2. Len(got) \in Nat /\ Len(handled) \in Nat
  BY LenProperties, TypeParts DEF IInv, Counts
<1>3. handled[Len(got) + 1] = Payload(Len(got) + 1)
  <2>1. Len(got) + 1 \in 1..Len(handled)
    BY <1>1, <1>2
  <2> QED BY <2>1 DEF IInv, HandledInv
<1>4. got' = Append(got, client.buf) /\ UNCHANGED <<nsent, handled>>
  BY DEF PayloadRead
<1>5. Asked' = Asked
  BY <1>4 DEF Asked
<1> QED BY <1>1, <1>3, <1>4, <1>5 DEF Whole!Get, Asked

LEMMA NextRefines ==
    ASSUME IInv, [Next]_vars
    PROVE  [Whole!Ask \/ Whole!Handle \/ Whole!Get]_<<Asked, handled, got>>
<1>1. CASE SendRequest
  BY <1>1, SendRefines
<1>2. CASE Handle
  BY <1>2, HandleRefines
<1>3. CASE PayloadRead
  BY <1>3, GetRefines
<1>4. CASE ~(SendRequest \/ Handle \/ PayloadRead)
  <2>1. UNCHANGED <<nsent, handled, got>>
    BY <1>4 DEF Next, ClientStep, ServerStep, ReadAnswer, RecvExactly, HeaderRead,
                ClosedMidFrame, ClientGone, Recv, RecvEnds, Extract, Fed,
                HandlerRaises, Respond, RespondError, ServerGone, vars, clients
  <2>2. Asked' = Asked
    BY <2>1 DEF Asked
  <2> QED BY <2>1, <2>2
<1> QED BY <1>1, <1>2, <1>3, <1>4

\* However the stream is cut, and whenever either side goes away, the handler is
\* called with the requests whole, in order and once, and the n-th payload that
\* Client reads is the answer to its n-th request.
THEOREM Implements == Spec => ImplementsExchange
<1>1. [Whole!Ask \/ Whole!Handle \/ Whole!Get]_<<Asked, handled, got>> =>
         [Whole!Ask \/ Whole!Handle \/ Whole!Get]_<<[m \in 1..nsent |-> Payload(m)], handled, got>>
  BY DEF Asked
<1> QED
  BY <1>1, Inductive, InitRefines, NextRefines, PTL DEF Spec, ImplementsExchange, Whole!Spec
=============================================================================
