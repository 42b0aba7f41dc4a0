--------------------------- MODULE ComponentsProofs ---------------------------
(***************************************************************************)
(* Proofs about four components that keep state and share none: the write  *)
(* cache, one data file, the metadata of the partitions and the ids of     *)
(* series; and about those that compute: windows of an aggregation,        *)
(* partitions of time, batches, percentiles and increases.                 *)
(***************************************************************************)
EXTENDS WriteCache, FileManager, PartitionMetadata, SeriesKeys, Algorithms,
        FiniteSetTheorems, SequenceTheorems, WellFoundedInduction, TLAPS

-----------------------------------------------------------------------------
(* The write cache, for every set of callers, points and batches *)

\* A point that was added is in one place: with a thread, in the cache, or
\* given to write_batch; one that was not added is nowhere.
PlaceInv ==
    /\ cache \subseteq added
    /\ \A t \in Threads :
          /\ th[t].points \subseteq added
          /\ th[t].points \cap cache = {}
          /\ \A s \in Threads \ {t} : th[t].points \cap th[s].points = {}
          /\ th[t].pc \in {"idle", "flushing", "clearing"} => th[t].points = {}
    /\ \A p \in Point :
          handed[p] = 0 \/
             /\ handed[p] = 1 /\ p \in added \ cache
             /\ \A t \in Threads : p \notin th[t].points

CacheInv == CacheTypeOK /\ PlaceInv

LEMMA IdleFields == IdleThread.pc = "idle" /\ IdleThread.points = {}
BY DEF IdleThread

LEMMA CacheInitInv == CacheInit => CacheInv
<1> SUFFICES ASSUME CacheInit PROVE CacheInv
  OBVIOUS
<1>1. \A t \in Threads : th[t].points = {}
  BY IdleFields DEF CacheInit
<1>2. CacheTypeOK
  BY DEF CacheInit, CacheTypeOK, IdleThread
<1>3. PlaceInv
  BY <1>1 DEF CacheInit, PlaceInv
<1> QED BY <1>2, <1>3 DEF CacheInv

LEMMA CacheNextInv == CacheInv /\ [CacheNext]_cacheVars => CacheInv'
<1> SUFFICES ASSUME CacheInv, [CacheNext]_cacheVars PROVE CacheInv'
  OBVIOUS
<1> USE IdleFields DEF CacheInv
<1>0. /\ \A t \in Threads : th[t].points \subseteq Point
      /\ Callers \subseteq Threads /\ Background \in Threads
  BY DEF CacheTypeOK, Threads
<1>1. ASSUME NEW t \in Callers, NEW b \in Batches, AddBegin(t, b) PROVE CacheInv'
  <2>1. b \in SUBSET Point
    BY CacheAssumption
  <2>2. /\ th'[t].points = b /\ th'[t].pc = "adding"
        /\ \A s \in Threads \ {t} : th'[s] = th[s]
    BY <1>0, <1>1 DEF AddBegin, CacheTypeOK
  <2>3. CacheTypeOK'
    BY <2>1, <1>1 DEF AddBegin, CacheTypeOK
  <2>4. PlaceInv'
    BY <1>0, <1>1, <2>1, <2>2 DEF AddBegin, CacheTypeOK, PlaceInv
  <2> QED BY <2>3, <2>4
<1>2. ASSUME NEW t \in Callers, AddPoints(t) PROVE CacheInv'
  <2>2. /\ th'[t].points = {} /\ th'[t].pc = "idle"
        /\ \A s \in Threads \ {t} : th'[s] = th[s]
    BY <1>0, <1>2 DEF AddPoints, CacheTypeOK
  <2>3. CacheTypeOK'
    BY <1>0, <1>2 DEF AddPoints, CacheTypeOK, IdleThread
  <2>4. PlaceInv'
    BY <1>0, <1>2, <2>2 DEF AddPoints, CacheTypeOK, PlaceInv
  <2> QED BY <2>3, <2>4
<1>3. ASSUME NEW t \in Callers, FlushBegin(t) PROVE CacheInv'
  <2>2. /\ th'[t].points = th[t].points /\ th'[t].pc = "flushing"
        /\ \A s \in Threads \ {t} : th'[s] = th[s]
    BY <1>0, <1>3 DEF FlushBegin, CacheTypeOK
  <2>3. CacheTypeOK'
    BY <1>0, <1>3 DEF FlushBegin, CacheTypeOK
  <2>4. PlaceInv'
    BY <1>0, <1>3, <2>2 DEF FlushBegin, CacheTypeOK, PlaceInv
  <2> QED BY <2>3, <2>4
<1>4. ASSUME NEW t \in Threads, FlushNothing(t) PROVE CacheInv'
  <2>2. /\ th'[t].points = {} /\ th'[t].pc = "idle"
        /\ \A s \in Threads \ {t} : th'[s] = th[s]
    BY <1>4 DEF FlushNothing, CacheTypeOK
  <2>3. CacheTypeOK'
    BY <1>4 DEF FlushNothing, CacheTypeOK, IdleThread
  <2>4. PlaceInv'
    BY <1>4, <2>2 DEF FlushNothing, CacheTypeOK, PlaceInv
  <2> QED BY <2>3, <2>4
<1>5. ASSUME NEW t \in Threads, TakeCache(t) PROVE CacheInv'
  <2>2. /\ th'[t].points = cache /\ th'[t].pc = "writing" /\ cache' = {}
        /\ \A s \in Threads \ {t} : th'[s] = th[s]
    BY <1>5 DEF TakeCache, CacheTypeOK
  <2>3. CacheTypeOK'
    BY <1>5 DEF TakeCache, CacheTypeOK
  <2>4. PlaceInv'
    BY <1>5, <2>2 DEF TakeCache, CacheTypeOK, PlaceInv
  <2> QED BY <2>3, <2>4
\* Whether write_batch returned or raised.
<1>6. ASSUME NEW t \in Threads, th[t].pc = "writing",
             handed' = [p \in Point |-> IF p \in th[t].points THEN handed[p] + 1 ELSE handed[p]],
             \E S \in SUBSET th[t].points : stored' = stored \cup S,
             NEW y \in [pc : {"idle", "clearing"}, points : {{}}],
             th' = [th EXCEPT ![t] = y],
             UNCHANGED <<cache, lock, due, added, flushes>>
      PROVE  CacheInv'
  <2>1. \A p \in th[t].points : handed[p] = 0 /\ handed'[p] = 1
    BY <1>0, <1>6 DEF CacheTypeOK, PlaceInv
  <2>2. /\ th'[t].points = {}
        /\ \A s \in Threads \ {t} : th'[s] = th[s]
    BY <1>6 DEF CacheTypeOK
  <2>3. CacheTypeOK'
    <3>1. th' \in [Threads -> [pc : {"idle", "adding", "flushing", "writing", "clearing"},
                              points : SUBSET Point]]
      BY <1>6 DEF CacheTypeOK
    <3>2. handed' \in [Point -> Nat]
      BY <1>6 DEF CacheTypeOK
    <3> QED BY <1>0, <1>6, <3>1, <3>2 DEF CacheTypeOK
  <2>4. \A p \in Point \ th[t].points : handed'[p] = handed[p]
    BY <1>6
  <2>5. PlaceInv'
    <3>1. cache' \subseteq added'
      BY <1>6 DEF PlaceInv
    <3>2. \A s \in Threads :
             /\ th'[s].points \subseteq added'
             /\ th'[s].points \cap cache' = {}
             /\ \A r \in Threads \ {s} : th'[s].points \cap th'[r].points = {}
             /\ th'[s].pc \in {"idle", "flushing", "clearing"} => th'[s].points = {}
      BY <1>6, <2>2 DEF PlaceInv
    <3>3. \A p \in Point :
             handed'[p] = 0 \/
                /\ handed'[p] = 1 /\ p \in added' \ cache'
                /\ \A s \in Threads : p \notin th'[s].points
      BY <1>6, <2>1, <2>2, <2>4 DEF PlaceInv
    <3> QED BY <3>1, <3>2, <3>3 DEF PlaceInv
  <2> QED BY <2>3, <2>5
<1>7. ASSUME NEW t \in Threads, WriteCached(t) \/ WriteRaises(t) PROVE CacheInv'
  <2>1. /\ [pc |-> "clearing", points |-> {}] \in [pc : {"idle", "clearing"}, points : {{}}]
        /\ IdleThread \in [pc : {"idle", "clearing"}, points : {{}}]
    BY DEF IdleThread
  <2> QED BY <1>6, <1>7, <2>1 DEF WriteCached, WriteRaises
<1>8. ASSUME NEW t \in Threads, ClearCache(t) PROVE CacheInv'
  <2>2. /\ th'[t].points = {} /\ th'[t].pc = "idle" /\ cache' = {}
        /\ \A s \in Threads \ {t} : th'[s] = th[s]
    BY <1>8 DEF ClearCache, CacheTypeOK
  <2>3. CacheTypeOK'
    BY <1>8 DEF ClearCache, CacheTypeOK, IdleThread
  <2>4. PlaceInv'
    BY <1>8, <2>2 DEF ClearCache, CacheTypeOK, PlaceInv
  <2> QED BY <2>3, <2>4
<1>9. CASE Wake
  <2>2. /\ th'[Background].points = th[Background].points /\ th'[Background].pc = "flushing"
        /\ \A s \in Threads \ {Background} : th'[s] = th[s]
    BY <1>0, <1>9 DEF Wake, CacheTypeOK
  <2>3. CacheTypeOK'
    BY <1>0, <1>9 DEF Wake, CacheTypeOK
  <2>4. PlaceInv'
    BY <1>0, <1>9, <2>2 DEF Wake, CacheTypeOK, PlaceInv
  <2> QED BY <2>3, <2>4
<1>10. CASE TimePasses
  BY <1>10 DEF TimePasses, CacheTypeOK, PlaceInv
<1>11. CASE UNCHANGED cacheVars
  BY <1>11 DEF cacheVars, CacheTypeOK, PlaceInv
<1> QED
  BY <1>1, <1>2, <1>3, <1>4, <1>5, <1>7, <1>8, <1>9, <1>10, <1>11 DEF CacheNext, FlushStep

\* Every variable of the cache keeps its type.
THEOREM Cache_type_correct == CacheSpec => []CacheTypeOK
<1>1. CacheInv => CacheTypeOK
  BY DEF CacheInv
<1> QED BY <1>1, CacheInitInv, CacheNextInv, PTL DEF CacheSpec

\* No point is given to write_batch twice, by any number of concurrent flushes:
\* copy and clear are one section of self.lock.
THEOREM Written_once == CacheSpec => []WrittenOnce
<1>1. CacheInv => WrittenOnce
  BY DEF CacheInv, PlaceInv, WrittenOnce
<1> QED BY <1>1, CacheInitInv, CacheNextInv, PTL DEF CacheSpec

-----------------------------------------------------------------------------
(* A data file with one writer, under any number of failures and kills *)

\* The point a call adds is new: in no line, not acknowledged, not in doubt.
NewIn(p, lines) == p \notin ToSet(lines) /\ p \notin ToSet(acked) /\ p \notin unsure

\* What a call under way has read and written, when it started from old.
CallInv(x, old) ==
    /\ old \in Seq(Line) /\ x.point \in used /\ x.lines = Append(old, x.point)
    /\ NewIn(x.point, old) /\ Holds(old, acked, unsure)
    /\ x.pc # "done" => old = Present
    /\ x.pc = "done" => Present = x.lines
    /\ x.pc = "write" => x.node = temp /\ temp # NoFile /\ body[temp] = <<>>
    /\ x.pc = "replace" => temp # NoFile /\ body[temp] = x.lines

CallType == [pc : {"idle", "open", "write", "replace", "done"}, lines : Seq(Line),
             point : Line \cup {NoCall.point}, node : Inode \cup {NoFile}]

WritersInv ==
    /\ \A t \in Writers : w[t].pc # "idle" => \E old : CallInv(w[t], old)
    /\ (\A t \in Writers : w[t].pc = "idle") => Holds(Present, acked, unsure)

FileInv ==
    /\ data \in Inode \cup {NoFile} /\ temp \in Inode \cup {NoFile}
    /\ data = temp => data = NoFile
    /\ body = [n \in Inode |-> body[n]] /\ w \in [Writers -> CallType]
    /\ Present \in Seq(Line) /\ acked \in Seq(Line) /\ used \subseteq Line
    /\ ToSet(Present) \cup ToSet(acked) \cup unsure \subseteq used
    /\ WritersInv

\* Holds, in two parts.
Settled(lines, open) == {i \in DOMAIN lines : lines[i] \notin open}
At(s, places) == {s[i] : i \in places}
Ordered(lines, settled, ok, places) ==
    \A i, j \in settled : i < j => \E m, n \in places : m < n /\ ok[m] = lines[i] /\ ok[n] = lines[j]

LEMMA HoldsIs ==
    ASSUME NEW lines, NEW ok, NEW open
    PROVE  Holds(lines, ok, open) <=>
              /\ At(lines, Settled(lines, open)) = At(ok, DOMAIN ok)
              /\ Ordered(lines, Settled(lines, open), ok, DOMAIN ok)
BY DEF Holds, ToSet, At, Settled, Ordered

\* A new point at the end of the file, in doubt or acknowledged.
LEMMA HoldsNew ==
    ASSUME NEW ls \in Seq(Line), NEW ok \in Seq(Line), NEW open, NEW p \in Line,
           p \notin ToSet(ls), p \notin open, Holds(ls, ok, open)
    PROVE  /\ Holds(Append(ls, p), ok, open \cup {p})
           /\ Holds(Append(ls, p), Append(ok, p), open)
<1>1. PICK n, k \in Nat : n = Len(ls) /\ k = Len(ok) /\ DOMAIN ls = 1..n /\ DOMAIN ok = 1..k
  BY LenProperties
<1>2. PICK new : new = Append(ls, p)
  OBVIOUS
<1>3. PICK more : more = Append(ok, p)
  OBVIOUS
<1>4. /\ DOMAIN new = 1..(n + 1) /\ new[n + 1] = p /\ \A i \in 1..n : new[i] = ls[i]
      /\ DOMAIN more = 1..(k + 1) /\ more[k + 1] = p /\ \A i \in 1..k : more[i] = ok[i]
  BY <1>1, <1>2, <1>3, AppendProperties
<1>5. \A i \in 1..n : ls[i] # p
  BY <1>1 DEF ToSet
<1>6. PICK settled \in SUBSET (1..n) : settled = Settled(ls, open)
  BY <1>1 DEF Settled
<1>7. At(ls, settled) = At(ok, 1..k) /\ Ordered(ls, settled, ok, 1..k)
  BY <1>1, <1>6, HoldsIs
<1>8. Settled(new, open \cup {p}) = settled
  <2>1. \A i \in 1..(n + 1) : i \in 1..n \/ i = n + 1
    OBVIOUS
  <2>2. 1..n \subseteq 1..(n + 1)
    OBVIOUS
  <2> QED BY <1>1, <1>4, <1>5, <1>6, <2>1, <2>2 DEF Settled
<1>9. Settled(new, open) = settled \cup {n + 1}
  <2>1. \A i \in 1..(n + 1) : i \in 1..n \/ i = n + 1
    OBVIOUS
  <2>2. 1..n \subseteq 1..(n + 1) /\ n + 1 \in 1..(n + 1)
    OBVIOUS
  <2> QED BY <1>1, <1>4, <1>5, <1>6, <2>1, <2>2 DEF Settled
<1>10. \A i \in settled : new[i] = ls[i]
  BY <1>4
<1>11. Holds(new, ok, open \cup {p})
  <2>1. At(new, settled) = At(ls, settled)
    BY <1>10 DEF At
  <2>2. Ordered(new, settled, ok, 1..k)
    BY <1>7, <1>10 DEF Ordered
  <2> QED BY <1>1, <1>7, <1>8, <2>1, <2>2, HoldsIs
<1>12. Holds(new, more, open)
  <2>1. 1..k \subseteq 1..(k + 1) /\ k + 1 \in 1..(k + 1) /\ \A i \in 1..(k + 1) : i \in 1..k \/ i = k + 1
    OBVIOUS
  <2>2. At(new, settled \cup {n + 1}) = At(ls, settled) \cup {p}
    BY <1>4, <1>10 DEF At
  <2>3. At(more, 1..(k + 1)) = At(ok, 1..k) \cup {p}
    BY <1>4, <2>1 DEF At
  <2>4. ASSUME NEW i \in settled \cup {n + 1}, NEW j \in settled \cup {n + 1}, i < j
        PROVE  \E m, o \in 1..(k + 1) : m < o /\ more[m] = new[i] /\ more[o] = new[j]
    <3>1. i \in settled /\ i \in 1..n
      BY <2>4
    <3>2. CASE j \in settled
      <4>1. PICK m, o \in 1..k : m < o /\ ok[m] = ls[i] /\ ok[o] = ls[j]
        BY <1>7, <2>4, <3>1, <3>2 DEF Ordered
      <4> QED BY <1>4, <1>10, <2>1, <3>1, <3>2, <4>1
    <3>3. CASE j = n + 1
      <4>1. PICK m \in 1..k : ok[m] = ls[i]
        BY <1>7, <3>1 DEF At
      <4>2. m < k + 1
        OBVIOUS
      <4> QED BY <1>4, <1>10, <2>1, <3>1, <3>3, <4>1, <4>2
    <3> QED BY <2>4, <3>2, <3>3
  <2>5. Ordered(new, settled \cup {n + 1}, more, 1..(k + 1))
    BY <2>4 DEF Ordered
  <2>6. At(new, settled \cup {n + 1}) = At(more, 1..(k + 1))
    BY <1>7, <2>2, <2>3
  <2> QED BY <1>4, <1>9, <2>5, <2>6, HoldsIs
<1> QED BY <1>2, <1>3, <1>11, <1>12

LEMMA FileInitInv == FileInit => FileInv
<1> SUFFICES ASSUME FileInit PROVE FileInv
  OBVIOUS
<1>1. Present = <<>> /\ acked = <<>> /\ <<>> \in Seq(Line) /\ ToSet(<<>>) = {} /\ unsure = {}
  BY EmptySeq DEF FileInit, Present, ToSet
<1>2. \A t \in Writers : w[t].pc = "idle"
  BY DEF FileInit, NoCall
<1>3. Holds(Present, acked, unsure)
  <2>1. DOMAIN <<>> = {}
    OBVIOUS
  <2>2. PICK none : none = <<>>
    OBVIOUS
  <2> QED BY <1>1, <2>1, <2>2, HoldsIs DEF At, Settled, Ordered
<1>4. w = [t \in Writers |-> NoCall] /\ NoCall \in CallType
  BY EmptySeq DEF FileInit, NoCall, CallType
<1> QED BY <1>1, <1>2, <1>3, <1>4 DEF FileInit, FileInv, WritersInv

\* What is written to a file that has not the name yet does not matter.
LEMMA OtherFile ==
    ASSUME FileInv, NEW n \in Inode, n # data, NEW c, body' = [body EXCEPT ![n] = c],
           data' = data
    PROVE  Present' = Present /\ body'[n] = c /\ body' = [m \in Inode |-> body'[m]]
<1>1. /\ data \in Inode \cup {NoFile} /\ body = [m \in Inode |-> body[m]]
  BY DEF FileInv
<1>2. body' = [m \in Inode |-> IF m = n THEN c ELSE body[m]]
  BY <1>1
<1>3. \A m \in Inode : body'[m] = IF m = n THEN c ELSE body[m]
  BY <1>2
<1>4. body' = [m \in Inode |-> body'[m]]
  BY <1>2, <1>3
<1>5. data # NoFile => body'[data] = body[data]
  BY <1>1, <1>3
<1> QED BY <1>3, <1>4, <1>5 DEF Present

\* The one writer goes on: what its new call must satisfy.
LEMMA CallGoesOn ==
    ASSUME \A s, t \in Writers : s = t, FileInv, NEW t \in Writers, NEW x,
           w' = [w EXCEPT ![t] = x],
           x \in CallType, x.pc # "idle" => \E old : CallInv(x, old)',
           x.pc = "idle" => Holds(Present', acked', unsure')
    PROVE  w' \in [Writers -> CallType] /\ WritersInv'
<1>1. w \in [Writers -> CallType]
  BY DEF FileInv
<1>2. \A s \in Writers : w'[s] = x
  BY <1>1
<1>3. w' \in [Writers -> CallType]
  BY <1>1
<1> QED BY <1>2, <1>3 DEF WritersInv

\* Present is as the points need it, unless the writer has just renamed its file.
LEMMA HoldsNow ==
    ASSUME FileInv, \A s, t \in Writers : s = t, \A t \in Writers : w[t].pc # "done"
    PROVE  Holds(Present, acked, unsure)
<1>1. CASE \A t \in Writers : w[t].pc = "idle"
  BY <1>1 DEF FileInv, WritersInv
<1>2. CASE \E t \in Writers : w[t].pc # "idle"
  <2>1. PICK t \in Writers : w[t].pc # "idle"
    BY <1>2
  <2>2. PICK old : CallInv(w[t], old)
    BY <2>1 DEF FileInv, WritersInv
  <2> QED BY <2>2 DEF CallInv
<1> QED BY <1>1, <1>2

LEMMA ReadExistingKeeps ==
    ASSUME \A s, t \in Writers : s = t, FileInv, NEW t \in Writers, NEW p \in Line,
           ReadExisting(t, p)
    PROVE  FileInv'
<1>1. /\ w[t].pc = "idle" /\ p \notin used /\ used' = used \cup {p}
      /\ UNCHANGED <<data, temp, body, acked, unsure, faults>>
  BY DEF ReadExisting
<1>2. Present' = Present
  BY <1>1 DEF Present
<1>3. Cut \notin ToSet(Present)
  <2>1. ToSet(Present) \subseteq Line
    BY DEF FileInv
  <2> QED BY <2>1, FileAssumption DEF FileAssumption
<1>4. PICK x : x = [NoCall EXCEPT !.pc = "open", !.point = p, !.lines = Append(Present, p)]
  OBVIOUS
<1>5. w' = [w EXCEPT ![t] = x]
  BY <1>3, <1>4 DEF ReadExisting
<1>6. x \in CallType /\ x.pc = "open" /\ x.point = p /\ x.lines = Append(Present, p)
  <2>1. NoCall \in CallType
    BY EmptySeq DEF NoCall, CallType
  <2>2. Append(Present, p) \in Seq(Line)
    BY AppendProperties DEF FileInv
  <2> QED BY <1>4, <2>1, <2>2 DEF CallType
<1>7. Holds(Present, acked, unsure)
  BY <1>1, HoldsNow
<1>8. NewIn(p, Present)
  BY <1>1 DEF FileInv, NewIn
<1>9. CallInv(x, Present)'
  BY <1>1, <1>2, <1>6, <1>7, <1>8 DEF CallInv, FileInv, NewIn
<1>10. w' \in [Writers -> CallType] /\ WritersInv'
  BY <1>5, <1>6, <1>9, CallGoesOn
<1> QED BY <1>1, <1>2, <1>10 DEF FileInv

LEMMA OpenTempKeeps ==
    ASSUME \A s, t \in Writers : s = t, FileInv, NEW t \in Writers, OpenTemp(t)
    PROVE  FileInv'
<1>1. w[t].pc = "open" /\ UNCHANGED <<data, used, acked, unsure, faults>>
  BY DEF OpenTemp
<1>2. PICK n \in Inode :
         /\ IF temp # NoFile THEN n = temp ELSE n \in Unused
         /\ body' = [body EXCEPT ![n] = <<>>] /\ temp' = n
         /\ w' = [w EXCEPT ![t].pc = "write", ![t].node = n]
  BY DEF OpenTemp
<1>3. n # data /\ n # NoFile
  BY <1>2, FileAssumption DEF FileInv, FileAssumption, Unused
<1>4. Present' = Present /\ body'[n] = <<>> /\ body' = [m \in Inode |-> body'[m]]
  BY <1>1, <1>2, <1>3, OtherFile
<1>5. PICK old : CallInv(w[t], old)
  BY <1>1 DEF FileInv, WritersInv
<1>6. PICK x : x = [w[t] EXCEPT !.pc = "write", !.node = n]
  OBVIOUS
<1>7. /\ x \in CallType /\ x.pc = "write" /\ x.node = n
      /\ x.lines = w[t].lines /\ x.point = w[t].point
  BY <1>6 DEF FileInv, CallType
<1>8. w' = [w EXCEPT ![t] = x]
  BY <1>2, <1>6 DEF FileInv
<1>9. CallInv(x, old)'
  BY <1>1, <1>2, <1>3, <1>4, <1>5, <1>7 DEF CallInv, NewIn
<1>10. w' \in [Writers -> CallType] /\ WritersInv'
  BY <1>7, <1>8, <1>9, CallGoesOn
<1> QED BY <1>1, <1>2, <1>3, <1>4, <1>10 DEF FileInv

LEMMA AppendSet ==
    ASSUME NEW S, NEW ls \in Seq(S), NEW p \in S
    PROVE  Append(ls, p) \in Seq(S) /\ ToSet(Append(ls, p)) = ToSet(ls) \cup {p}
<1>1. PICK n \in Nat : n = Len(ls) /\ DOMAIN ls = 1..n
  BY LenProperties
<1>2. PICK new : new = Append(ls, p)
  OBVIOUS
<1>3. /\ new \in Seq(S) /\ DOMAIN new = 1..(n + 1) /\ new[n + 1] = p
      /\ \A i \in 1..n : new[i] = ls[i]
  BY <1>1, <1>2, AppendProperties
<1>4. 1..n \subseteq 1..(n + 1) /\ n + 1 \in 1..(n + 1) /\ \A i \in 1..(n + 1) : i \in 1..n \/ i = n + 1
  OBVIOUS
<1>5. {new[i] : i \in 1..(n + 1)} = {ls[i] : i \in 1..n} \cup {p}
  BY <1>3, <1>4
<1> QED BY <1>1, <1>2, <1>3, <1>5 DEF ToSet

LEMMA OverNothing ==
    ASSUME NEW new \in Seq(Line)
    PROVE  Over(new, <<>>) = new
<1>1. PICK n \in Nat : n = Len(new) /\ new = [i \in 1..n |-> new[i]]
  BY LenProperties
<1>2. Len(<<>>) = 0
  OBVIOUS
<1>3. (IF Len(new) > Len(<<>>) THEN Len(new) ELSE Len(<<>>)) = n
  BY <1>1, <1>2
<1>4. PICK none : none = <<>>
  OBVIOUS
<1>5. Over(new, none) = [i \in 1..n |-> IF i =< n THEN new[i] ELSE none[i]]
  BY <1>1, <1>3, <1>4 DEF Over
<1>6. \A i \in 1..n : i =< n
  OBVIOUS
<1>7. [i \in 1..n |-> IF i =< n THEN new[i] ELSE none[i]] = [i \in 1..n |-> new[i]]
  BY <1>6, Zenon
<1> QED BY <1>1, <1>4, <1>5, <1>7

LEMMA WriteTempKeeps ==
    ASSUME \A s, t \in Writers : s = t, FileInv, NEW t \in Writers, WriteTemp(t)
    PROVE  FileInv'
<1>1. /\ w[t].pc = "write" /\ UNCHANGED <<data, temp, used, acked, unsure, faults>>
      /\ body' = [body EXCEPT ![w[t].node] = Over(w[t].lines, @)]
      /\ w' = [w EXCEPT ![t].pc = "replace"]
  BY DEF WriteTemp
<1>2. PICK old : CallInv(w[t], old)
  BY <1>1 DEF FileInv, WritersInv
<1>3. w[t].node = temp /\ temp # NoFile /\ temp \in Inode /\ temp # data /\ body[temp] = <<>>
  BY <1>1, <1>2 DEF CallInv, FileInv
<1>4. w[t].lines \in Seq(Line)
  BY DEF FileInv, CallType
<1>5. body' = [body EXCEPT ![temp] = w[t].lines]
  <2>1. body' = [body EXCEPT ![temp] = Over(w[t].lines, body[temp])]
    BY <1>1, <1>3
  <2> QED BY <1>3, <1>4, <2>1, OverNothing
<1>6. PICK n, c : n = temp /\ c = w[t].lines
  OBVIOUS
<1>7. Present' = Present /\ body'[n] = c /\ body' = [m \in Inode |-> body'[m]]
  BY <1>1, <1>3, <1>5, <1>6, OtherFile
<1>8. PICK x : x = [w[t] EXCEPT !.pc = "replace"]
  OBVIOUS
<1>9. /\ x \in CallType /\ x.pc = "replace" /\ x.lines = c /\ x.point = w[t].point
  BY <1>6, <1>8 DEF FileInv, CallType
<1>10. w' = [w EXCEPT ![t] = x]
  BY <1>1, <1>8 DEF FileInv
<1>11. CallInv(x, old)'
  BY <1>1, <1>2, <1>3, <1>6, <1>7, <1>9 DEF CallInv, NewIn
<1>12. w' \in [Writers -> CallType] /\ WritersInv'
  BY <1>9, <1>10, <1>11, CallGoesOn
<1> QED BY <1>1, <1>7, <1>12 DEF FileInv

LEMMA WriteFailsKeeps ==
    ASSUME \A s, t \in Writers : s = t, FileInv, NEW t \in Writers, DumpsRaises(t) \/ WriteError(t)
    PROVE  FileInv'
<1>1. /\ w[t].pc = "write" /\ UNCHANGED <<data, temp, used, acked, unsure>>
      /\ w' = [w EXCEPT ![t] = NoCall]
  BY DEF DumpsRaises, WriteError
<1>2. PICK c : body' = [body EXCEPT ![w[t].node] = c]
  BY DEF DumpsRaises, WriteError
<1>3. PICK old : CallInv(w[t], old)
  BY <1>1 DEF FileInv, WritersInv
<1>4. w[t].node = temp /\ temp # NoFile /\ temp \in Inode /\ temp # data
  BY <1>1, <1>3 DEF CallInv, FileInv
<1>5. PICK n : n = temp
  OBVIOUS
<1>6. Present' = Present /\ body' = [m \in Inode |-> body'[m]]
  BY <1>1, <1>2, <1>4, <1>5, OtherFile
<1>7. Holds(Present', acked', unsure')
  BY <1>1, <1>3, <1>6 DEF CallInv
<1>8. NoCall \in CallType /\ NoCall.pc = "idle"
  BY EmptySeq DEF NoCall, CallType
<1>9. w' \in [Writers -> CallType] /\ WritersInv'
  BY <1>1, <1>7, <1>8, CallGoesOn
<1> QED BY <1>1, <1>6, <1>9 DEF FileInv

LEMMA ReplaceKeeps ==
    ASSUME \A s, t \in Writers : s = t, FileInv, NEW t \in Writers, Replace(t)
    PROVE  FileInv'
<1>1. w[t].pc = "replace" /\ UNCHANGED <<body, used, acked, unsure, faults>>
  BY DEF Replace
<1>2. PICK old : CallInv(w[t], old)
  BY <1>1 DEF FileInv, WritersInv
<1>3. temp # NoFile /\ temp \in Inode /\ body[temp] = w[t].lines
  BY <1>1, <1>2 DEF CallInv, FileInv
<1>4. data' = temp /\ temp' = NoFile /\ w' = [w EXCEPT ![t].pc = "done"]
  BY <1>3 DEF Replace
<1>5. Present' = w[t].lines
  BY <1>1, <1>3, <1>4 DEF Present
<1>6. PICK x : x = [w[t] EXCEPT !.pc = "done"]
  OBVIOUS
<1>7. /\ x \in CallType /\ x.pc = "done" /\ x.lines = w[t].lines /\ x.point = w[t].point
  BY <1>6 DEF FileInv, CallType
<1>8. w' = [w EXCEPT ![t] = x]
  BY <1>4, <1>6 DEF FileInv
<1>9. CallInv(x, old)'
  BY <1>1, <1>2, <1>5, <1>7 DEF CallInv, NewIn
<1>10. w' \in [Writers -> CallType] /\ WritersInv'
  BY <1>7, <1>8, <1>9, CallGoesOn
<1>11. Present' \in Seq(Line) /\ ToSet(Present') \subseteq used
  <2>1. /\ old \in Seq(Line) /\ ToSet(old) \subseteq used /\ w[t].point \in used
        /\ w[t].point \in Line /\ w[t].lines = Append(old, w[t].point)
    BY <1>1, <1>2 DEF CallInv, FileInv
  <2>2. PICK p : p = w[t].point
    OBVIOUS
  <2>3. ToSet(Append(old, p)) = ToSet(old) \cup {p} /\ Append(old, p) \in Seq(Line)
    BY <2>1, <2>2, AppendSet
  <2> QED BY <1>5, <2>1, <2>2, <2>3
<1> QED BY <1>1, <1>3, <1>4, <1>10, <1>11 DEF FileInv

LEMMA ReturnTrueKeeps ==
    ASSUME \A s, t \in Writers : s = t, FileInv, NEW t \in Writers, ReturnTrue(t)
    PROVE  FileInv'
<1>1. /\ w[t].pc = "done" /\ acked' = Append(acked, w[t].point)
      /\ w' = [w EXCEPT ![t] = NoCall] /\ UNCHANGED <<data, temp, body, used, unsure, faults>>
  BY DEF ReturnTrue
<1>2. PICK old : CallInv(w[t], old)
  BY <1>1 DEF FileInv, WritersInv
<1>3. PICK p, ok : p = w[t].point /\ ok = acked
  OBVIOUS
<1>4. /\ old \in Seq(Line) /\ ok \in Seq(Line) /\ p \in Line /\ p \in used
      /\ p \notin ToSet(old) /\ p \notin unsure /\ Holds(old, ok, unsure)
      /\ Present = Append(old, p)
  BY <1>1, <1>2, <1>3 DEF CallInv, FileInv, NewIn
<1>5. PICK open : open = unsure
  OBVIOUS
<1>6. Holds(Append(old, p), Append(ok, p), open)
  BY <1>4, <1>5, HoldsNew
<1>7. Present' = Present
  BY <1>1 DEF Present
<1>8. Holds(Present', acked', unsure')
  BY <1>1, <1>3, <1>4, <1>5, <1>6, <1>7
<1>9. NoCall \in CallType /\ NoCall.pc = "idle"
  BY EmptySeq DEF NoCall, CallType
<1>10. w' \in [Writers -> CallType] /\ WritersInv'
  BY <1>1, <1>8, <1>9, CallGoesOn
<1>11. acked' \in Seq(Line) /\ ToSet(acked') = ToSet(acked) \cup {p}
  BY <1>1, <1>3, <1>4, AppendSet
<1> QED BY <1>1, <1>4, <1>7, <1>10, <1>11 DEF FileInv

LEMMA KillWritersKeeps ==
    ASSUME \A s, t \in Writers : s = t, FileInv, KillWriters
    PROVE  FileInv'
<1>1. /\ w' = [t \in Writers |-> NoCall] /\ UNCHANGED <<data, temp, used, acked>>
      /\ unsure' = unsure \cup {w[t].point : t \in {s \in Writers : w[s].pc = "done"}}
  BY DEF KillWriters
<1>2. Present' = Present /\ body' = [m \in Inode |-> body'[m]]
  <2>1. CASE UNCHANGED body
    BY <1>1, <2>1 DEF Present, FileInv
  <2>2. CASE ~UNCHANGED body
    <3>1. PICK t \in Writers : \E c : w[t].pc = "write" /\ body' = [body EXCEPT ![w[t].node] = c]
      BY <2>2 DEF KillWriters
    <3>2. PICK c : w[t].pc = "write" /\ body' = [body EXCEPT ![w[t].node] = c]
      BY <3>1
    <3>3. PICK old : CallInv(w[t], old)
      BY <3>2 DEF FileInv, WritersInv
    <3>4. w[t].node = temp /\ temp \in Inode /\ temp # data
      BY <3>2, <3>3 DEF CallInv, FileInv
    <3>5. PICK n : n = temp
      OBVIOUS
    <3> QED BY <1>1, <3>2, <3>4, <3>5, OtherFile
  <2> QED BY <2>1, <2>2
<1>3. Holds(Present, acked, unsure') /\ unsure' \subseteq used
  <2>1. CASE \A t \in Writers : w[t].pc # "done"
    <3>1. unsure' = unsure
      BY <1>1, <2>1
    <3> QED BY <2>1, <3>1, HoldsNow DEF FileInv
  <2>2. CASE \E t \in Writers : w[t].pc = "done"
    <3>1. PICK t \in Writers : w[t].pc = "done"
      BY <2>2
    <3>2. PICK old : CallInv(w[t], old)
      BY <3>1 DEF FileInv, WritersInv
    <3>3. PICK p, ok, open : p = w[t].point /\ ok = acked /\ open = unsure
      OBVIOUS
    <3>4. /\ old \in Seq(Line) /\ ok \in Seq(Line) /\ p \in Line /\ p \in used
          /\ p \notin ToSet(old) /\ p \notin open /\ Holds(old, ok, open)
          /\ Present = Append(old, p)
      BY <3>1, <3>2, <3>3 DEF CallInv, FileInv, NewIn
    <3>5. Holds(Append(old, p), ok, open \cup {p})
      BY <3>4, HoldsNew
    <3>6. unsure' = open \cup {p}
      <4>1. {s \in Writers : w[s].pc = "done"} = {t}
        BY <3>1
      <4> QED BY <1>1, <3>3, <4>1
    <3> QED BY <3>3, <3>4, <3>5, <3>6 DEF FileInv
  <2> QED BY <2>1, <2>2
<1>4. NoCall \in CallType /\ NoCall.pc = "idle"
  BY EmptySeq DEF NoCall, CallType
<1>5. w' \in [Writers -> CallType] /\ WritersInv'
  BY <1>1, <1>2, <1>3, <1>4 DEF WritersInv
<1> QED BY <1>1, <1>2, <1>3, <1>5 DEF FileInv

LEMMA FileInvIntact ==
    ASSUME \A s, t \in Writers : s = t, FileInv
    PROVE  FileIntact
<1>1. CASE \A t \in Writers : w[t].pc # "done"
  <2>1. unsure \cup {w[t].point : t \in {s \in Writers : w[s].pc = "done"}} = unsure
    BY <1>1
  <2> QED BY <1>1, <2>1, HoldsNow DEF FileIntact
<1>2. CASE \E t \in Writers : w[t].pc = "done"
  <2>1. PICK t \in Writers : w[t].pc = "done"
    BY <1>2
  <2>2. PICK old : CallInv(w[t], old)
    BY <2>1 DEF FileInv, WritersInv
  <2>3. PICK p, ok, open : p = w[t].point /\ ok = acked /\ open = unsure
    OBVIOUS
  <2>4. /\ old \in Seq(Line) /\ ok \in Seq(Line) /\ p \in Line
        /\ p \notin ToSet(old) /\ p \notin open /\ Holds(old, ok, open)
        /\ Present = Append(old, p)
    BY <2>1, <2>2, <2>3 DEF CallInv, FileInv, NewIn
  <2>5. Holds(Append(old, p), ok, open \cup {p})
    BY <2>4, HoldsNew
  <2>6. {s \in Writers : w[s].pc = "done"} = {t}
    BY <2>1
  <2>7. unsure \cup {w[s].point : s \in {s \in Writers : w[s].pc = "done"}} = open \cup {p}
    BY <2>3, <2>6
  <2> QED BY <2>3, <2>4, <2>5, <2>7 DEF FileIntact
<1> QED BY <1>1, <1>2

\* With at most one caller of write_data_point at a time, the file holds the
\* acknowledged points in order, all of its lines are whole, and what else it
\* holds was in doubt: after any number of failed and killed calls, with a
\* temporary file left over from one of them or not.
THEOREM File_intact ==
    (\A s, t \in Writers : s = t) => (FileSpec => []FileIntact)
<1> SUFFICES ASSUME \A s, t \in Writers : s = t
             PROVE  FileSpec => []FileIntact
  OBVIOUS
<1>1. FileInv /\ [FileNext]_fileVars => FileInv'
  <2> SUFFICES ASSUME FileInv, [FileNext]_fileVars PROVE FileInv'
    OBVIOUS
  <2>1. ASSUME NEW t \in Writers, NEW p \in Line, ReadExisting(t, p) PROVE FileInv'
    BY <2>1, ReadExistingKeeps
  <2>2. ASSUME NEW t \in Writers, OpenTemp(t) PROVE FileInv'
    BY <2>2, OpenTempKeeps
  <2>3. ASSUME NEW t \in Writers, WriteTemp(t) PROVE FileInv'
    BY <2>3, WriteTempKeeps
  <2>4. ASSUME NEW t \in Writers, DumpsRaises(t) \/ WriteError(t) PROVE FileInv'
    BY <2>4, WriteFailsKeeps
  <2>5. ASSUME NEW t \in Writers, Replace(t) PROVE FileInv'
    BY <2>5, ReplaceKeeps
  <2>6. ASSUME NEW t \in Writers, ReturnTrue(t) PROVE FileInv'
    BY <2>6, ReturnTrueKeeps
  <2>7. CASE KillWriters
    BY <2>7, KillWritersKeeps
  <2>8. CASE UNCHANGED fileVars
    BY <2>8 DEF fileVars, FileInv, WritersInv, CallInv, NewIn, Present
  <2> QED BY <2>1, <2>2, <2>3, <2>4, <2>5, <2>6, <2>7, <2>8 DEF FileNext
<1>2. FileInv => FileIntact
  BY FileInvIntact
<1> QED BY <1>1, <1>2, FileInitInv, PTL DEF FileSpec

-----------------------------------------------------------------------------
(* The metadata of the partitions, for any points, paths and timestamps *)

LEMMA LeastNatural ==
    ASSUME NEW T \in SUBSET Nat, T # {}
    PROVE  \E x \in T : \A y \in T : x =< y
<1> DEFINE R == {ss \in Nat \X Nat : ss[1] < ss[2]}
<1>1. IsWellFoundedOn(R, Nat)
  BY NatLessThanWellFounded DEF OpToRel
<1>2. \A x, y \in Nat : <<y, x>> \in R <=> y < x
  OBVIOUS
<1> HIDE DEF R
<1>3. PICK x \in T : \A y \in T : ~(<<y, x>> \in R)
  BY <1>1, WFMin
<1>4. x \in Nat /\ \A y \in T : y \in Nat /\ ~(y < x)
  BY <1>2, <1>3, Zenon
<1>5. \A y \in T : x =< y
  BY <1>4
<1> QED BY <1>5

\* A finite set of integers has both ends: the element with the fewest beyond it.
LEMMA EndsOf ==
    ASSUME NEW S \in SUBSET Int, S # {}, IsFiniteSet(S)
    PROVE  /\ MinOf(S) \in S /\ \A y \in S : MinOf(S) =< y
           /\ MaxOf(S) \in S /\ \A y \in S : MaxOf(S) >= y
<1> DEFINE Below(x) == {y \in S : y < x}
           Above(x) == {y \in S : y > x}
<1>1. \A T \in SUBSET S : IsFiniteSet(T) /\ Cardinality(T) \in Nat
  BY FS_Subset, FS_CardinalityType
<1>2. ASSUME NEW U \in SUBSET S, NEW T \in SUBSET U, T # U
      PROVE  Cardinality(T) < Cardinality(U)
  <2>1. /\ Cardinality(T) =< Cardinality(U) /\ (Cardinality(U) = Cardinality(T) => U = T)
    BY <1>1, FS_Subset
  <2>2. Cardinality(T) \in Nat /\ Cardinality(U) \in Nat
    BY <1>1
  <2> QED BY <1>2, <2>1, <2>2
<1>3. \E x \in S : \A y \in S : x =< y
  <2> DEFINE C == {Cardinality(Below(x)) : x \in S}
  <2>1. C \in SUBSET Nat /\ C # {}
    BY <1>1
  <2>2. PICK c \in C : \A d \in C : c =< d
    BY <2>1, LeastNatural
  <2>3. PICK x \in S : c = Cardinality(Below(x))
    OBVIOUS
  <2>4. ASSUME NEW y \in S PROVE ~(y < x)
    <3> SUFFICES ASSUME y < x PROVE FALSE
      OBVIOUS
    <3>1. Below(y) \in SUBSET Below(x) /\ Below(x) \in SUBSET S
      <4>1. \A z \in S : z < y => z < x
        OBVIOUS
      <4> QED BY <4>1
    <3>2. y \in Below(x) /\ y \notin Below(y)
      OBVIOUS
    <3>3. Cardinality(Below(y)) \in C
      OBVIOUS
    <3>4. Cardinality(Below(y)) \in Nat /\ Cardinality(Below(x)) \in Nat
      BY <1>1, <3>1
    <3> HIDE DEF Below, C
    <3>5. Cardinality(Below(y)) < Cardinality(Below(x))
      BY <1>2, <3>1, <3>2
    <3> QED BY <2>2, <2>3, <3>3, <3>4, <3>5
  <2> QED BY <2>4
<1>4. \E x \in S : \A y \in S : x >= y
  <2> DEFINE C == {Cardinality(Above(x)) : x \in S}
  <2>1. C \in SUBSET Nat /\ C # {}
    BY <1>1
  <2>2. PICK c \in C : \A d \in C : c =< d
    BY <2>1, LeastNatural
  <2>3. PICK x \in S : c = Cardinality(Above(x))
    OBVIOUS
  <2>4. ASSUME NEW y \in S PROVE ~(y > x)
    <3> SUFFICES ASSUME y > x PROVE FALSE
      OBVIOUS
    <3>1. Above(y) \in SUBSET Above(x) /\ Above(x) \in SUBSET S
      <4>1. \A z \in S : z > y => z > x
        OBVIOUS
      <4> QED BY <4>1
    <3>2. y \in Above(x) /\ y \notin Above(y)
      OBVIOUS
    <3>3. Cardinality(Above(y)) \in C
      OBVIOUS
    <3>4. Cardinality(Above(y)) \in Nat /\ Cardinality(Above(x)) \in Nat
      BY <1>1, <3>1
    <3> HIDE DEF Above, C
    <3>5. Cardinality(Above(y)) < Cardinality(Above(x))
      BY <1>2, <3>1, <3>2
    <3> QED BY <2>2, <2>3, <3>3, <3>4, <3>5
  <2> QED BY <2>4
<1> HIDE DEF Below, Above
<1>5. MinOf(S) \in S /\ \A y \in S : MinOf(S) =< y
  BY <1>3 DEF MinOf
<1>6. MaxOf(S) \in S /\ \A y \in S : MaxOf(S) >= y
  BY <1>4 DEF MaxOf
<1> QED BY <1>5, <1>6

LEMMA StampsOf ==
    ASSUME NEW dps \in Seq(DataPoint), dps # <<>>
    PROVE  /\ {dps[i].ts : i \in DOMAIN dps} \in SUBSET Stamp
           /\ {dps[i].ts : i \in DOMAIN dps} # {}
           /\ IsFiniteSet({dps[i].ts : i \in DOMAIN dps})
<1>1. PICK n \in Nat : n = Len(dps) /\ DOMAIN dps = 1..n /\ n # 0
  BY LenProperties, EmptySeq
<1>2. \A i \in 1..n : dps[i] \in DataPoint /\ dps[i].ts \in Stamp
  <2>1. \A i \in 1..n : dps[i] \in DataPoint
    BY <1>1
  <2>2. \A x \in DataPoint : x.ts \in Stamp
    BY DEF DataPoint
  <2> QED BY <2>1, <2>2
<1> DEFINE A == {dps[i].ts : i \in 1..n}
           f == [i \in 1..n |-> dps[i].ts]
<1>3. f \in [1..n -> A] /\ \A a \in A : \E i \in 1..n : f[i] = a
  OBVIOUS
<1>4. A \in SUBSET Stamp /\ A # {}
  <2>1. 1 \in 1..n
    BY <1>1
  <2> QED BY <1>2, <2>1
<1>5. IsFiniteSet(1..n)
  <2>1. 1 \in Int /\ n \in Int
    OBVIOUS
  <2> QED BY <2>1, FS_Interval, Zenon
<1> HIDE DEF A, f
<1>6. f \in Surjection(1..n, A)
  BY <1>3 DEF Surjection
<1>7. IsFiniteSet(A)
  BY <1>5, <1>6, FS_Surjection
<1> QED BY <1>1, <1>4, <1>7 DEF A

LEMMA WidenedIs ==
    ASSUME NEW dps \in Seq(DataPoint), dps # <<>>, NEW known \in SUBSET Partition,
           known = {} \/ \E m : known = {m}
    PROVE  /\ Widened(known, dps).min \in Stamp /\ Widened(known, dps).max \in Stamp
           /\ \A i \in DOMAIN dps :
                 Widened(known, dps).min =< dps[i].ts /\ dps[i].ts =< Widened(known, dps).max
           /\ \A m \in known :
                 Widened(known, dps).min =< m.min /\ m.max =< Widened(known, dps).max
<1>1. Stamp \subseteq Int
  BY MetadataAssumption DEF MetadataAssumption
<1>2. PICK A : A = {dps[i].ts : i \in DOMAIN dps}
  OBVIOUS
<1>3. A \in SUBSET Stamp /\ A # {} /\ IsFiniteSet(A)
  BY <1>2, StampsOf
<1>4. PICK S : S = A \cup {m.min : m \in known} \cup {m.max : m \in known}
  OBVIOUS
<1>5. S \in SUBSET Stamp /\ S # {}
  BY <1>3, <1>4 DEF Partition
<1>6. IsFiniteSet(S)
  <2>1. CASE known = {}
    <3>1. S = A
      BY <1>4, <2>1
    <3> QED BY <1>3, <3>1
  <2>2. CASE \E m : known = {m}
    <3>1. PICK m : known = {m}
      BY <2>2
    <3>2. PICK B : B = A \cup {m.min}
      OBVIOUS
    <3>3. IsFiniteSet(B)
      BY <1>3, <3>2, FS_AddElement
    <3>4. S = B \cup {m.max}
      BY <1>4, <3>1, <3>2
    <3>5. IsFiniteSet(B \cup {m.max})
      BY <3>3, FS_AddElement
    <3> QED BY <3>4, <3>5
  <2> QED BY <2>1, <2>2
<1>7. Widened(known, dps) = [min |-> MinOf(S), max |-> MaxOf(S)]
  BY <1>2, <1>4 DEF Widened
<1>8. /\ MinOf(S) \in S /\ \A y \in S : MinOf(S) =< y
      /\ MaxOf(S) \in S /\ \A y \in S : MaxOf(S) >= y
  BY <1>1, <1>5, <1>6, EndsOf
<1>9. \A y \in S : y \in Int /\ MinOf(S) \in Int /\ MaxOf(S) \in Int /\ y =< MaxOf(S)
  BY <1>1, <1>5, <1>8
<1>10. \A i \in DOMAIN dps : dps[i].ts \in S
  BY <1>2, <1>4
<1>11. \A m \in known : m.min \in S /\ m.max \in S
  BY <1>4
<1>12. Widened(known, dps).min = MinOf(S) /\ Widened(known, dps).max = MaxOf(S)
  BY <1>7
<1> QED BY <1>5, <1>8, <1>9, <1>10, <1>11, <1>12

Cell == [kind : {"set", "list"}, values : SUBSET Value]

Tags == Partial(Key, Cell)

LEMMA PartialIs ==
    ASSUME NEW D, NEW R
    PROVE  /\ <<>> \in Partial(D, R)
           /\ \A f \in Partial(D, R) :
                 /\ DOMAIN f \in SUBSET D /\ f = [x \in DOMAIN f |-> f[x]]
                 /\ \A x \in DOMAIN f : f[x] \in R
           /\ \A K \in SUBSET D : \A f \in [K -> R] : f \in Partial(D, R)
<1>1. \A K \in SUBSET D : \A f \in [K -> R] : f \in Partial(D, R)
  BY DEF Partial
<1>2. \A f \in Partial(D, R) :
         /\ DOMAIN f \in SUBSET D /\ f = [x \in DOMAIN f |-> f[x]]
         /\ \A x \in DOMAIN f : f[x] \in R
  BY DEF Partial
<1>3. <<>> \in [{} -> R]
  <2>1. <<>> \in Seq(R) /\ Len(<<>>) = 0
    BY EmptySeq
  <2>2. <<>> \in [1..0 -> R] /\ 1..0 = {}
    BY <2>1
  <2> QED BY <2>2
<1>4. {} \in SUBSET D
  OBVIOUS
<1> QED BY <1>1, <1>2, <1>3, <1>4

\* x is a place in dps and one of the keys of the point there.
PairOf(x, dps) ==
    /\ x[1] \in DOMAIN dps /\ x[2] \in Key /\ x[2] \in DOMAIN dps[x[1]].tags
    /\ x = <<x[1], x[2]>>

LEMMA VisitsIs ==
    ASSUME NEW dps \in Seq(DataPoint), dps # <<>>, NEW tags, NEW v \in Visits(tags, dps)
    PROVE  /\ v.whole \in BOOLEAN
           /\ \A x \in v.pairs : PairOf(x, dps)
           /\ v.whole => \A i \in DOMAIN dps : \A key \in DOMAIN dps[i].tags : <<i, key>> \in v.pairs
<1> DEFINE Lists == {key \in DOMAIN tags : tags[key].kind = "list"}
           Clean(i) == DOMAIN dps[i].tags \cap Lists = {}
           Upto(k) == {x \in (1..k) \X Key : x[2] \in DOMAIN dps[x[1]].tags}
           Marked == {i \in DOMAIN dps : ~Clean(i)}
<1>1. PICK n \in Nat : n = Len(dps) /\ DOMAIN dps = 1..n /\ n # 0
  BY LenProperties, EmptySeq
<1>2. \A i \in 1..n : DOMAIN dps[i].tags \in SUBSET Key
  <2>1. \A i \in 1..n : dps[i] \in DataPoint
    BY <1>1
  <2>2. \A x \in DataPoint : x.tags \in Partial(Key, Value)
    BY DEF DataPoint
  <2>3. \A f \in Partial(Key, Value) : DOMAIN f \in SUBSET Key
    BY PartialIs
  <2> QED BY <2>1, <2>2, <2>3
<1>3. \A k \in Int : k =< n => \A x \in Upto(k) : PairOf(x, dps)
  BY <1>1 DEF PairOf
<1>4. \A i \in 1..n : \A key \in DOMAIN dps[i].tags : <<i, key>> \in Upto(n)
  BY <1>2
<1>5. CASE \A i \in DOMAIN dps : Clean(i)
  <2>1. Visits(tags, dps) = {[whole |-> TRUE, pairs |-> Upto(Len(dps))]}
    BY <1>5 DEF Visits
  <2>2. v.whole = TRUE /\ v.pairs = Upto(n)
    BY <1>1, <2>1
  <2>3. n \in Int /\ n =< n
    OBVIOUS
  <2> HIDE DEF Upto
  <2> QED BY <1>1, <1>3, <1>4, <2>2, <2>3
<1>6. CASE ~ \A i \in DOMAIN dps : Clean(i)
  <2>1. Marked \in SUBSET Nat /\ Marked # {}
    BY <1>1, <1>6
  <2>2. \E x \in Marked : \A y \in Marked : x =< y
    BY <2>1, LeastNatural
  <2> DEFINE Raised(k) == {[whole |-> FALSE, pairs |-> Upto(k - 1) \cup {<<k, key>> : key \in K}] :
                              K \in SUBSET (DOMAIN dps[k].tags \ Lists)}
  <2>3. Visits(tags, dps) = Raised(MinOf(Marked))
    BY <1>6, Zenon DEF Visits
  <2>4. PICK k : k = MinOf(Marked)
    OBVIOUS
  <2>5. k \in Marked
    BY <2>2, <2>4 DEF MinOf
  <2>6. v \in Raised(k)
    <3> HIDE DEF Raised, Marked
    <3> QED BY <2>3, <2>4
  <2>7. PICK K \in SUBSET (DOMAIN dps[k].tags \ Lists) :
           v = [whole |-> FALSE, pairs |-> Upto(k - 1) \cup {<<k, key>> : key \in K}]
    BY <2>6
  <2>8. v.whole = FALSE /\ v.pairs = Upto(k - 1) \cup {<<k, key>> : key \in K}
    BY <2>7
  <2>9. k \in 1..n /\ k - 1 \in Int /\ k - 1 =< n
    BY <1>1, <2>5
  <2>10. \A key \in K : PairOf(<<k, key>>, dps)
    BY <1>1, <1>2, <2>9 DEF PairOf
  <2> QED BY <1>3, <2>8, <2>9, <2>10
<1> QED BY <1>5, <1>6

\* Value sets only grow, and hold what the visited pairs brought.
LEMMA TaggedIs ==
    ASSUME NEW dps \in Seq(DataPoint), NEW tags \in Tags, NEW pairs,
           \A x \in pairs : PairOf(x, dps)
    PROVE  /\ Tagged(tags, dps, pairs) \in Tags
           /\ \A key \in DOMAIN tags :
                 /\ key \in DOMAIN Tagged(tags, dps, pairs)
                 /\ tags[key].values \subseteq Tagged(tags, dps, pairs)[key].values
           /\ \A x \in pairs :
                 /\ x[2] \in DOMAIN Tagged(tags, dps, pairs)
                 /\ dps[x[1]].tags[x[2]] \in Tagged(tags, dps, pairs)[x[2]].values
<1> DEFINE New(key) == {dps[x[1]].tags[key] : x \in {y \in pairs : y[2] = key}}
           Keys == DOMAIN tags \cup {x[2] : x \in pairs}
           CellAt(key) == IF key \in DOMAIN tags THEN [tags[key] EXCEPT !.values = @ \cup New(key)]
                      ELSE [kind |-> "set", values |-> New(key)]
<1>1. Tagged(tags, dps, pairs) = [key \in Keys |-> CellAt(key)]
  BY DEF Tagged
<1>2. /\ DOMAIN tags \in SUBSET Key /\ \A key \in DOMAIN tags : tags[key] \in Cell
  BY PartialIs DEF Tags
<1>3. Keys \in SUBSET Key
  BY <1>2 DEF PairOf
<1>4. \A x \in pairs : dps[x[1]].tags[x[2]] \in Value
  <2>1. \A i \in DOMAIN dps : dps[i] \in DataPoint
    BY LenProperties
  <2>2. \A x \in DataPoint : x.tags \in Partial(Key, Value)
    BY DEF DataPoint
  <2>3. \A f \in Partial(Key, Value) : \A key \in DOMAIN f : f[key] \in Value
    BY PartialIs
  <2> QED BY <2>1, <2>2, <2>3 DEF PairOf
<1>5. \A key : New(key) \in SUBSET Value
  BY <1>4
<1>6. \A x \in pairs : dps[x[1]].tags[x[2]] \in New(x[2])
  OBVIOUS
<1> HIDE DEF New
<1>7. ASSUME NEW key \in DOMAIN tags
      PROVE  /\ CellAt(key) \in Cell /\ CellAt(key).values = tags[key].values \cup New(key)
  <2>1. tags[key] \in Cell /\ New(key) \in SUBSET Value
    BY <1>2, <1>5
  <2> QED BY <2>1 DEF Cell
<1>8. ASSUME NEW key \in Keys, key \notin DOMAIN tags
      PROVE  CellAt(key) \in Cell /\ CellAt(key).values = New(key)
  <2>1. New(key) \in SUBSET Value
    BY <1>5
  <2> QED BY <1>8, <2>1 DEF Cell
<1> HIDE DEF CellAt
<1>9. Tagged(tags, dps, pairs) \in [Keys -> Cell]
  BY <1>1, <1>7, <1>8
<1>10. Tagged(tags, dps, pairs) \in Tags
  BY <1>3, <1>9, PartialIs DEF Tags
<1>11. \A x \in pairs : New(x[2]) \subseteq CellAt(x[2]).values
  BY <1>7, <1>8
<1> QED BY <1>1, <1>6, <1>7, <1>10, <1>11

LEMMA AsListsKeeps ==
    ASSUME NEW tags \in Tags
    PROVE  /\ AsLists(tags) \in Tags /\ DOMAIN AsLists(tags) = DOMAIN tags
           /\ \A key \in DOMAIN tags : AsLists(tags)[key].values = tags[key].values
<1>1. /\ DOMAIN tags \in SUBSET Key /\ \A key \in DOMAIN tags : tags[key] \in Cell
  BY PartialIs DEF Tags
<1>2. \A c \in Cell : /\ [c EXCEPT !.kind = "list"] \in Cell
                      /\ [c EXCEPT !.kind = "list"].values = c.values
  BY DEF Cell
<1>3. AsLists(tags) \in [DOMAIN tags -> Cell]
  BY <1>1, <1>2 DEF AsLists
<1> QED BY <1>1, <1>2, <1>3, PartialIs DEF AsLists, Tags

\* A query that p satisfies does not skip a partition with this entry.
Covers(entry, p) ==
    /\ entry.min =< p.ts /\ p.ts =< entry.max
    /\ \A key \in DOMAIN p.tags : key \in DOMAIN entry.tags /\ p.tags[key] \in entry.tags[key].values

CoveredIn(s, x) == x[1] \in DOMAIN s /\ Covers(s[x[1]], x[2])

LEMMA InOrder ==
    \A a, b, c \in Int : (a =< b /\ b =< c) => (a =< c /\ c >= a)
OBVIOUS

\* The entry an update leaves covers what the old one did and, when the update
\* visited every pair, each of the points.
LEMMA EntryGrows ==
    ASSUME NEW dps \in Seq(DataPoint), dps # <<>>,
           NEW known \in SUBSET Partition, NEW tags \in Tags,
           known = {} \/ \E m \in Partition : known = {m} /\ tags = m.tags,
           NEW v \in Visits(tags, dps), NEW entry,
           entry = [min |-> Widened(known, dps).min, max |-> Widened(known, dps).max,
                    tags |-> IF v.whole THEN AsLists(Tagged(tags, dps, v.pairs))
                             ELSE Tagged(tags, dps, v.pairs)]
    PROVE  /\ entry \in Partition
           /\ \A m \in known : \A p \in DataPoint : Covers(m, p) => Covers(entry, p)
           /\ v.whole => \A i \in DOMAIN dps : Covers(entry, dps[i])
<1>1. PICK ends : ends = Widened(known, dps)
  OBVIOUS
<1>2. /\ ends.min \in Stamp /\ ends.max \in Stamp
      /\ \A i \in DOMAIN dps : ends.min =< dps[i].ts /\ dps[i].ts =< ends.max
      /\ \A m \in known : ends.min =< m.min /\ m.max =< ends.max
  <2>1. known = {} \/ \E m : known = {m}
    OBVIOUS
  <2> QED BY <1>1, <2>1, WidenedIs
<1>3. /\ v.whole \in BOOLEAN
      /\ \A x \in v.pairs : PairOf(x, dps)
      /\ v.whole => \A i \in DOMAIN dps : \A key \in DOMAIN dps[i].tags : <<i, key>> \in v.pairs
  BY VisitsIs
<1>4. PICK pairs : pairs = v.pairs
  OBVIOUS
<1>5. PICK gained : gained = Tagged(tags, dps, pairs)
  OBVIOUS
<1>6. /\ gained \in Tags
      /\ \A key \in DOMAIN tags : key \in DOMAIN gained /\ tags[key].values \subseteq gained[key].values
      /\ \A x \in pairs : x[2] \in DOMAIN gained /\ dps[x[1]].tags[x[2]] \in gained[x[2]].values
  <2>1. \A x \in pairs : PairOf(x, dps)
    BY <1>3, <1>4
  <2> QED BY <1>5, <2>1, TaggedIs
<1>7. PICK left : left = IF v.whole THEN AsLists(gained) ELSE gained
  OBVIOUS
<1>8. /\ left \in Tags /\ DOMAIN left = DOMAIN gained
      /\ \A key \in DOMAIN gained : left[key].values = gained[key].values
  BY <1>6, <1>7, AsListsKeeps
<1>9. entry = [min |-> ends.min, max |-> ends.max, tags |-> left]
  BY <1>1, <1>4, <1>5, <1>7
<1>10. entry.min = ends.min /\ entry.max = ends.max /\ entry.tags = left
  BY <1>9
<1>11. entry \in Partition
  BY <1>2, <1>8, <1>9 DEF Partition, Tags, Cell
<1>12. Stamp \subseteq Int
  BY MetadataAssumption DEF MetadataAssumption
<1>13. ASSUME NEW m \in known, NEW p \in DataPoint, Covers(m, p) PROVE Covers(entry, p)
  <2>1. m.min \in Stamp /\ m.max \in Stamp /\ p.ts \in Stamp
    BY DEF Partition, DataPoint
  <2>2. tags = m.tags
    OBVIOUS
  <2>3. entry.min =< p.ts /\ p.ts =< entry.max
    <3>1. /\ m.min \in Int /\ m.max \in Int /\ p.ts \in Int
          /\ ends.min \in Int /\ ends.max \in Int
      BY <1>2, <1>12, <2>1
    <3>2. ends.min =< m.min /\ m.min =< p.ts /\ p.ts =< m.max /\ m.max =< ends.max
      BY <1>2, <1>13 DEF Covers
    <3> QED BY <1>10, <3>1, <3>2, InOrder
  <2>4. ASSUME NEW key \in DOMAIN p.tags
        PROVE  key \in DOMAIN entry.tags /\ p.tags[key] \in entry.tags[key].values
    <3>1. key \in DOMAIN tags /\ p.tags[key] \in tags[key].values
      BY <1>13, <2>2 DEF Covers
    <3> QED BY <1>6, <1>8, <1>10, <3>1
  <2> QED BY <2>3, <2>4 DEF Covers
<1>14. ASSUME v.whole, NEW i \in DOMAIN dps PROVE Covers(entry, dps[i])
  <2>1. ASSUME NEW key \in DOMAIN dps[i].tags
        PROVE  key \in DOMAIN entry.tags /\ dps[i].tags[key] \in entry.tags[key].values
    <3>1. PICK x : x = <<i, key>>
      OBVIOUS
    <3>2. x \in pairs /\ x[1] = i /\ x[2] = key
      BY <1>3, <1>4, <1>14, <3>1
    <3> QED BY <1>6, <1>8, <1>10, <3>2
  <2> QED BY <1>2, <1>10, <2>1 DEF Covers
<1> QED BY <1>11, <1>13, <1>14

Stores == Partial(Path, Partition)

\* What an update returned for is covered by the store in memory and by the one
\* in the file, whenever the file holds one.
MetadataInv ==
    /\ store \in Stores
    /\ saved \in Stores \cup {NoMetadata, Garbage}
    /\ saved = NoMetadata => recorded = {}
    /\ \A x \in recorded :
          /\ x \in Path \X DataPoint
          /\ CoveredIn(store, x) /\ (saved \in Stores => CoveredIn(saved, x))

LEMMA MetadataInitInv == MetadataInit => MetadataInv
<1> SUFFICES ASSUME MetadataInit PROVE MetadataInv
  OBVIOUS
<1>1. <<>> \in Stores
  BY PartialIs DEF Stores
<1> QED BY <1>1 DEF MetadataInit, MetadataInv

LEMMA ReopenKeeps == MetadataInv /\ Reopen => MetadataInv'
<1> SUFFICES ASSUME MetadataInv, Reopen PROVE MetadataInv'
  OBVIOUS
<1>1. saved' = saved /\ recorded' = recorded
  BY DEF Reopen
<1>2. Garbage \notin Stores /\ NoMetadata \notin Stores /\ NoMetadata # Garbage /\ <<>> \in Stores
  BY MetadataAssumption, PartialIs DEF MetadataAssumption, Stores
<1>3. CASE saved = Garbage
  BY <1>1, <1>3 DEF Reopen, MetadataInv
<1>4. CASE saved = NoMetadata
  <2>1. store' = <<>> /\ recorded = {}
    BY <1>2, <1>4 DEF Reopen, MetadataInv
  <2> QED BY <1>1, <1>2, <1>4, <2>1 DEF MetadataInv
<1>5. CASE saved \in Stores
  <2>1. store' = saved
    BY <1>2, <1>5 DEF Reopen
  <2> QED BY <1>1, <1>2, <1>5, <2>1 DEF MetadataInv
<1> QED BY <1>3, <1>4, <1>5 DEF MetadataInv

LEMMA RecordPointsKeeps ==
    ASSUME MetadataInv, NEW q \in Path, NEW dps \in Records, RecordPoints(q, dps)
    PROVE  MetadataInv'
<1>1. dps \in Seq(DataPoint) /\ dps # <<>>
  BY MetadataAssumption DEF MetadataAssumption
<1>2. /\ store \in Stores
      /\ DOMAIN store \in SUBSET Path /\ \A p \in DOMAIN store : store[p] \in Partition
  BY PartialIs DEF MetadataInv, Stores
<1>3. PICK known : known = IF q \in DOMAIN store THEN {store[q]} ELSE {}
  OBVIOUS
<1>4. PICK tags : tags = IF q \in DOMAIN store THEN store[q].tags ELSE <<>>
  OBVIOUS
<1>5. /\ known \in SUBSET Partition /\ tags \in Tags
      /\ known = {} \/ \E m \in Partition : known = {m} /\ tags = m.tags
  <2>1. \A m \in Partition : m.tags \in Tags
    BY DEF Partition, Tags, Cell
  <2>2. <<>> \in Tags
    BY PartialIs DEF Tags
  <2>3. CASE q \in DOMAIN store
    BY <1>2, <1>3, <1>4, <2>1, <2>3
  <2>4. CASE q \notin DOMAIN store
    BY <1>3, <1>4, <2>2, <2>4
  <2> QED BY <2>3, <2>4
<1> DEFINE Entry(v) == [min |-> Widened(known, dps).min, max |-> Widened(known, dps).max,
                        tags |-> IF v.whole THEN AsLists(Tagged(tags, dps, v.pairs))
                                 ELSE Tagged(tags, dps, v.pairs)]
           New(v) == [p \in DOMAIN store \cup {q} |-> IF p = q THEN Entry(v) ELSE store[p]]
<1>6. PICK v \in Visits(tags, dps) :
         /\ store' = New(v)
         /\ saved' = IF ~v.whole THEN saved ELSE IF HasSet(New(v)) THEN Garbage ELSE New(v)
         /\ recorded' = IF v.whole /\ ~HasSet(New(v))
                        THEN recorded \cup {<<q, dps[i]>> : i \in DOMAIN dps} ELSE recorded
  BY <1>3, <1>4, Zenon DEF RecordPoints
<1>7. PICK entry : entry = Entry(v)
  OBVIOUS
<1>8. /\ entry \in Partition
      /\ \A m \in known : \A p \in DataPoint : Covers(m, p) => Covers(entry, p)
      /\ v.whole => \A i \in DOMAIN dps : Covers(entry, dps[i])
  BY <1>1, <1>5, <1>7, EntryGrows
<1>9. PICK new : new = [p \in DOMAIN store \cup {q} |-> IF p = q THEN entry ELSE store[p]]
  OBVIOUS
<1>10. new = New(v)
  BY <1>7, <1>9
<1> HIDE DEF Entry, New
<1>11. new \in Stores
  <2>1. DOMAIN store \cup {q} \in SUBSET Path
    BY <1>2
  <2>2. new \in [DOMAIN store \cup {q} -> Partition]
    BY <1>2, <1>8, <1>9
  <2> QED BY <2>1, <2>2, PartialIs DEF Stores
<1>12. ASSUME NEW x \in Path \X DataPoint, CoveredIn(store, x) PROVE CoveredIn(new, x)
  <2>1. CASE x[1] = q
    <3>1. store[q] \in known /\ x[2] \in DataPoint /\ Covers(store[q], x[2])
      BY <1>3, <1>12, <2>1 DEF CoveredIn
    <3>2. Covers(entry, x[2])
      BY <1>8, <3>1
    <3>3. q \in DOMAIN new /\ new[q] = entry
      BY <1>9
    <3> QED BY <2>1, <3>2, <3>3 DEF CoveredIn
  <2>2. CASE x[1] # q
    <3>1. x[1] \in DOMAIN new /\ new[x[1]] = store[x[1]]
      BY <1>9, <1>12, <2>2 DEF CoveredIn
    <3> QED BY <1>12, <3>1 DEF CoveredIn
  <2> QED BY <2>1, <2>2
<1>13. Garbage \notin Stores /\ NoMetadata \notin Stores /\ NoMetadata # Garbage
  BY MetadataAssumption DEF MetadataAssumption, Stores
<1>14. \A x \in recorded : x \in Path \X DataPoint /\ CoveredIn(new, x)
  BY <1>12 DEF MetadataInv
<1>15. CASE ~v.whole
  <2>1. store' = new /\ saved' = saved /\ recorded' = recorded
    BY <1>6, <1>10, <1>15
  <2> QED BY <1>11, <1>14, <2>1 DEF MetadataInv
<1>16. CASE v.whole /\ HasSet(new)
  <2>1. store' = new /\ saved' = Garbage /\ recorded' = recorded
    BY <1>6, <1>10, <1>16
  <2> QED BY <1>11, <1>13, <1>14, <2>1 DEF MetadataInv
<1>17. CASE v.whole /\ ~HasSet(new)
  <2>1. /\ store' = new /\ saved' = new
        /\ recorded' = recorded \cup {<<q, dps[i]>> : i \in DOMAIN dps}
    BY <1>6, <1>10, <1>17
  <2>2. ASSUME NEW i \in DOMAIN dps
        PROVE  <<q, dps[i]>> \in Path \X DataPoint /\ CoveredIn(new, <<q, dps[i]>>)
    <3>1. dps[i] \in DataPoint
      BY <1>1, LenProperties
    <3>2. q \in DOMAIN new /\ new[q] = entry
      BY <1>9
    <3>3. Covers(entry, dps[i])
      BY <1>8, <1>17
    <3> QED BY <3>1, <3>2, <3>3 DEF CoveredIn
  <2>3. \A x \in recorded' : x \in Path \X DataPoint /\ CoveredIn(new, x)
    BY <1>14, <2>1, <2>2
  <2> QED BY <1>11, <1>13, <2>1, <2>3 DEF MetadataInv
<1> QED BY <1>15, <1>16, <1>17

\* A recorded point is found by every query its time and tags satisfy.
LEMMA MetadataInvSkips == MetadataInv => NothingSkipped
<1> SUFFICES ASSUME MetadataInv, NEW x \in recorded, NEW start \in Stamp, NEW end \in Stamp,
                    NEW asked \in SUBSET DOMAIN x[2].tags,
                    start =< x[2].ts, x[2].ts =< end
             PROVE  x[1] \in GetPartitionsForQuery(start, end, [k \in asked |-> x[2].tags[k]])
  BY DEF NothingSkipped
<1>1. x \in Path \X DataPoint /\ CoveredIn(store, x)
  BY DEF MetadataInv
<1>2. x[2].ts \in Stamp
  BY <1>1 DEF DataPoint
<1>3. x[1] \in DOMAIN store /\ store[x[1]].min \in Stamp /\ store[x[1]].max \in Stamp
  <2>1. x[1] \in DOMAIN store /\ store[x[1]] \in Partition
    BY <1>1, PartialIs DEF MetadataInv, Stores, CoveredIn
  <2> QED BY <2>1 DEF Partition
<1>4. Stamp \subseteq Int
  BY MetadataAssumption DEF MetadataAssumption
<1>5. store[x[1]].max >= start /\ store[x[1]].min =< end
  <2>1. /\ start \in Int /\ end \in Int /\ x[2].ts \in Int
        /\ store[x[1]].min \in Int /\ store[x[1]].max \in Int
    BY <1>2, <1>3, <1>4
  <2>2. store[x[1]].min =< x[2].ts /\ x[2].ts =< store[x[1]].max
    BY <1>1 DEF CoveredIn, Covers
  <2> QED BY <2>1, <2>2, InOrder
<1>6. PICK filter : filter = [k \in asked |-> x[2].tags[k]]
  OBVIOUS
<1>7. \A key \in DOMAIN filter :
         key \in DOMAIN store[x[1]].tags /\ filter[key] \in store[x[1]].tags[key].values
  BY <1>1, <1>6 DEF CoveredIn, Covers
<1> QED BY <1>3, <1>5, <1>6, <1>7 DEF GetPartitionsForQuery

\* Pruning by time range and tag values never skips a partition that holds a
\* point an update returned for: after updates that raised halfway, left sets
\* behind or ruined the file, and after a restart that could load it.
THEOREM Metadata_skips_nothing == MetadataSpec => []NothingSkipped
<1>1. MetadataInv /\ [MetadataNext]_metadataVars => MetadataInv'
  <2> SUFFICES ASSUME MetadataInv, [MetadataNext]_metadataVars PROVE MetadataInv'
    OBVIOUS
  <2>1. CASE Reopen
    BY <2>1, ReopenKeeps
  <2>2. ASSUME NEW q \in Path, NEW dps \in Records, RecordPoints(q, dps) PROVE MetadataInv'
    BY <2>2, RecordPointsKeeps
  <2>3. CASE UNCHANGED metadataVars
    BY <2>3 DEF metadataVars, MetadataInv
  <2> QED BY <2>1, <2>2, <2>3 DEF MetadataNext
<1>2. MetadataInv => NothingSkipped
  BY MetadataInvSkips
<1> QED BY <1>1, <1>2, MetadataInitInv, PTL DEF MetadataSpec

-----------------------------------------------------------------------------
(* Series ids, for every set of series                                     *)

SeriesKeySet == {MakeSeriesKey(s) : s \in Series}

\* No key is listed twice, and a series was given the id its key is listed at.
SeriesInv ==
    /\ keys \in Seq(SeriesKeySet) /\ given \in [Series -> SUBSET Nat]
    /\ \A i, j \in DOMAIN keys : keys[i] = keys[j] => i = j
    /\ \A s \in Series : \A id \in given[s] : id \in DOMAIN keys /\ keys[id] = MakeSeriesKey(s)

\* Series get one id exactly when they have one key.
IdsFollowKeys ==
    \A s, u \in {v \in Series : given[v] # {}} :
        /\ \E id \in Nat : given[s] = {id}
        /\ given[s] = given[u] <=> MakeSeriesKey(s) = MakeSeriesKey(u)
        /\ given[s] \cap given[u] # {} => given[s] = given[u]

LEMMA SeriesInitInv == SeriesInit => SeriesInv
<1> SUFFICES ASSUME SeriesInit PROVE SeriesInv
  OBVIOUS
<1>1. keys = <<>> /\ DOMAIN keys = {} /\ given = [s \in Series |-> {}]
  BY DEF SeriesInit
<1> QED BY <1>1 DEF SeriesInv

LEMMA GetOrCreateKeeps ==
    ASSUME SeriesInv, NEW s \in Series, GetOrCreateId(s)
    PROVE  SeriesInv'
<1>1. PICK key \in SeriesKeySet : key = MakeSeriesKey(s)
  BY DEF SeriesKeySet
<1>2. PICK n \in Nat : n = Len(keys) /\ DOMAIN keys = 1..n
  BY LenProperties DEF SeriesInv
<1>3. PICK id : id = IF key \in ToSet(keys) THEN CHOOSE i \in DOMAIN keys : keys[i] = key ELSE n + 1
  OBVIOUS
<1>4. /\ keys' = IF id > n THEN Append(keys, key) ELSE keys
      /\ given' = [given EXCEPT ![s] = @ \cup {id}]
  BY <1>1, <1>2, <1>3, Zenon DEF GetOrCreateId
<1>5. CASE key \in ToSet(keys)
  <2>1. \E i \in DOMAIN keys : keys[i] = key
    BY <1>5 DEF ToSet
  <2>2. id \in DOMAIN keys /\ keys[id] = key
    BY <1>3, <1>5, <2>1
  <2>3. keys' = keys
    BY <1>2, <1>4, <2>2
  <2>4. id \in Nat
    BY <1>2, <2>2
  <2>5. given' \in [Series -> SUBSET Nat]
    BY <1>4, <2>4 DEF SeriesInv
  <2>6. \A u \in Series : \A i \in given'[u] : i \in given[u] \/ (u = s /\ i = id)
    BY <1>4 DEF SeriesInv
  <2> QED BY <1>1, <2>2, <2>3, <2>5, <2>6 DEF SeriesInv
<1>6. CASE key \notin ToSet(keys)
  <2>1. id = n + 1 /\ \A i \in 1..n : keys[i] # key
    BY <1>2, <1>3, <1>6 DEF ToSet
  <2>2. keys' = Append(keys, key)
    BY <1>4, <2>1
  <2>3. /\ keys' \in Seq(SeriesKeySet) /\ DOMAIN keys' = 1..(n + 1)
        /\ keys'[n + 1] = key /\ \A i \in 1..n : keys'[i] = keys[i]
    BY <1>2, <2>2, AppendProperties DEF SeriesInv
  <2>4. given' \in [Series -> SUBSET Nat]
    BY <1>4, <2>1 DEF SeriesInv
  <2>5. \A u \in Series : \A i \in given'[u] : i \in given[u] \/ (u = s /\ i = n + 1)
    BY <1>4, <2>1 DEF SeriesInv
  <2>6. \A u \in Series : \A i \in given'[u] : i \in DOMAIN keys' /\ keys'[i] = MakeSeriesKey(u)
    <3> TAKE u \in Series
    <3> TAKE i \in given'[u]
    <3>1. CASE i \in given[u]
      <4>1. i \in 1..n /\ keys[i] = MakeSeriesKey(u)
        BY <1>2, <3>1 DEF SeriesInv
      <4> QED BY <2>3, <4>1
    <3>2. CASE u = s /\ i = n + 1
      BY <1>1, <2>3, <3>2
    <3> QED BY <2>5, <3>1, <3>2
  <2>7. \A i, j \in DOMAIN keys' : keys'[i] = keys'[j] => i = j
    <3>1. \A i, j \in 1..n : keys[i] = keys[j] => i = j
      BY <1>2 DEF SeriesInv
    <3>2. \A i \in 1..(n + 1) : i \in 1..n \/ i = n + 1
      OBVIOUS
    <3> QED BY <2>1, <2>3, <3>1, <3>2
  <2> QED BY <2>3, <2>4, <2>6, <2>7 DEF SeriesInv
<1> QED BY <1>5, <1>6

LEMMA SeriesInvIds == SeriesInv => IdsFollowKeys
<1> SUFFICES ASSUME SeriesInv, NEW s \in Series, NEW u \in Series, given[s] # {}, given[u] # {}
             PROVE  /\ \E id \in Nat : given[s] = {id}
                    /\ given[s] = given[u] <=> MakeSeriesKey(s) = MakeSeriesKey(u)
                    /\ given[s] \cap given[u] # {} => given[s] = given[u]
  BY DEF IdsFollowKeys
<1>1. \A v \in {s, u} : \A i, j \in given[v] : i = j
  BY DEF SeriesInv
<1>2. PICK i \in Nat, j \in Nat : given[s] = {i} /\ given[u] = {j}
  BY <1>1 DEF SeriesInv
<1>3. /\ i \in DOMAIN keys /\ keys[i] = MakeSeriesKey(s)
      /\ j \in DOMAIN keys /\ keys[j] = MakeSeriesKey(u)
  BY <1>2 DEF SeriesInv
<1>4. keys[i] = keys[j] => i = j
  BY <1>3 DEF SeriesInv
<1> QED BY <1>2, <1>3, <1>4

LEMMA Series_inductive == SeriesSpec => []SeriesInv
<1>1. SeriesInv /\ [SeriesNext]_seriesVars => SeriesInv'
  <2> SUFFICES ASSUME SeriesInv, [SeriesNext]_seriesVars PROVE SeriesInv'
    OBVIOUS
  <2>1. CASE SeriesNext
    BY <2>1, GetOrCreateKeeps DEF SeriesNext
  <2>2. CASE UNCHANGED seriesVars
    BY <2>2 DEF seriesVars, SeriesInv
  <2> QED BY <2>1, <2>2
<1> QED BY <1>1, SeriesInitInv, PTL DEF SeriesSpec

\* get_or_create_id: a series gets the same id every time, and shares it with the
\* series of the same key and with no other, for any series and any calls.
THEOREM Ids_follow_keys == SeriesSpec => []IdsFollowKeys
BY Series_inductive, SeriesInvIds, PTL

-----------------------------------------------------------------------------
(* Whole numbers of steps, and the last of them up to a                    *)

LEMMA Division ==
    ASSUME NEW a \in Int, NEW n \in Nat \ {0}
    PROVE  /\ a \div n \in Int /\ (a \div n) * n =< a /\ a < (a \div n) * n + n
           /\ a % n \in 0..(n - 1) /\ a = (a \div n) * n + (a % n)
BY SMTT(30)

LEMMA Product ==
    ASSUME NEW p \in Int, NEW q \in Int, NEW n \in Nat, p < q
    PROVE  p * n \in Int /\ q * n \in Int /\ p * n + n =< q * n
<1>1. PICK d \in Nat : q = p + 1 + d
  <2>1. q - p - 1 \in Nat /\ q = p + 1 + (q - p - 1)
    OBVIOUS
  <2> QED BY <2>1
<1>2. (p + 1 + d) * n = p * n + n + d * n
  OBVIOUS
<1>3. d * n \in Nat
  OBVIOUS
<1> QED BY <1>1, <1>2, <1>3

LEMMA MultipleMod ==
    ASSUME NEW k \in Int, NEW n \in Nat \ {0}
    PROVE  (k * n) % n = 0
BY SMTT(30)

Floor(a, n) == (a \div n) * n

LEMMA Multiples ==
    ASSUME NEW n \in Nat \ {0}, NEW f \in Int
    PROVE  f % n = 0 <=> \E k \in Int : f = k * n
<1>1. ASSUME f % n = 0 PROVE \E k \in Int : f = k * n
  <2>1. f \div n \in Int /\ f = (f \div n) * n + (f % n)
    BY Division
  <2>2. PICK k \in Int : k = f \div n
    BY <2>1
  <2>3. PICK g \in Int : g = k * n
    OBVIOUS
  <2>4. f = g + (f % n)
    BY <2>1, <2>2, <2>3
  <2>5. f = g
    BY <1>1, <2>4
  <2> QED BY <2>3, <2>5
<1>2. ASSUME NEW k \in Int, f = k * n PROVE f % n = 0
  BY <1>2, MultipleMod
<1> QED BY <1>1, <1>2

LEMMA MultiplesApart ==
    ASSUME NEW n \in Nat \ {0}, NEW f \in Int, NEW g \in Int, f % n = 0, g % n = 0, f < g
    PROVE  f + n =< g
<1>1. PICK k \in Int, m \in Int : f = k * n /\ g = m * n
  BY Multiples
<1>2. k * n \in Int /\ m * n \in Int
  OBVIOUS
<1>3. k < m
  <2> SUFFICES ASSUME m =< k PROVE FALSE
    BY <1>1
  <2>1. CASE m = k
    BY <1>1, <2>1
  <2>2. CASE m < k
    <3>1. m * n + n =< k * n
      BY <2>2, Product
    <3> QED BY <1>1, <1>2, <3>1
  <2> QED BY <2>1, <2>2
<1>4. k * n + n =< m * n
  BY <1>3, Product
<1> QED BY <1>1, <1>2, <1>4

LEMMA MultiplesSum ==
    ASSUME NEW n \in Nat \ {0}, NEW f \in Int, NEW g \in Int, f % n = 0, g % n = 0
    PROVE  (f + g) % n = 0 /\ (f - g) % n = 0
<1>1. PICK k \in Int, m \in Int : f = k * n /\ g = m * n
  BY Multiples
<1>2. f + g = (k + m) * n /\ f - g = (k - m) * n /\ k + m \in Int /\ k - m \in Int
  BY <1>1
<1> QED BY <1>2, MultipleMod

LEMMA FloorIs ==
    ASSUME NEW n \in Nat \ {0}, NEW a \in Int
    PROVE  /\ Floor(a, n) \in Int /\ Floor(a, n) % n = 0
           /\ Floor(a, n) =< a /\ a < Floor(a, n) + n /\ a % n = a - Floor(a, n)
<1>1. PICK q \in Int : q = a \div n
  BY Division
<1>2. q * n \in Int /\ q * n =< a /\ a < q * n + n /\ a = q * n + (a % n) /\ a % n \in 0..(n - 1)
  BY <1>1, Division
<1>3. (q * n) % n = 0
  BY MultipleMod
<1>4. PICK r \in Int : r = a % n
  BY <1>2
<1> QED BY <1>1, <1>2, <1>3, <1>4 DEF Floor

LEMMA FloorOf ==
    ASSUME NEW n \in Nat \ {0}, NEW a \in Int, NEW f \in Int, f % n = 0, f =< a, a < f + n
    PROVE  Floor(a, n) = f
<1>1. PICK g \in Int : g = Floor(a, n)
  BY FloorIs
<1>2. g % n = 0 /\ g =< a /\ a < g + n
  BY <1>1, FloorIs
<1>3. f < g => f + n =< g
  BY <1>2, MultiplesApart
<1>4. g < f => g + n =< f
  BY <1>2, MultiplesApart
<1> QED BY <1>1, <1>2, <1>3, <1>4

LEMMA FloorDiv ==
    ASSUME NEW n \in Nat \ {0}, NEW a \in Int, NEW b \in Int, Floor(a, n) = Floor(b, n)
    PROVE  a \div n = b \div n
<1>1. PICK p \in Int, q \in Int : p = a \div n /\ q = b \div n
  BY Division
<1>2. p * n \in Int /\ q * n \in Int /\ p * n = q * n
  BY <1>1 DEF Floor
<1>3. ~(p < q)
  <2> SUFFICES ASSUME p < q PROVE FALSE
    OBVIOUS
  <2>1. p * n + n =< q * n
    BY Product
  <2> QED BY <1>2, <2>1
<1>4. ~(q < p)
  <2> SUFFICES ASSUME q < p PROVE FALSE
    OBVIOUS
  <2>1. q * n + n =< p * n
    BY Product
  <2> QED BY <1>2, <2>1
<1> QED BY <1>1, <1>3, <1>4

\* A multiple is at most a exactly when it is at most the floor of a.
LEMMA FloorBound ==
    ASSUME NEW n \in Nat \ {0}, NEW a \in Int, NEW f \in Int, f % n = 0
    PROVE  (f =< a => f =< Floor(a, n)) /\ (a < f => Floor(a, n) + n =< f)
<1>1. PICK g \in Int : g = Floor(a, n)
  BY FloorIs
<1>2. g % n = 0 /\ g =< a /\ a < g + n
  BY <1>1, FloorIs
<1>3. g < f => g + n =< f
  BY <1>2, MultiplesApart
<1> QED BY <1>1, <1>2, <1>3

LEMMA FloorGrows ==
    ASSUME NEW n \in Nat \ {0}, NEW a \in Int, NEW b \in Int, a =< b
    PROVE  Floor(a, n) =< Floor(b, n)
<1>1. PICK f \in Int : f = Floor(a, n)
  BY FloorIs
<1>2. f % n = 0 /\ f =< a
  BY <1>1, FloorIs
<1>3. f =< b
  BY <1>2
<1> QED BY <1>1, <1>2, <1>3, FloorBound

LEMMA Coarser ==
    ASSUME NEW n \in Nat \ {0}, NEW k \in Nat \ {0}, NEW f \in Int, f % (n * k) = 0
    PROVE  f % n = 0
<1>1. n * k \in Nat \ {0}
  OBVIOUS
<1>2. PICK m \in Int : f = m * (n * k)
  BY <1>1, Multiples
<1>3. f = (m * k) * n /\ m * k \in Int
  BY <1>2
<1> QED BY <1>3, MultipleMod

-----------------------------------------------------------------------------
(* Loops *)

LEMMA Reached ==
    ASSUME NEW n \in Nat, NEW S, 0 \in S, \A k \in 1..n : k - 1 \in S => k \in S
    PROVE  \A k \in 0..n : k \in S
<1> DEFINE T == {k \in 0..n : k \notin S}
<1> SUFFICES ASSUME T # {} PROVE FALSE
  OBVIOUS
<1>1. PICK k \in T : \A j \in T : k =< j
  <2>1. T \in SUBSET Nat
    OBVIOUS
  <2> HIDE DEF T
  <2> QED BY <2>1, LeastNatural
<1>2. k # 0
  OBVIOUS
<1>3. k \in 1..n /\ k - 1 \in 0..n /\ ~(k =< k - 1)
  BY <1>2
<1>4. k - 1 \in S
  BY <1>1, <1>3
<1> QED BY <1>3, <1>4

LoopOf(f, n, Values, first, turn) ==
    f \in [0..n -> Values] /\ f[0] = first /\ \A k \in 1..n : f[k] = turn[k][f[k - 1]]

\* A loop over n elements has a value after each of them.
LEMMA LoopRuns ==
    ASSUME NEW n \in Nat, NEW Values, NEW first \in Values, NEW turn \in [1..n -> [Values -> Values]]
    PROVE  \E f : LoopOf(f, n, Values, first, turn)
<1> DEFINE Runs(f, m) == f[0] = first /\ \A k \in 1..m : f[k] = turn[k][f[k - 1]]
           S == {m \in 0..n : \E f \in [0..m -> Values] : Runs(f, m)}
<1>1. 0 \in S
  <2>1. [k \in 0..0 |-> first] \in [0..0 -> Values] /\ Runs([k \in 0..0 |-> first], 0)
    OBVIOUS
  <2> HIDE DEF Runs
  <2> QED BY <2>1
<1>2. ASSUME NEW m \in 1..n, m - 1 \in S PROVE m \in S
  <2>1. PICK f \in [0..(m - 1) -> Values] : Runs(f, m - 1)
    BY <1>2
  <2> DEFINE g == [k \in 0..m |-> IF k = m THEN turn[m][f[m - 1]] ELSE f[k]]
  <2>2. \A k \in 0..m : k # m => k \in 0..(m - 1)
    OBVIOUS
  <2>3. \A k \in 1..m : k - 1 \in 0..(m - 1) /\ k - 1 # m /\ k - 1 \in 0..m
    OBVIOUS
  <2>4. m - 1 \in 0..(m - 1) /\ turn[m] \in [Values -> Values] /\ f[m - 1] \in Values
    OBVIOUS
  <2>5. turn[m][f[m - 1]] \in Values
    BY <2>4
  <2>6. g \in [0..m -> Values]
    BY <2>2, <2>5
  <2>7. g[0] = first
    BY <2>1
  <2>8. \A k \in 1..m : g[k] = turn[k][g[k - 1]]
    <3> SUFFICES ASSUME NEW k \in 1..m PROVE g[k] = turn[k][g[k - 1]]
      OBVIOUS
    <3>1. g[k - 1] = f[k - 1]
      BY <2>3
    <3>2. CASE k = m
      BY <3>1, <3>2
    <3>3. CASE k # m
      <4>1. k \in 1..(m - 1) /\ k \in 0..m
        BY <3>3
      <4>2. f[k] = turn[k][f[k - 1]] /\ g[k] = f[k]
        BY <2>1, <3>3, <4>1
      <4> QED BY <3>1, <4>2
    <3> QED BY <3>2, <3>3
  <2> HIDE DEF g
  <2>9. Runs(g, m)
    BY <2>7, <2>8
  <2>10. m \in 0..n
    OBVIOUS
  <2> HIDE DEF Runs
  <2> QED BY <2>6, <2>9, <2>10
<1>3. n \in S
  <2>1. n \in 0..n
    OBVIOUS
  <2> HIDE DEF S
  <2> QED BY <1>1, <1>2, <2>1, Reached
<1> QED BY <1>3 DEF LoopOf

-----------------------------------------------------------------------------
(* The time windows of an aggregation, for all timestamps, intervals and   *)
(* origins                                                                 *)

\* s is where a window may begin.
OnGrid(s, interval, origin) == s \in Int /\ (s - origin) % interval = 0

LEMMA GridApart ==
    ASSUME NEW interval \in Nat \ {0}, NEW origin \in Int, NEW s, NEW u,
           OnGrid(s, interval, origin), OnGrid(u, interval, origin), s < u
    PROVE  s + interval =< u
<1>1. s \in Int /\ u \in Int
  BY DEF OnGrid
<1>2. PICK f \in Int, g \in Int : f = s - origin /\ g = u - origin
  BY <1>1
<1>3. f % interval = 0 /\ g % interval = 0 /\ f < g
  BY <1>1, <1>2 DEF OnGrid
<1>4. f + interval =< g
  BY <1>3, MultiplesApart
<1> QED BY <1>1, <1>2, <1>4

\* The start of a window when no step rounds.
StartOf(t, interval, origin) == origin + ((t - origin) \div interval) * interval

LEMMA WindowIs ==
    ASSUME NEW t \in Int, NEW interval \in Nat \ {0}, NEW origin \in Int
    PROVE  /\ OnGrid(StartOf(t, interval, origin), interval, origin)
           /\ StartOf(t, interval, origin) =< t
           /\ t < StartOf(t, interval, origin) + interval
<1>1. PICK a \in Int : a = t - origin
  OBVIOUS
<1>2. PICK f \in Int : f = Floor(a, interval)
  BY FloorIs
<1>3. f % interval = 0 /\ f =< a /\ a < f + interval
  BY <1>2, FloorIs
<1>4. StartOf(t, interval, origin) = origin + f
  BY <1>1, <1>2 DEF StartOf, Floor
<1>5. origin + f \in Int /\ (origin + f) - origin = f
  OBVIOUS
<1> QED BY <1>1, <1>3, <1>4, <1>5 DEF OnGrid

\* The window of t is the one that holds it.
LEMMA WindowHolds ==
    ASSUME NEW t \in Int, NEW interval \in Nat \ {0}, NEW origin \in Int,
           NEW s, OnGrid(s, interval, origin)
    PROVE  StartOf(t, interval, origin) = s <=> s =< t /\ t < s + interval
<1>1. PICK u : u = StartOf(t, interval, origin)
  OBVIOUS
<1>2. OnGrid(u, interval, origin) /\ u =< t /\ t < u + interval
  BY <1>1, WindowIs
<1>3. s \in Int /\ u \in Int
  BY <1>2 DEF OnGrid
<1>4. s < u => s + interval =< u
  BY <1>2, GridApart
<1>5. u < s => u + interval =< s
  BY <1>2, GridApart
<1> QED BY <1>1, <1>2, <1>3, <1>4, <1>5

\* What is a whole number of windows behind a start is another.
LEMMA GridBetween ==
    ASSUME NEW interval \in Nat \ {0}, NEW origin \in Int, NEW u, NEW s \in Int,
           OnGrid(u, interval, origin)
    PROVE  OnGrid(s, interval, origin) <=> (s - u) % interval = 0
<1>1. u \in Int
  BY DEF OnGrid
<1>2. PICK f \in Int, g \in Int, e \in Int : f = s - u /\ g = u - origin /\ e = s - origin
  BY <1>1
<1>3. g % interval = 0 /\ e = f + g /\ f = e - g
  BY <1>1, <1>2 DEF OnGrid
<1>4. f % interval = 0 => (f + g) % interval = 0
  BY <1>3, MultiplesSum
<1>5. e % interval = 0 => (e - g) % interval = 0
  BY <1>3, MultiplesSum
<1>6. e % interval = 0 <=> f % interval = 0
  BY <1>3, <1>4, <1>5
<1> QED BY <1>2, <1>6 DEF OnGrid

LEMMA EndsOfStarts ==
    ASSUME NEW ts \in Seq(Int), ts # <<>>, NEW interval \in Nat \ {0}, NEW origin \in Int,
           NEW starts, starts = {StartOf(t, interval, origin) : t \in ToSet(ts)}
    PROVE  /\ \A s \in starts : OnGrid(s, interval, origin) /\ Min(starts) =< s /\ s =< Max(starts)
           /\ Min(starts) \in starts /\ Max(starts) \in starts
<1>1. PICK n \in Nat : n = Len(ts) /\ DOMAIN ts = 1..n /\ n # 0
  BY LenProperties, EmptySeq
<1>2. \A i \in 1..n : ts[i] \in Int
  BY <1>1, LenProperties
<1>3. \A s \in starts : \E i \in 1..n : s = StartOf(ts[i], interval, origin)
  BY <1>1 DEF ToSet
<1>4. \A i \in 1..n : StartOf(ts[i], interval, origin) \in starts
  BY <1>1 DEF ToSet
<1>5. \A s \in starts : OnGrid(s, interval, origin)
  BY <1>2, <1>3, WindowIs
<1>6. starts \in SUBSET Int /\ starts # {}
  <2>1. 1 \in 1..n
    BY <1>1
  <2> QED BY <1>4, <1>5, <2>1 DEF OnGrid
<1>7. IsFiniteSet(starts)
  <2> DEFINE f == [i \in 1..n |-> StartOf(ts[i], interval, origin)]
  <2>1. f \in [1..n -> starts] /\ \A s \in starts : \E i \in 1..n : f[i] = s
    BY <1>3, <1>4
  <2>2. 1 \in Int /\ n \in Int
    OBVIOUS
  <2>3. IsFiniteSet(1..n)
    BY <2>2, FS_Interval, Zenon
  <2> HIDE DEF f
  <2>4. f \in Surjection(1..n, starts)
    BY <2>1 DEF Surjection
  <2> QED BY <2>3, <2>4, FS_Surjection
<1>8. Min(starts) = MinOf(starts) /\ Max(starts) = MaxOf(starts)
  BY DEF Min, Max, MinOf, MaxOf
<1>9. /\ MinOf(starts) \in starts /\ \A y \in starts : MinOf(starts) =< y
      /\ MaxOf(starts) \in starts /\ \A y \in starts : MaxOf(starts) >= y
  BY <1>6, <1>7, EndsOf
<1>10. \A s \in starts : s \in Int /\ MaxOf(starts) \in Int /\ s =< MaxOf(starts)
  BY <1>6, <1>9
<1> QED BY <1>5, <1>8, <1>9, <1>10

\* A quotient is no further from zero than what is divided.
LEMMA QuotientWithin ==
    ASSUME NEW a \in Int, NEW n \in Nat \ {0}, NEW m \in Nat, a \in (-m)..m
    PROVE  a \div n \in (-m)..m
<1>1. PICK x \in Int : x = a \div n /\ x * n =< a /\ a < x * n + n
  BY Division
<1>2. PICK xn \in Int : xn = x * n
  OBVIOUS
<1>3. ASSUME m < x PROVE FALSE
  <2>1. x = x * 1 /\ x * n >= x
    <3>1. PICK d \in Nat : n = 1 + d
      <4>1. n - 1 \in Nat /\ n = 1 + (n - 1)
        OBVIOUS
      <4> QED BY <4>1
    <3>2. x * (1 + d) = x + x * d /\ x * d \in Nat
      BY <1>3
    <3> QED BY <3>1, <3>2
  <2> QED BY <1>1, <1>3, <2>1
<1>4. ASSUME x < -m PROVE FALSE
  <2>1. PICK y \in Nat : x = -m - 1 - y
    <3>1. -m - 1 - x \in Nat /\ x = -m - 1 - (-m - 1 - x)
      BY <1>4
    <3> QED BY <3>1
  <2>2. PICK z \in Nat : z = m + y /\ x + 1 = -z
    BY <2>1
  <2>3. PICK d \in Nat : n = 1 + d
    <3>1. n - 1 \in Nat /\ n = 1 + (n - 1)
      OBVIOUS
    <3> QED BY <3>1
  <2>4. x * n + n = (x + 1) * n
    OBVIOUS
  <2>5. (-z) * (1 + d) = -z - z * d /\ z * d \in Nat
    OBVIOUS
  <2>6. x * n + n =< -m
    BY <2>2, <2>3, <2>4, <2>5
  <2> QED BY <1>1, <2>6
<1> QED BY <1>1, <1>3, <1>4

\* What is up to a window before and behind a timestamp is exact, from zero and
\* from the origin.
ExactAround(t, interval, origin) ==
    /\ t - interval \in (-Exact)..Exact /\ t + interval \in (-Exact)..Exact
    /\ t - origin - interval \in (-Exact)..Exact /\ t - origin \in (-Exact)..Exact

LEMMA WindowExact ==
    ASSUME NEW t \in Int, NEW interval \in Nat \ {0}, NEW origin \in Int,
           ExactAround(t, interval, origin)
    PROVE  WindowStart(t, interval, origin) = StartOf(t, interval, origin)
<1>1. PICK a \in Int : a = t - origin
  OBVIOUS
<1>2. PICK x \in Int : x = a \div interval /\ x * interval =< a /\ a < x * interval + interval
  BY Division
<1>3. PICK f \in Int : f = x * interval
  OBVIOUS
<1>4. Exact \in Nat /\ \A n \in (-Exact)..Exact : Rounded(n) = n
  BY ArithmeticAssumption
<1>5. /\ a \in (-Exact)..Exact /\ a - interval \in (-Exact)..Exact
      /\ t - interval \in (-Exact)..Exact /\ t + interval \in (-Exact)..Exact
  BY <1>1 DEF ExactAround
<1>6. x \in (-Exact)..Exact
  BY <1>2, <1>4, <1>5, QuotientWithin
<1>7. f \in (-Exact)..Exact
  BY <1>2, <1>3, <1>4, <1>5
<1>8. origin + f \in (-Exact)..Exact
  BY <1>1, <1>2, <1>3, <1>4, <1>5
<1>9. Rounded(Rounded(t - origin) \div interval) = x
  BY <1>1, <1>2, <1>4, <1>5, <1>6
<1>10. Rounded(x * interval) = f
  BY <1>3, <1>4, <1>7
<1>11. Rounded(origin + f) = origin + f
  BY <1>4, <1>8
<1>12. WindowStart(t, interval, origin) = origin + f
  BY <1>9, <1>10, <1>11, Zenon DEF WindowStart
<1> QED BY <1>1, <1>2, <1>3, <1>12 DEF StartOf

\* What the start is before each turn of the loop that fills.
NextStart(u, last, interval) == IF u > last THEN u ELSE Rounded(u + interval)

Runs(u, n, first, last, interval) ==
    /\ DOMAIN u = 0..n /\ u[0] = first
    /\ \A k \in 1..n : u[k] = NextStart(u[k - 1], last, interval)

\* The loop that fills has a start before each turn, if no step of it rounds.
LEMMA FillRuns ==
    ASSUME NEW first \in Int, NEW last \in Int, first =< last, NEW interval \in Nat \ {0},
           \A s \in first..last : s + interval \in (-Exact)..Exact
    PROVE  Runs(Fill(first, last, interval), last - first + 1, first, last, interval)
<1>1. PICK n \in Nat : n = last - first + 1
  OBVIOUS
<1>2. \A s \in first..last : Rounded(s + interval) = s + interval
  BY ArithmeticAssumption
<1> DEFINE Starts == {v \in Int : first =< v}
           turn == [k \in 1..n |-> [v \in Starts |-> NextStart(v, last, interval)]]
           Filling(u) == u = [k \in 0..(last - first + 1) |->
                                 IF k = 0 THEN first ELSE NextStart(u[k - 1], last, interval)]
<1>3. turn \in [1..n -> [Starts -> Starts]]
  <2>1. \A v \in Starts : NextStart(v, last, interval) \in Starts
    <3> SUFFICES ASSUME NEW v \in Starts PROVE NextStart(v, last, interval) \in Starts
      OBVIOUS
    <3>1. CASE v > last
      BY <3>1 DEF NextStart
    <3>2. CASE v =< last
      <4>1. Rounded(v + interval) = v + interval
        BY <1>2, <3>2
      <4>2. NextStart(v, last, interval) = v + interval
        BY <3>2, <4>1 DEF NextStart
      <4> QED BY <4>2
    <3> QED BY <3>1, <3>2
  <2> HIDE DEF Starts
  <2> QED BY <2>1
<1>4. \A k \in 1..n : \A v \in Starts : turn[k][v] = NextStart(v, last, interval)
  OBVIOUS
<1>5. first \in Starts
  OBVIOUS
<1> HIDE DEF turn, Starts
<1>6. PICK f : LoopOf(f, n, Starts, first, turn)
  BY <1>3, <1>5, LoopRuns, Zenon
<1>7. f \in [0..n -> Starts] /\ f[0] = first /\ \A k \in 1..n : f[k] = turn[k][f[k - 1]]
  BY <1>6 DEF LoopOf
<1>8. \A k \in 1..n : f[k] = NextStart(f[k - 1], last, interval)
  <2>1. \A k \in 1..n : k - 1 \in 0..n
    OBVIOUS
  <2> QED BY <1>4, <1>7, <2>1
<1>9. Filling(f)
  <2>1. \A k \in 0..n : k # 0 => k \in 1..n
    OBVIOUS
  <2>2. \A k \in 0..n : f[k] = IF k = 0 THEN first ELSE NextStart(f[k - 1], last, interval)
    BY <1>7, <1>8, <2>1
  <2>3. f = [k \in 0..n |-> f[k]]
    BY <1>7
  <2> QED BY <1>1, <2>2, <2>3
<1> DEFINE u == CHOOSE g : Filling(g)
<1>10. Filling(u)
  <2> HIDE DEF Filling
  <2> QED BY <1>9, Zenon
<1>11. u = Fill(first, last, interval)
  BY Zenon DEF Fill, NextStart
<1> HIDE DEF u
<1>12. Runs(u, n, first, last, interval)
  <2>1. 0 \in 0..n /\ \A k \in 1..n : k \in 0..n /\ k # 0
    OBVIOUS
  <2> QED BY <1>1, <1>10, <2>1 DEF Runs
<1> QED BY <1>1, <1>11, <1>12

Fills(filled, first, last, interval) ==
    /\ \E s \in filled : s > last
    /\ \A s \in filled : s \in Int /\ first =< s /\ (s - first) % interval = 0
    /\ \A s \in first..last : (s - first) % interval = 0 => s \in filled

\* It ends, and visits the starts from the first to the last and no other.
LEMMA FillIs ==
    ASSUME NEW first \in Int, NEW last \in Int, first =< last, NEW interval \in Nat \ {0},
           \A s \in first..last : s + interval \in (-Exact)..Exact
    PROVE  Fills(Range(Fill(first, last, interval)), first, last, interval)
<1> DEFINE filled == Range(Fill(first, last, interval))
<1>1. PICK n \in Nat : n = last - first + 1
  OBVIOUS
<1>2. PICK u : u = Fill(first, last, interval) /\ Runs(u, n, first, last, interval)
  BY <1>1, FillRuns
<1>3. /\ DOMAIN u = 0..n /\ u[0] = first
      /\ \A k \in 1..n : u[k] = NextStart(u[k - 1], last, interval)
  BY <1>2 DEF Runs
<1>4. filled = {u[k] : k \in 0..n}
  BY <1>2, <1>3 DEF Range
<1> HIDE DEF filled
<1>5. \A s \in first..last : Rounded(s + interval) = s + interval
  BY ArithmeticAssumption
<1> DEFINE Good(v, k) == /\ v \in Int /\ first =< v /\ (v - first) % interval = 0
                         /\ v > last \/ first + k =< v
           S == {k \in 0..n : Good(u[k], k)}
<1>6. 0 \in S
  <2>1. first - first = 0 /\ 0 * interval = 0
    OBVIOUS
  <2>2. (first - first) % interval = 0
    BY <2>1, MultipleMod
  <2>3. 0 \in 0..n
    OBVIOUS
  <2> QED BY <1>3, <2>2, <2>3
<1>7. ASSUME NEW v \in Int, first =< v, v =< last, (v - first) % interval = 0
      PROVE  NextStart(v, last, interval) = v + interval /\ ((v + interval) - first) % interval = 0
  <2>1. NextStart(v, last, interval) = v + interval
    BY <1>5, <1>7 DEF NextStart
  <2>2. PICK g \in Int : g = v - first /\ (v + interval) - first = g + interval /\ g % interval = 0
    BY <1>7
  <2>3. PICK h \in Int : h = 1 * interval /\ h = interval
    OBVIOUS
  <2>4. h % interval = 0
    BY <2>3, MultipleMod
  <2>5. (g + h) % interval = 0
    BY <2>2, <2>4, MultiplesSum
  <2> QED BY <2>1, <2>2, <2>3, <2>5
<1>8. ASSUME NEW k \in 1..n, k - 1 \in S PROVE k \in S
  <2>1. PICK v \in Int : v = u[k - 1] /\ Good(v, k - 1)
    BY <1>8
  <2>2. u[k] = NextStart(v, last, interval)
    BY <1>3, <2>1
  <2>3. CASE v > last
    <3>1. u[k] = v
      BY <2>2, <2>3 DEF NextStart
    <3> QED BY <2>1, <2>3, <3>1
  <2>4. CASE v =< last
    <3>1. u[k] = v + interval /\ ((v + interval) - first) % interval = 0
      BY <1>7, <2>1, <2>2, <2>4
    <3>2. first + k =< v + interval
      BY <2>1, <2>4
    <3>3. Good(v + interval, k)
      BY <2>1, <3>1, <3>2
    <3>4. Good(u[k], k)
      BY <3>1, <3>3
    <3> QED BY <3>4
  <2> QED BY <2>3, <2>4
<1>9. \A k \in 0..n : Good(u[k], k)
  <2>1. \A k \in 0..n : k \in S
    <3> HIDE DEF S
    <3> QED BY <1>6, <1>8, Reached
  <2> QED BY <2>1
<1>10. \E s \in filled : s > last
  <2>1. n \in 0..n /\ Good(u[n], n)
    BY <1>9
  <2>2. u[n] > last
    BY <1>1, <2>1
  <2> QED BY <1>4, <2>1, <2>2
<1>11. ASSUME NEW s \in first..last, (s - first) % interval = 0 PROVE s \in filled
  <2> DEFINE R == {k \in 0..n : s \in filled \/ u[k] < s}
  <2>1. 0 \in R
    <3>1. 0 \in 0..n
      OBVIOUS
    <3>2. u[0] \in filled
      BY <1>4, <3>1
    <3>3. s = first \/ first < s
      OBVIOUS
    <3> QED BY <1>3, <3>1, <3>2, <3>3
  <2>2. ASSUME NEW k \in 1..n, k - 1 \in R PROVE k \in R
    <3> SUFFICES ASSUME s \notin filled PROVE u[k] < s
      OBVIOUS
    <3>1. PICK v \in Int : v = u[k - 1] /\ v < s /\ first =< v /\ (v - first) % interval = 0
      <4>1. k - 1 \in 0..n
        OBVIOUS
      <4> QED BY <1>9, <2>2, <4>1
    <3>2. u[k] = v + interval
      <4>1. v =< last
        BY <3>1
      <4> QED BY <1>3, <1>7, <3>1, <4>1
    <3>3. PICK f \in Int, g \in Int : f = v - first /\ g = s - first /\ f < g
      BY <3>1
    <3>4. f + interval =< g
      BY <1>11, <3>1, <3>3, MultiplesApart
    <3>5. u[k] =< s
      BY <3>2, <3>3, <3>4
    <3>6. u[k] # s
      BY <1>4
    <3> QED BY <3>2, <3>5, <3>6
  <2>3. n \in R
    <3>1. n \in 0..n
      OBVIOUS
    <3> HIDE DEF R
    <3> QED BY <2>1, <2>2, <3>1, Reached
  <2>4. n \in 0..n /\ Good(u[n], n)
    BY <1>9
  <2>5. u[n] > last
    BY <1>1, <2>4
  <2>6. ~(u[n] < s)
    BY <2>4, <2>5
  <2> QED BY <2>3, <2>6
<1>12. \A s \in filled : s \in Int /\ first =< s /\ (s - first) % interval = 0
  BY <1>4, <1>9
<1> QED BY <1>10, <1>11, <1>12 DEF Fills, filled

\* Whatever the timestamps, the interval and the origin: as long as no step rounds,
\* windows partition the timestamps, and the loop that fills ends and leaves no gap.
THEOREM Windows_tile ==
    ASSUME NEW ts \in Seq(Int), NEW interval \in Nat \ {0}, NEW origin \in Int
    PROVE  Tiled(ts, interval, origin)
<1> DEFINE Of(t) == WindowStart(t, interval, origin)
           starts == {Of(t) : t \in ToSet(ts)}
           Filled(fill_empty) == IF ts = <<>> \/ ~fill_empty THEN {}
                                 ELSE Range(Fill(Min(starts), Max(starts), interval))
           Begins(fill_empty) == starts \cup {s \in Filled(fill_empty) : s =< Max(starts)}
           Window(s) == [start |-> s, end |-> Rounded(s + interval),
                         count |-> Cardinality({i \in DOMAIN ts : Of(ts[i]) = s})]
<1> SUFFICES ASSUME NoRounding(ts, interval, origin), NEW fill_empty \in BOOLEAN,
                    NEW result, result = Aggregate(ts, interval, origin, fill_empty),
                    NEW ws, ws = result.windows
             PROVE  /\ result.ends
                    /\ \A i \in DOMAIN ts : \E win \in ws : win.start =< ts[i] /\ ts[i] < win.end
                    /\ \A win \in ws : win.count = Cardinality({i \in DOMAIN ts : win.start =< ts[i] /\ ts[i] < win.end})
                    /\ \A v, win \in ws : v = win \/ v.end =< win.start \/ win.end =< v.start
                    /\ fill_empty => \A v, win \in ws : v.end < win.end => \E u \in ws : u.start = v.end
  BY DEF Tiled
<1>1. /\ ws = {Window(s) : s \in Begins(fill_empty)}
      /\ result.ends = (Filled(fill_empty) # {} => \E s \in Filled(fill_empty) : s > Max(starts))
  <2> DEFINE windows == {Window(s) : s \in Begins(fill_empty)}
             ends == Filled(fill_empty) # {} => \E s \in Filled(fill_empty) : s > Max(starts)
  <2>1. result = [ends |-> ends, windows |-> windows]
    BY Zenon DEF Aggregate
  <2> HIDE DEF windows, ends
  <2>2. ws = windows /\ result.ends = ends
    BY <2>1
  <2> QED BY <2>2, Zenon DEF windows, ends
<1>2. \A i \in DOMAIN ts : ts[i] \in Int /\ ts[i] \in ToSet(ts) /\ Of(ts[i]) \in starts /\ ts # <<>>
  BY LenProperties, EmptySeq DEF ToSet
<1>14. \A t \in ToSet(ts) : /\ t \in Int /\ ExactAround(t, interval, origin)
                            /\ Of(t) = StartOf(t, interval, origin)
  <2>1. \A t \in ToSet(ts) : t \in Int
    BY DEF ToSet
  <2>2. \A t \in ToSet(ts) : ExactAround(t, interval, origin)
    BY Zenon DEF NoRounding, ExactAround
  <2> QED BY <2>1, <2>2, WindowExact
<1>15. starts = {StartOf(t, interval, origin) : t \in ToSet(ts)}
  BY <1>14
<1>3. ts # <<>> =>
        /\ \A s \in starts : OnGrid(s, interval, origin) /\ Min(starts) =< s /\ s =< Max(starts)
        /\ Min(starts) \in starts /\ Max(starts) \in starts
  <2> HIDE DEF starts
  <2> QED BY <1>15, EndsOfStarts
<1>16. \A s \in starts : s \in Int /\ s + interval \in (-Exact)..Exact /\ s \in (-Exact)..Exact /\ ts # <<>>
  <2> SUFFICES ASSUME NEW s \in starts
               PROVE  s \in Int /\ s + interval \in (-Exact)..Exact /\ s \in (-Exact)..Exact /\ ts # <<>>
    OBVIOUS
  <2>1. PICK t \in ToSet(ts) : s = StartOf(t, interval, origin)
    BY <1>14
  <2>2. t \in Int /\ t - interval \in (-Exact)..Exact /\ t + interval \in (-Exact)..Exact
    BY <1>14 DEF ExactAround
  <2>3. s \in Int /\ s =< t /\ t < s + interval
    BY <2>1, <2>2, WindowIs DEF OnGrid
  <2>4. Exact \in Nat
    BY ArithmeticAssumption
  <2>5. ts # <<>>
    BY DEF ToSet
  <2> QED BY <2>2, <2>3, <2>4, <2>5
<1> HIDE DEF starts
<1>17. ASSUME fill_empty, ts # <<>>
       PROVE  /\ \E s \in Filled(fill_empty) : s > Max(starts)
              /\ \A s \in Filled(fill_empty) : /\ s \in Int /\ Min(starts) =< s
                                               /\ (s - Min(starts)) % interval = 0
              /\ \A s \in Min(starts)..Max(starts) :
                    (s - Min(starts)) % interval = 0 => s \in Filled(fill_empty)
  <2>1. PICK lo, hi : lo = Min(starts) /\ hi = Max(starts)
    OBVIOUS
  <2>2. lo \in Int /\ hi \in Int /\ lo =< hi /\ lo + interval \in (-Exact)..Exact /\ hi + interval \in (-Exact)..Exact
    BY <1>3, <1>16, <1>17, <2>1
  <2>3. \A s \in lo..hi : s + interval \in (-Exact)..Exact
    <3>1. Exact \in Nat
      BY ArithmeticAssumption
    <3> QED BY <2>2, <3>1
  <2>4. PICK filled : filled = Range(Fill(lo, hi, interval))
    OBVIOUS
  <2>5. Filled(fill_empty) = filled
    BY <1>17, <2>1, <2>4
  <2> HIDE DEF Filled
  <2>6. /\ \E s \in filled : s > hi
        /\ \A s \in filled : s \in Int /\ lo =< s /\ (s - lo) % interval = 0
        /\ \A s \in lo..hi : (s - lo) % interval = 0 => s \in filled
    <3>1. lo \in Int /\ hi \in Int /\ lo =< hi
      BY <2>2
    <3>2. Fills(filled, lo, hi, interval)
      BY <2>3, <2>4, <3>1, FillIs
    <3> QED BY <3>2, Zenon DEF Fills
  <2> QED BY <2>1, <2>5, <2>6
<1>18. ~fill_empty \/ ts = <<>> => Filled(fill_empty) = {}
  OBVIOUS
<1> HIDE DEF Filled
<1>19. result.ends
  BY <1>1, <1>17, <1>18
<1>4. ASSUME NEW s \in Begins(fill_empty)
      PROVE  /\ ts # <<>> /\ s \in Int /\ OnGrid(s, interval, origin)
             /\ Min(starts) =< s /\ s =< Max(starts) /\ Rounded(s + interval) = s + interval
  <2>1. ts # <<>>
    BY <1>16, <1>18
  <2>2. s \in Int /\ OnGrid(s, interval, origin) /\ Min(starts) =< s /\ s =< Max(starts)
    <3>1. CASE s \in starts
      BY <1>3, <2>1, <3>1 DEF OnGrid
    <3>2. CASE s \in Filled(fill_empty)
      <4>1. fill_empty
        BY <1>18, <3>2
      <4>2. /\ s \in Int /\ Min(starts) =< s /\ (s - Min(starts)) % interval = 0
        BY <1>17, <2>1, <3>2, <4>1
      <4>3. s =< Max(starts)
        BY <1>3, <2>1
      <4> QED BY <1>3, <2>1, <4>2, <4>3, GridBetween
    <3> QED BY <3>1, <3>2
  <2>3. Rounded(s + interval) = s + interval
    <3>1. /\ Min(starts) + interval \in (-Exact)..Exact /\ Max(starts) + interval \in (-Exact)..Exact
          /\ Min(starts) \in Int /\ Max(starts) \in Int
      BY <1>3, <1>16, <2>1
    <3>2. s + interval \in (-Exact)..Exact
      <4>1. Exact \in Nat
        BY ArithmeticAssumption
      <4> QED BY <2>2, <3>1, <4>1
    <3> QED BY <3>2, ArithmeticAssumption
  <2> QED BY <2>1, <2>2, <2>3
<1>5. \A s \in Begins(fill_empty) :
             /\ Window(s).start = s /\ Window(s).end = s + interval
             /\ Window(s).count = Cardinality({i \in DOMAIN ts : Of(ts[i]) = s})
  <2> TAKE s \in Begins(fill_empty)
  <2>1. Window(s).end = Rounded(s + interval)
    OBVIOUS
  <2> HIDE DEF Begins
  <2> QED BY <1>4, <2>1
<1>6. \A s \in starts : s \in Begins(fill_empty)
  OBVIOUS
<1>7. fill_empty => \A s \in Min(starts)..Max(starts) :
         (ts # <<>> /\ (s - Min(starts)) % interval = 0) => s \in Begins(fill_empty)
  <2> SUFFICES ASSUME fill_empty, ts # <<>>, NEW s \in Min(starts)..Max(starts),
                      (s - Min(starts)) % interval = 0
               PROVE  s \in Begins(fill_empty)
    OBVIOUS
  <2>1. s \in Filled(fill_empty)
    BY <1>17
  <2>2. Min(starts) \in Int /\ Max(starts) \in Int
    BY <1>3, <1>16
  <2>3. s =< Max(starts)
    BY <2>2
  <2> QED BY <2>1, <2>3, Zenon
<1> HIDE DEF Begins
<1>8. \A win \in ws : \E s \in Begins(fill_empty) :
         /\ win.start = s /\ win.end = s + interval
         /\ win.count = Cardinality({i \in DOMAIN ts : Of(ts[i]) = s})
  <2> TAKE win \in ws
  <2>1. PICK s \in Begins(fill_empty) : win = Window(s)
    BY <1>1
  <2> HIDE DEF Window
  <2> QED BY <1>5, <2>1
<1>9. \A s \in Begins(fill_empty) : Window(s) \in ws /\ Window(s).start = s
  <2> TAKE s \in Begins(fill_empty)
  <2>1. Window(s) \in ws
    BY <1>1
  <2> QED BY <1>5, <2>1
<1> HIDE DEF Window
<1>10. \A i \in DOMAIN ts : \E win \in ws : win.start =< ts[i] /\ ts[i] < win.end
  <2> TAKE i \in DOMAIN ts
  <2>1. PICK t \in Int : t = ts[i]
    BY <1>2
  <2>2. PICK s : s = Of(t)
    OBVIOUS
  <2>3. s =< t /\ t < s + interval
    BY <1>2, <1>14, <2>1, <2>2, WindowIs
  <2>4. s \in Begins(fill_empty)
    BY <1>2, <1>6, <2>1, <2>2
  <2> QED BY <1>5, <1>9, <2>1, <2>3, <2>4
<1>11. \A win \in ws : win.count = Cardinality({i \in DOMAIN ts : win.start =< ts[i] /\ ts[i] < win.end})
  <2> SUFFICES ASSUME NEW win \in ws, NEW s \in Begins(fill_empty), win.start = s, win.end = s + interval,
                      win.count = Cardinality({i \in DOMAIN ts : Of(ts[i]) = s})
               PROVE  win.count = Cardinality({i \in DOMAIN ts : win.start =< ts[i] /\ ts[i] < win.end})
    BY <1>8
  <2>1. OnGrid(s, interval, origin)
    BY <1>4
  <2>2. \A i \in DOMAIN ts : Of(ts[i]) = s <=> s =< ts[i] /\ ts[i] < s + interval
    BY <1>2, <1>14, <2>1, WindowHolds
  <2>3. {i \in DOMAIN ts : Of(ts[i]) = s} = {i \in DOMAIN ts : s =< ts[i] /\ ts[i] < s + interval}
    BY <2>2
  <2> QED BY <2>3
<1>12. \A v, win \in ws : v = win \/ v.end =< win.start \/ win.end =< v.start
  <2> TAKE v, win \in ws
  <2>1. PICK a \in Begins(fill_empty) : v = Window(a) /\ v.start = a /\ v.end = a + interval
    <3>1. PICK s \in Begins(fill_empty) : v = Window(s)
      BY <1>1
    <3> QED BY <1>5, <3>1
  <2>2. PICK b \in Begins(fill_empty) : win = Window(b) /\ win.start = b /\ win.end = b + interval
    <3>1. PICK s \in Begins(fill_empty) : win = Window(s)
      BY <1>1
    <3> QED BY <1>5, <3>1
  <2>3. a \in Int /\ b \in Int /\ OnGrid(a, interval, origin) /\ OnGrid(b, interval, origin)
    BY <1>4
  <2>4. a < b => a + interval =< b
    BY <2>3, GridApart
  <2>5. b < a => b + interval =< a
    BY <2>3, GridApart
  <2>6. a = b => v = win
    BY <2>1, <2>2
  <2> QED BY <2>1, <2>2, <2>3, <2>4, <2>5, <2>6
<1>13. ASSUME fill_empty
       PROVE  \A v, win \in ws : v.end < win.end => \E u \in ws : u.start = v.end
  <2> SUFFICES ASSUME NEW a \in Begins(fill_empty), NEW b \in Begins(fill_empty),
                      a + interval < b + interval
               PROVE  a + interval \in Begins(fill_empty)
    <3> TAKE v, win \in ws
    <3> HAVE v.end < win.end
    <3>1. PICK a \in Begins(fill_empty) : v.end = a + interval
      BY <1>8
    <3>2. PICK b \in Begins(fill_empty) : win.end = b + interval
      BY <1>8
    <3>3. v.end \in Begins(fill_empty)
      BY <3>1, <3>2
    <3> QED BY <1>9, <3>3
  <2>1. /\ a \in Int /\ b \in Int /\ OnGrid(a, interval, origin) /\ OnGrid(b, interval, origin)
        /\ Min(starts) =< a /\ b =< Max(starts) /\ ts # <<>>
    BY <1>4
  <2>2. PICK lo, hi : lo = Min(starts) /\ hi = Max(starts)
    OBVIOUS
  <2>3. lo \in Int /\ hi \in Int /\ OnGrid(lo, interval, origin)
    BY <1>3, <2>1, <2>2 DEF OnGrid
  <2>4. PICK s \in Int : s = a + interval
    BY <2>1
  <2>5. s =< b
    <3>1. a < b
      BY <2>1
    <3> QED BY <2>1, <2>4, <3>1, GridApart
  <2>6. s \in lo..hi
    BY <2>1, <2>2, <2>3, <2>4, <2>5
  <2>7. OnGrid(s, interval, origin)
    <3>1. s - a = interval /\ 1 * interval = interval
      BY <2>1, <2>4
    <3>2. (s - a) % interval = 0
      BY <3>1, MultipleMod
    <3> QED BY <2>1, <3>2, GridBetween
  <2>8. (s - lo) % interval = 0
    BY <2>3, <2>7, GridBetween
  <2> QED BY <1>7, <1>13, <2>1, <2>2, <2>4, <2>6, <2>8
<1> QED BY <1>10, <1>11, <1>12, <1>13, <1>19

-----------------------------------------------------------------------------
(* The partitions of time, for every calendar                              *)

LEMMA CalendarFacts ==
    ASSUME Calendar
    PROVE  /\ HourTicks \in Nat \ {0} /\ HoursPerDay \in Nat \ {0} /\ DayTicks \in Nat \ {0}
           /\ DayTicks = HourTicks * HoursPerDay /\ HourTicks =< DayTicks
           /\ Len(MonthStart) \in Nat /\ Len(MonthStart) > 1 /\ EndOfTime \in Nat
           /\ \A m \in 1..Len(MonthStart) :
                 /\ MonthStart[m] \in Nat /\ MonthStart[m] % DayTicks = 0
                 /\ MonthStart[m] % HourTicks = 0
                 /\ \A n \in 1..Len(MonthStart) : m < n => MonthStart[m] < MonthStart[n]
<1>1. PICK n \in Nat : n = Len(MonthStart) /\ DOMAIN MonthStart = 1..n /\ n > 1
  BY LenProperties DEF Calendar
<1>2. \A m \in 1..n : MonthStart[m] \in Nat
  BY <1>1, LenProperties DEF Calendar
<1>3. PICK h \in Nat \ {0}, p \in Nat \ {0} : h = HourTicks /\ p = HoursPerDay
  BY DEF Calendar
<1>4. DayTicks = h * p /\ h * p \in Nat \ {0} /\ h =< h * p
  <2>1. h * p \in Nat \ {0} /\ h =< h * p
    OBVIOUS
  <2> QED BY <1>3, <2>1 DEF DayTicks
<1>5. \A m \in 1..n : MonthStart[m] % DayTicks = 0
  BY <1>1 DEF Calendar
<1>6. ASSUME NEW m \in 1..n PROVE MonthStart[m] % HourTicks = 0
  <2>1. PICK f \in Int : f = MonthStart[m]
    BY <1>2
  <2>2. f % (h * p) = 0
    BY <1>4, <1>5, <2>1
  <2> QED BY <1>3, <2>1, <2>2, Coarser
<1>7. EndOfTime \in Nat
  BY <1>1, <1>2 DEF EndOfTime
<1>8. \A m, k \in 1..n : m < k => MonthStart[m] < MonthStart[k]
  BY <1>1 DEF Calendar
<1> QED BY <1>1, <1>2, <1>3, <1>4, <1>5, <1>6, <1>7, <1>8

\* The floor in days, and the floor in hours of what is left of the day.
LEMMA FloorTwice ==
    ASSUME Calendar, NEW a \in Int
    PROVE  /\ Floor(a, DayTicks) =< Floor(a, HourTicks)
           /\ Floor(Floor(a, HourTicks), DayTicks) = Floor(a, DayTicks)
           /\ Floor(a % DayTicks, HourTicks) = Floor(a, HourTicks) - Floor(a, DayTicks)
<1>1. PICK n \in Nat \ {0}, k \in Nat \ {0}, d \in Nat \ {0} :
          n = HourTicks /\ d = DayTicks /\ d = n * k /\ n =< d
  BY CalendarFacts
<1>2. PICK f \in Int, g \in Int : f = Floor(a, d) /\ g = Floor(a, n)
  BY FloorIs
<1>3. f % d = 0 /\ f =< a /\ a < f + d /\ a % d = a - f
  BY <1>2, FloorIs
<1>4. g % n = 0 /\ g =< a /\ a < g + n
  BY <1>2, FloorIs
<1>5. f % n = 0
  BY <1>1, <1>2, <1>3, Coarser
<1>6. f =< g
  BY <1>2, <1>3, <1>5, FloorBound
<1>7. Floor(g, d) = f
  <2>1. g < f + d
    BY <1>3, <1>4
  <2> QED BY <1>3, <1>6, <2>1, FloorOf
<1>8. Floor(a - f, n) = g - f
  <2>1. (g - f) % n = 0
    BY <1>4, <1>5, MultiplesSum
  <2>2. g - f =< a - f /\ a - f < (g - f) + n /\ a - f \in Int /\ g - f \in Int
    BY <1>4
  <2> QED BY <2>1, <2>2, FloorOf
<1> QED BY <1>1, <1>2, <1>3, <1>6, <1>7, <1>8

LEMMA MonthIs ==
    ASSUME Calendar, NEW t \in Moments
    PROVE  /\ Month(t) \in 1..(Len(MonthStart) - 1)
           /\ MonthStart[Month(t)] =< t /\ t < MonthStart[Month(t) + 1]
<1>1. PICK n \in Nat : n = Len(MonthStart) /\ n > 1
  BY CalendarFacts
<1>2. \A m \in 1..n : MonthStart[m] \in Nat
  BY <1>1, CalendarFacts
<1>3. t \in Nat /\ t < MonthStart[n] /\ MonthStart[1] = 0
  BY <1>1, CalendarFacts DEF Moments, EndOfTime, Calendar
<1> DEFINE Later == {m \in 1..n : t < MonthStart[m]}
<1>4. PICK k \in Later : \A m \in Later : k =< m
  <2>1. Later \in SUBSET Nat /\ n \in Later
    BY <1>1, <1>3
  <2> QED BY <2>1, LeastNatural
<1>5. k # 1
  BY <1>3
<1>6. PICK m \in 1..(n - 1) : k = m + 1
  <2>1. k - 1 \in 1..(n - 1) /\ k = (k - 1) + 1
    BY <1>5
  <2> QED BY <2>1
<1>7. m \notin Later
  BY <1>4, <1>6
<1>8. MonthStart[m] =< t /\ t < MonthStart[m + 1]
  BY <1>2, <1>3, <1>6, <1>7
<1>9. Month(t) = CHOOSE x \in 1..(n - 1) : MonthStart[x] =< t /\ t < MonthStart[x + 1]
  BY <1>1 DEF Month
<1> QED BY <1>1, <1>8, <1>9

LEMMA MonthOf ==
    ASSUME Calendar, NEW t \in Moments, NEW m \in 1..(Len(MonthStart) - 1),
           MonthStart[m] =< t, t < MonthStart[m + 1]
    PROVE  Month(t) = m
<1>1. PICK n \in Nat : n = Len(MonthStart) /\ n > 1
  BY CalendarFacts
<1>2. PICK k \in 1..(n - 1) : k = Month(t)
  BY <1>1, MonthIs
<1>3. MonthStart[k] =< t /\ t < MonthStart[k + 1] /\ t \in Nat
  BY <1>2, MonthIs, CalendarFacts DEF Moments
<1>4. \A i \in 1..n : MonthStart[i] \in Nat /\ \A j \in 1..n : i < j => MonthStart[i] < MonthStart[j]
  BY <1>1, CalendarFacts
<1>5. ~(k < m)
  <2> SUFFICES ASSUME k < m PROVE FALSE
    OBVIOUS
  <2>1. k + 1 \in 1..n /\ m \in 1..n /\ (k + 1 = m \/ k + 1 < m)
    BY <1>1
  <2>2. MonthStart[k + 1] \in Nat /\ MonthStart[m] \in Nat /\ MonthStart[k + 1] =< MonthStart[m]
    BY <1>4, <2>1
  <2> QED BY <1>3, <2>2
<1>6. ~(m < k)
  <2> SUFFICES ASSUME m < k PROVE FALSE
    OBVIOUS
  <2>1. m + 1 \in 1..n /\ k \in 1..n /\ (m + 1 = k \/ m + 1 < k)
    BY <1>1
  <2>2. MonthStart[m + 1] \in Nat /\ MonthStart[k] \in Nat /\ MonthStart[m + 1] =< MonthStart[k]
    BY <1>4, <2>1
  <2> QED BY <1>3, <2>2
<1> QED BY <1>1, <1>2, <1>5, <1>6

\* The start of a month is the start of a day.
LEMMA MonthOfDay ==
    ASSUME Calendar, NEW s \in Moments, NEW t \in Moments, Floor(s, DayTicks) = Floor(t, DayTicks)
    PROVE  Month(s) = Month(t)
<1>1. PICK n \in Nat : n = Len(MonthStart) /\ n > 1
  BY CalendarFacts
<1>2. PICK m \in 1..(n - 1) : m = Month(t)
  BY <1>1, MonthIs
<1>3. MonthStart[m] =< t /\ t < MonthStart[m + 1]
  BY <1>2, MonthIs
<1>4. PICK f, g, d : f = MonthStart[m] /\ g = MonthStart[m + 1] /\ d = DayTicks
  OBVIOUS
<1>5. d \in Nat \ {0} /\ f \in Int /\ g \in Int /\ f % d = 0 /\ g % d = 0
  <2>1. m \in 1..n /\ m + 1 \in 1..n
    OBVIOUS
  <2> QED BY <1>1, <1>4, <2>1, CalendarFacts
<1>6. s \in Int /\ t \in Int
  BY CalendarFacts DEF Moments
<1>7. f =< Floor(t, d) /\ Floor(t, d) + d =< g
  BY <1>3, <1>4, <1>5, <1>6, FloorBound
<1>8. Floor(s, d) \in Int /\ Floor(s, d) =< s /\ s < Floor(s, d) + d
  BY <1>5, <1>6, FloorIs
<1>9. f =< s /\ s < g
  BY <1>4, <1>5, <1>6, <1>7, <1>8
<1> QED BY <1>1, <1>2, <1>4, <1>9, MonthOf

\* What the fields of a datetime put together.
LEMMA DateTimeIs ==
    ASSUME Calendar, NEW t \in Moments
    PROVE  /\ DateTime(Month(t), Day(t), 0) = Floor(t, DayTicks)
           /\ DateTime(Month(t), Day(t), Hour(t)) = Floor(t, HourTicks)
           /\ Floor(t - MonthStart[Month(t)], DayTicks) = Floor(t, DayTicks) - MonthStart[Month(t)]
           /\ Hour(t) \in Int /\ Hour(t) * HourTicks = Floor(t, HourTicks) - Floor(t, DayTicks)
<1>1. PICK n \in Nat : n = Len(MonthStart) /\ n > 1
  BY CalendarFacts
<1>2. PICK m \in 1..(n - 1) : m = Month(t)
  BY <1>1, MonthIs
<1>3. PICK f, d, h, p : f = MonthStart[m] /\ d = DayTicks /\ h = HourTicks /\ p = HoursPerDay
  OBVIOUS
<1>4. d \in Nat \ {0} /\ h \in Nat \ {0} /\ p \in Nat \ {0} /\ d = h * p /\ f \in Int /\ f % d = 0
  <2>1. m \in 1..n
    OBVIOUS
  <2> QED BY <1>1, <1>3, <2>1, CalendarFacts
<1>5. t \in Int
  BY CalendarFacts DEF Moments
<1>6. PICK x \in Int, y \in Int : x = Floor(t, d) /\ y = Floor(t, h)
  BY <1>4, <1>5, FloorIs
<1>7. Floor(t - f, d) = x - f
  <2>1. x % d = 0 /\ x =< t /\ t < x + d
    BY <1>4, <1>5, <1>6, FloorIs
  <2>2. (x - f) % d = 0
    BY <1>4, <2>1, MultiplesSum
  <2>3. d \in Int /\ f \in Int
    BY <1>4
  <2>4. x - f \in Int /\ t - f \in Int /\ x - f =< t - f /\ t - f < (x - f) + d
    BY <1>5, <2>1, <2>3
  <2> QED BY <1>4, <2>2, <2>4, FloorOf
<1>8. PICK q \in Int : q = (t - f) \div d
  BY <1>4, <1>5, Division
<1>9. q * d = x - f /\ q * d \in Int
  BY <1>4, <1>7, <1>8 DEF Floor
<1>10. Day(t) = q + 1
  BY <1>2, <1>3, <1>8 DEF Day
<1>12. Floor(t % d, h) = y - x /\ t % d \in Int
  <2>1. t % d \in Int
    BY <1>4, <1>5, FloorIs, Division
  <2> QED BY <1>3, <1>5, <1>6, <2>1, FloorTwice
<1>13. PICK u \in Int : u = (t % d) \div h
  BY <1>4, <1>12, Division
<1>14. u * h = y - x /\ u * h \in Int
  BY <1>4, <1>12, <1>13 DEF Floor
<1>15. Hour(t) = u
  BY <1>3, <1>13 DEF Hour
<1>16. \A c \in Int : DateTime(m, q + 1, c) = f + q * d + c * h
  BY <1>3 DEF DateTime
<1>17. DateTime(m, q + 1, 0) = x
  <2>1. 0 \in Int /\ 0 * h = 0
    BY <1>4
  <2>2. DateTime(m, q + 1, 0) = f + q * d + 0 * h
    BY <1>16
  <2> QED BY <1>4, <1>6, <1>9, <2>1, <2>2
<1>18. DateTime(m, q + 1, u) = y
  <2>1. DateTime(m, q + 1, u) = f + q * d + u * h
    BY <1>16
  <2> QED BY <1>4, <1>6, <1>9, <1>14, <2>1
<1> QED BY <1>2, <1>3, <1>6, <1>7, <1>10, <1>14, <1>15, <1>17, <1>18

\* What lies between two moments is one, and so are the floors of one.
LEMMA MomentsBelow ==
    ASSUME Calendar, NEW t \in Moments
    PROVE  /\ t \in Int /\ \A x \in Int : 0 =< x /\ x =< t => x \in Moments
           /\ Floor(t, HourTicks) \in Moments /\ Floor(t, DayTicks) \in Moments
<1>1. t \in Int /\ \A x \in Int : 0 =< x /\ x =< t => x \in Moments
  BY CalendarFacts DEF Moments
<1>2. ASSUME NEW n \in Nat \ {0} PROVE Floor(t, n) \in Moments
  <2>1. PICK f \in Int : f = Floor(t, n)
    BY <1>1, FloorIs
  <2>2. 0 \in Int /\ 0 % n = 0 /\ 0 =< t
    BY CalendarFacts DEF Moments
  <2>3. 0 =< f /\ f =< t
    BY <1>1, <2>1, <2>2, FloorBound, FloorIs
  <2> QED BY <1>1, <2>1, <2>3
<1> QED BY <1>1, <1>2, CalendarFacts

LEMMA MomentsBetween ==
    ASSUME Calendar, NEW start \in Moments, NEW end \in Moments, NEW t \in start..end
    PROVE  t \in Int /\ start =< t /\ t =< end /\ t \in Moments
<1>1. start \in Int /\ end \in Int /\ 0 =< start
  BY MomentsBelow DEF Moments
<1>2. t \in Int /\ start =< t /\ t =< end /\ 0 =< t
  BY <1>1
<1> QED BY <1>2, MomentsBelow

\* Moments of one day have one path, and others another.
LEMMA DayPath ==
    ASSUME Calendar, NEW s \in Moments, NEW t \in Moments
    PROVE  PartitionPath("day", s) = PartitionPath("day", t) <=>
               Floor(s, DayTicks) = Floor(t, DayTicks)
<1>1. PartitionPath("day", s) = <<Month(s), Day(s)>> /\ PartitionPath("day", t) = <<Month(t), Day(t)>>
  BY DEF PartitionPath
<1>2. ASSUME Month(s) = Month(t), Day(s) = Day(t) PROVE Floor(s, DayTicks) = Floor(t, DayTicks)
  BY <1>2, DateTimeIs
<1>3. ASSUME Floor(s, DayTicks) = Floor(t, DayTicks) PROVE Month(s) = Month(t) /\ Day(s) = Day(t)
  <2>1. Month(s) = Month(t)
    BY <1>3, MonthOfDay
  <2>2. PICK f, d : f = MonthStart[Month(t)] /\ d = DayTicks
    OBVIOUS
  <2>3. f \in Int /\ d \in Nat \ {0} /\ s \in Int /\ t \in Int
    <3>1. Month(t) \in 1..Len(MonthStart)
      BY MonthIs, CalendarFacts
    <3> QED BY <2>2, <3>1, CalendarFacts, MomentsBelow
  <2>4. Floor(s - f, d) = Floor(t - f, d) /\ s - f \in Int /\ t - f \in Int
    BY <1>3, <2>1, <2>2, <2>3, DateTimeIs
  <2>5. (s - f) \div d = (t - f) \div d
    BY <2>3, <2>4, FloorDiv
  <2> QED BY <2>1, <2>2, <2>5 DEF Day
<1> QED BY <1>1, <1>2, <1>3

\* And so have moments of one hour.
LEMMA HourPath ==
    ASSUME Calendar, NEW s \in Moments, NEW t \in Moments
    PROVE  PartitionPath("hour", s) = PartitionPath("hour", t) <=>
               Floor(s, HourTicks) = Floor(t, HourTicks)
<1>1. /\ PartitionPath("hour", s) = <<Month(s), Day(s), Hour(s)>>
      /\ PartitionPath("hour", t) = <<Month(t), Day(t), Hour(t)>>
      /\ PartitionPath("day", s) = <<Month(s), Day(s)>>
      /\ PartitionPath("day", t) = <<Month(t), Day(t)>>
  BY DEF PartitionPath
<1>2. ASSUME Month(s) = Month(t), Day(s) = Day(t), Hour(s) = Hour(t)
      PROVE  Floor(s, HourTicks) = Floor(t, HourTicks)
  BY <1>2, DateTimeIs
<1>3. ASSUME Floor(s, HourTicks) = Floor(t, HourTicks)
      PROVE  Month(s) = Month(t) /\ Day(s) = Day(t) /\ Hour(s) = Hour(t)
  <2>1. PICK d \in Nat \ {0}, h \in Nat \ {0} : d = DayTicks /\ h = HourTicks
    BY CalendarFacts
  <2>2. s \in Int /\ t \in Int
    BY MomentsBelow
  <2>3. Floor(s, d) = Floor(t, d) /\ Floor(s % d, h) = Floor(t % d, h)
    BY <1>3, <2>1, <2>2, FloorTwice
  <2>4. PartitionPath("day", s) = PartitionPath("day", t)
    BY <2>1, <2>3, DayPath
  <2>5. s % d \in Int /\ t % d \in Int
    BY <2>1, <2>2, Division
  <2>6. (s % d) \div h = (t % d) \div h
    BY <2>1, <2>3, <2>5, FloorDiv
  <2> QED BY <1>1, <2>1, <2>4, <2>6 DEF Hour
<1> QED BY <1>1, <1>2, <1>3

\* The moments of a month are those from where it starts to where the next does.
LEMMA MonthPath ==
    ASSUME Calendar, NEW s \in Moments, NEW t \in Moments
    PROVE  /\ PartitionPath("month", t) = <<Month(t)>>
           /\ PartitionPath("month", s) = PartitionPath("month", t) <=>
                  MonthStart[Month(t)] =< s /\ s < MonthStart[Month(t) + 1]
<1>1. PartitionPath("month", s) = <<Month(s)>> /\ PartitionPath("month", t) = <<Month(t)>>
  BY DEF PartitionPath
<1>2. Month(s) = Month(t) => MonthStart[Month(t)] =< s /\ s < MonthStart[Month(t) + 1]
  BY MonthIs
<1>3. MonthStart[Month(t)] =< s /\ s < MonthStart[Month(t) + 1] => Month(s) = Month(t)
  <2>1. Month(t) \in 1..(Len(MonthStart) - 1)
    BY MonthIs
  <2> QED BY <2>1, MonthOf
<1> QED BY <1>1, <1>2, <1>3

\* The boundaries of an hour and of a day.
LEMMA BoundariesAre ==
    ASSUME Calendar, NEW t \in Moments
    PROVE  /\ PartitionBoundaries("hour", t) =
                  <<Floor(t, HourTicks), Floor(t, HourTicks) + HourTicks - Second>>
           /\ PartitionBoundaries("day", t) =
                  <<Floor(t, DayTicks), Floor(t, DayTicks) + DayTicks - Second>>
           /\ PartitionBoundaries("month", t) =
                  <<MonthStart[Month(t)], MonthStart[Month(t) + 1] - 1>>
BY DateTimeIs DEF PartitionBoundaries

\* The last second of an hour or a day begins inside it.
LEMMA LastSecond ==
    ASSUME Calendar, NEW t \in Moments, NEW n, n \in {HourTicks, DayTicks}
    PROVE  LET f == Floor(t, n) IN
           /\ f =< t /\ t < f + n - Second + Second
           /\ f \in Moments /\ f + n - Second \in Moments
           /\ Floor(f, n) = f /\ Floor(f + n - Second, n) = f
<1>1. PICK s, h, d : s = Second /\ h = HourTicks /\ d = DayTicks
  OBVIOUS
<1>2. s \in Nat \ {0} /\ h \in Nat \ {0} /\ d \in Nat \ {0} /\ s =< h /\ h =< d /\ n \in {h, d}
  BY <1>1, CalendarFacts DEF Calendar
<1>3. n \in Nat \ {0} /\ s =< n /\ t \in Int
  BY <1>2, MomentsBelow
<1>4. PICK f \in Int : f = Floor(t, n)
  BY <1>3, FloorIs
<1>5. f % n = 0 /\ f =< t /\ t < f + n
  BY <1>3, <1>4, FloorIs
<1>6. f \in Moments
  BY <1>4, MomentsBelow
<1>7. PICK e \in Int : e = EndOfTime
  <2>1. EndOfTime \in Int
    BY CalendarFacts
  <2> QED BY <2>1
<1>8. f + n =< e
  <2>1. e % n = 0
    <3>1. Len(MonthStart) \in 1..Len(MonthStart)
      BY CalendarFacts
    <3> QED BY <1>1, <1>2, <1>7, <3>1, CalendarFacts DEF EndOfTime
  <2>2. t < e
    BY <1>3, <1>7 DEF Moments
  <2> QED BY <1>3, <1>4, <1>7, <2>1, <2>2, FloorBound
<1>9. PICK l \in Int : l = f + n - s
  BY <1>2, <1>3
<1>10. f =< l /\ l < f + n /\ l < e /\ 0 =< f
  BY <1>2, <1>3, <1>6, <1>8, <1>9 DEF Moments
<1>11. l \in Moments
  BY <1>7, <1>10 DEF Moments
<1>12. Floor(f, n) = f /\ Floor(l, n) = f
  BY <1>3, <1>5, <1>10, FloorOf
<1>13. t < f + n - s + s
  BY <1>2, <1>3, <1>5
<1> QED BY <1>1, <1>4, <1>5, <1>6, <1>9, <1>11, <1>12, <1>13

LEMMA BoundariesAgree ==
    ASSUME Calendar, NEW t \in Moments
    PROVE  BoundariesOf(t)
<1> SUFFICES ASSUME NEW interval \in Interval, NEW b, b = PartitionBoundaries(interval, t)
             PROVE  /\ b[1] =< t
                    /\ t =< b[2] \/ (interval # "month" /\ t < b[2] + Second)
                    /\ \A end \in {b[1], b[2]} :
                           PartitionPath(interval, end) = PartitionPath(interval, t)
                    /\ InfoBoundaries(interval, PartitionPath(interval, t)) = b
  BY Zenon DEF BoundariesOf
<1>1. CASE interval = "hour"
  <2>1. PICK f, l : f = Floor(t, HourTicks) /\ l = f + HourTicks - Second
    OBVIOUS
  <2>2. b = <<f, l>>
    BY <1>1, <2>1, BoundariesAre
  <2>3. /\ f =< t /\ t < l + Second /\ f \in Moments /\ l \in Moments
        /\ Floor(f, HourTicks) = f /\ Floor(l, HourTicks) = f
    BY <2>1, LastSecond
  <2>4. \A end \in {f, l} : PartitionPath("hour", end) = PartitionPath("hour", t)
    BY <2>1, <2>3, HourPath
  <2>5. InfoBoundaries("hour", PartitionPath("hour", t)) = b
    BY <1>1 DEF InfoBoundaries, PartitionPath, PartitionBoundaries
  <2> QED BY <1>1, <2>2, <2>3, <2>4, <2>5
<1>2. CASE interval = "day"
  <2>1. PICK f, l : f = Floor(t, DayTicks) /\ l = f + DayTicks - Second
    OBVIOUS
  <2>2. b = <<f, l>>
    BY <1>2, <2>1, BoundariesAre
  <2>3. /\ f =< t /\ t < l + Second /\ f \in Moments /\ l \in Moments
        /\ Floor(f, DayTicks) = f /\ Floor(l, DayTicks) = f
    BY <2>1, LastSecond
  <2>4. \A end \in {f, l} : PartitionPath("day", end) = PartitionPath("day", t)
    BY <2>1, <2>3, DayPath
  <2>5. InfoBoundaries("day", PartitionPath("day", t)) = b
    BY <1>2 DEF InfoBoundaries, PartitionPath, PartitionBoundaries
  <2> QED BY <1>2, <2>2, <2>3, <2>4, <2>5
<1>3. CASE interval = "month"
  <2>1. PICK n \in Nat : n = Len(MonthStart) /\ n > 1
    BY CalendarFacts
  <2>2. PICK m \in 1..(n - 1) : m = Month(t)
    BY <2>1, MonthIs
  <2>3. PICK f, g : f = MonthStart[m] /\ g = MonthStart[m + 1]
    OBVIOUS
  <2>4. m \in 1..n /\ m + 1 \in 1..n /\ n \in 1..n /\ (m + 1 = n \/ m + 1 < n)
    BY <2>1
  <2>5. PICK e \in Nat : e = EndOfTime
    BY CalendarFacts
  <2>6. f \in Nat /\ g \in Nat /\ f < g /\ g =< e
    BY <2>1, <2>3, <2>4, <2>5, CalendarFacts DEF EndOfTime
  <2>7. f =< t /\ t < g /\ t \in Int
    BY <2>2, <2>3, MonthIs, MomentsBelow
  <2>8. f \in Moments /\ g - 1 \in Moments /\ f < g /\ f =< g - 1 /\ g - 1 < g
    BY <2>5, <2>6 DEF Moments
  <2>9. b = <<f, g - 1>>
    BY <1>3, <2>2, <2>3, BoundariesAre
  <2>10. \A end \in {f, g - 1} : PartitionPath("month", end) = PartitionPath("month", t)
    <3>1. \A end \in {f, g - 1} : end \in Moments /\ f =< end /\ end < g
      BY <2>6, <2>8
    <3> QED BY <2>2, <2>3, <3>1, MonthPath
  <2>11. PICK d \in Nat, h \in Nat : d = DayTicks /\ h = HourTicks
    BY CalendarFacts
  <2>12. \A k : DateTime(k, 1, 0) = MonthStart[k] + 0 * d + 0 * h
    BY <2>11 DEF DateTime
  <2>13. DateTime(m, 1, 0) = f /\ DateTime(m + 1, 1, 0) = g
    BY <2>3, <2>6, <2>11, <2>12
  <2>14. InfoBoundaries("month", <<m>>) = <<f, g - 1>>
    BY <2>13 DEF InfoBoundaries
  <2>15. PartitionPath("month", t) = <<m>>
    BY <2>2, MonthPath
  <2> QED BY <1>3, <2>6, <2>7, <2>9, <2>10, <2>14, <2>15
<1> QED BY <1>1, <1>2, <1>3 DEF Interval

LEMMA CutoffIs ==
    ASSUME NEW now, NEW r
    PROVE  /\ Cutoff("hour", now, r) = now - r * DayTicks - HourTicks
           /\ Cutoff("day", now, r) = now - r * DayTicks - DayTicks
           /\ Cutoff("month", now, r) = now - r * DayTicks - ApproxMonth * DayTicks
BY DEF Cutoff

LEMMA CleanupKeeps ==
    ASSUME Calendar, NEW now \in Moments, NEW retention_days \in Nat
    PROVE  CleanupOf(now, retention_days)
<1> SUFFICES ASSUME NEW interval \in Interval, NEW t \in 0..now,
                    interval = "month" => MonthDays(Month(t)) =< ApproxMonth,
                    PartitionStart(interval, t) < Cutoff(interval, now, retention_days)
             PROVE  now - t > retention_days * DayTicks
  BY Zenon DEF CleanupOf
<1>1. t \in Int /\ now \in Int /\ t \in Moments
  <2>1. now \in Int
    BY MomentsBelow
  <2>2. t \in Int /\ 0 =< t /\ t =< now
    BY <2>1
  <2> QED BY <2>1, <2>2, MomentsBelow
<1>2. PICK d \in Nat \ {0}, h \in Nat \ {0}, a \in Nat :
          d = DayTicks /\ h = HourTicks /\ a = ApproxMonth
  BY CalendarFacts DEF Calendar
<1>3. PICK rd \in Int, ad \in Int :
          rd = retention_days * d /\ ad = a * d
  OBVIOUS
<1>4. retention_days * DayTicks = rd
  BY <1>2, <1>3
<1>5. CASE interval = "hour"
  <2>1. PICK f \in Int : f = Floor(t, h)
    BY <1>1, FloorIs
  <2>2. t < f + h
    BY <1>1, <2>1, FloorIs
  <2>3. PartitionStart(interval, t) = f
    BY <1>1, <1>2, <1>5, <2>1, BoundariesAre DEF PartitionStart
  <2>4. Cutoff(interval, now, retention_days) = now - rd - h
    BY <1>2, <1>3, <1>5, CutoffIs
  <2>5. f < now - rd - h
    BY <2>3, <2>4
  <2>6. now - t > rd
    BY <1>1, <2>2, <2>5
  <2> QED BY <1>4, <2>6
<1>6. CASE interval = "day"
  <2>1. PICK f \in Int : f = Floor(t, d)
    BY <1>1, FloorIs
  <2>2. t < f + d
    BY <1>1, <2>1, FloorIs
  <2>3. PartitionStart(interval, t) = f
    BY <1>1, <1>2, <1>6, <2>1, BoundariesAre DEF PartitionStart
  <2>4. Cutoff(interval, now, retention_days) = now - rd - d
    BY <1>2, <1>3, <1>6, CutoffIs
  <2>5. f < now - rd - d
    BY <2>3, <2>4
  <2>6. now - t > rd
    BY <1>1, <2>2, <2>5
  <2> QED BY <1>4, <2>6
<1>7. CASE interval = "month"
  <2>1. PICK n \in Nat : n = Len(MonthStart) /\ n > 1
    BY CalendarFacts
  <2>2. PICK m \in 1..(n - 1) : m = Month(t)
    BY <1>1, <2>1, MonthIs
  <2>3. m \in 1..n /\ m + 1 \in 1..n
    BY <2>1
  <2>4. PICK f \in Int, g \in Int : f = MonthStart[m] /\ g = MonthStart[m + 1]
    BY <2>1, <2>3, CalendarFacts
  <2>5. t < g
    BY <1>1, <2>2, <2>4, MonthIs
  <2>6. PICK l \in Int : l = MonthDays(m) /\ l * d \in Int /\ l * d = g - f
    <3>1. f % d = 0 /\ g % d = 0
      BY <1>2, <2>1, <2>3, <2>4, CalendarFacts
    <3>2. PICK c \in Int : c = g - f
      OBVIOUS
    <3>3. c % d = 0
      BY <3>1, <3>2, MultiplesSum
    <3>4. PICK q \in Int : q = c \div d
      BY Division
    <3>5. q * d \in Int /\ c = q * d + (c % d)
      BY <3>4, Division
    <3>6. q = MonthDays(m)
      BY <1>2, <2>4, <3>2, <3>4 DEF MonthDays
    <3> QED BY <3>2, <3>3, <3>5, <3>6
  <2>7. PartitionStart(interval, t) = f
    BY <1>1, <1>7, <2>2, <2>4, BoundariesAre DEF PartitionStart
  <2>8. Cutoff(interval, now, retention_days) = now - rd - ad
    BY <1>2, <1>3, <1>7, CutoffIs
  <2>9. f < now - rd - ad
    BY <2>7, <2>8
  <2>10. PICK ld \in Int : ld = l * d /\ g = f + ld
    BY <2>6
  <2>11. l =< a
    BY <1>2, <1>7, <2>2, <2>6
  <2>12. ld =< ad
    <3>1. CASE l = a
      BY <1>3, <2>10, <3>1
    <3>2. CASE l < a
      <4>1. l * d + d =< a * d
        BY <3>2, Product
      <4> QED BY <1>3, <2>10, <4>1
    <3> QED BY <2>11, <3>1, <3>2
  <2>13. now - t > rd
    BY <1>1, <2>5, <2>9, <2>10, <2>12
  <2> QED BY <1>4, <2>13
<1> QED BY <1>5, <1>6, <1>7 DEF Interval

\* The start of the hour of a moment.
LEMMA OnTheHourIs ==
    ASSUME Calendar, NEW t \in Moments
    PROVE  /\ OnTheHour(t) = Floor(t, HourTicks)
           /\ OnTheHour(t) \in Moments /\ OnTheHour(t) =< t
           /\ Floor(OnTheHour(t), HourTicks) = OnTheHour(t)
           /\ Floor(OnTheHour(t), DayTicks) = Floor(t, DayTicks)
           /\ OnTheHour(t) % DayTicks = Hour(t) * HourTicks
           /\ Hour(OnTheHour(t)) = Hour(t)
<1>1. PICK h \in Nat \ {0}, d \in Nat \ {0} : h = HourTicks /\ d = DayTicks
  BY CalendarFacts
<1>2. t \in Int
  BY MomentsBelow
<1>3. PICK s \in Int : s = Floor(t, h)
  BY <1>1, <1>2, FloorIs
<1>4. s % h = 0 /\ s =< t /\ t < s + h /\ t % h = t - s
  BY <1>1, <1>2, <1>3, FloorIs
<1>5. OnTheHour(t) = s
  BY <1>1, <1>2, <1>3, <1>4 DEF OnTheHour
<1>6. s \in Moments
  BY <1>1, <1>3, MomentsBelow
<1>7. Floor(s, h) = s
  <2>1. s =< s /\ s < s + h
    BY <1>1
  <2> QED BY <1>1, <1>4, <2>1, FloorOf
<1>8. Floor(s, d) = Floor(t, d)
  BY <1>1, <1>2, <1>3, FloorTwice
<1>9. s % d = s - Floor(t, d)
  BY <1>1, <1>8, FloorIs
<1>10. Hour(t) * h = s - Floor(t, d)
  BY <1>1, <1>3, DateTimeIs
<1>11. Hour(s) = Hour(t)
  <2>1. PartitionPath("hour", s) = PartitionPath("hour", t)
    BY <1>1, <1>3, <1>6, <1>7, HourPath
  <2> QED BY <2>1 DEF PartitionPath
<1> QED BY <1>1, <1>3, <1>4, <1>5, <1>6, <1>7, <1>8, <1>9, <1>10, <1>11

\* Moments of one hour have one path, whatever the interval.
LEMMA SameHour ==
    ASSUME Calendar, NEW s \in Moments, NEW t \in Moments, NEW interval \in Interval,
           Floor(s, HourTicks) = Floor(t, HourTicks)
    PROVE  PartitionPath(interval, s) = PartitionPath(interval, t)
<1>1. PartitionPath("hour", s) = PartitionPath("hour", t)
  BY HourPath
<1>2. Month(s) = Month(t) /\ Day(s) = Day(t) /\ Hour(s) = Hour(t)
  BY <1>1 DEF PartitionPath
<1> QED BY <1>2 DEF PartitionPath, Interval

LEMMA VisitedIs ==
    ASSUME NEW start \in Int, NEW end \in Int
    PROVE  /\ \A interval \in Interval : Visited(interval, start, end) \subseteq start..end
           /\ \A x \in start..end :
                 /\ x \in Visited("hour", start, end) <=> (x - start) % HourTicks = 0
                 /\ x \in Visited("day", start, end) <=> (x - start) % DayTicks = 0
                 /\ x \in Visited("month", start, end) <=>
                        x = start \/ x = MonthStart[Month(x)] + HourTicks * Hour(start)
<1>1. /\ Visited("hour", start, end) = {t \in start..end : (t - start) % HourTicks = 0}
      /\ Visited("day", start, end) = {t \in start..end : (t - start) % DayTicks = 0}
      /\ Visited("month", start, end) =
            {t \in start..end : t = start \/ t = MonthStart[Month(t)] + HourTicks * Hour(start)}
  BY DEF Visited
<1> QED BY <1>1, Zenon DEF Interval

\* A range that ends later in the day than it starts, or on a later day than t,
\* has a whole number of days from its start a moment of the day of t.
LEMMA DayVisited ==
    ASSUME Calendar, NEW a \in Moments, NEW b \in Moments, NEW t \in Moments,
           Floor(a, DayTicks) =< Floor(t, DayTicks), Floor(t, DayTicks) =< Floor(b, DayTicks),
           Floor(t, DayTicks) < Floor(b, DayTicks) \/ a % DayTicks =< b % DayTicks
    PROVE  \E x \in Visited("day", a, b) : PartitionPath("day", x) = PartitionPath("day", t)
<1>1. PICK d \in Nat \ {0} : d = DayTicks
  BY CalendarFacts
<1>2. a \in Int /\ b \in Int /\ t \in Int
  BY MomentsBelow
<1>3. PICK f \in Int, g \in Int, e \in Int : f = Floor(a, d) /\ g = Floor(t, d) /\ e = Floor(b, d)
  BY <1>1, <1>2, FloorIs
<1>4. /\ f % d = 0 /\ f =< a /\ a < f + d /\ a % d = a - f
      /\ g % d = 0 /\ g =< t /\ t < g + d
      /\ e % d = 0 /\ e =< b /\ b % d = b - e
  BY <1>1, <1>2, <1>3, FloorIs
<1>5. f =< g /\ g =< e /\ (g < e \/ a - f =< b - e)
  BY <1>1, <1>3, <1>4
<1>6. PICK x \in Int : x = g + (a - f)
  BY <1>2
<1>7. a =< x /\ g =< x /\ x < g + d
  BY <1>2, <1>4, <1>5, <1>6
<1>8. x =< b
  <2>1. CASE g < e
    <3>1. g + d =< e
      BY <1>4, <2>1, MultiplesApart
    <3> QED BY <1>2, <1>4, <1>7, <3>1
  <2>2. CASE ~(g < e)
    BY <1>2, <1>5, <1>6, <2>2
  <2> QED BY <2>1, <2>2
<1>9. (x - a) % d = 0
  <2>1. x - a = g - f
    BY <1>2, <1>6
  <2> QED BY <1>4, <2>1, MultiplesSum
<1>10. Floor(x, d) = g
  BY <1>4, <1>7, FloorOf
<1>11. x \in Moments
  <2>1. 0 =< x
    BY <1>2, <1>7 DEF Moments
  <2> QED BY <1>8, <2>1, MomentsBelow
<1>12. x \in Visited("day", a, b)
  <2>1. x \in a..b
    BY <1>2, <1>7, <1>8
  <2> QED BY <1>1, <1>2, <1>9, <2>1, VisitedIs
<1> QED BY <1>1, <1>3, <1>10, <1>11, <1>12, DayPath

\* What is listed are partitions of the range.
LEMMA ListedInside ==
    ASSUME Calendar, NEW start \in Moments, NEW end \in Moments, start =< end,
           NEW interval \in Interval, NEW p \in ListedInRange(interval, start, end)
    PROVE  \E t \in start..end : p = PartitionPath(interval, t)
<1>1. PICK x \in Visited(interval, OnTheHour(start), OnTheHour(end)) : p = PartitionPath(interval, x)
  BY DEF ListedInRange
<1>2. PICK s, e : s = OnTheHour(start) /\ e = OnTheHour(end)
  OBVIOUS
<1>3. s \in Moments /\ s =< start /\ Floor(s, HourTicks) = s /\ s = Floor(start, HourTicks)
  BY <1>2, OnTheHourIs
<1>4. e \in Moments /\ e =< end
  BY <1>2, OnTheHourIs
<1>5. start \in Int /\ end \in Int /\ s \in Int /\ e \in Int
  BY <1>3, <1>4, MomentsBelow
<1>6. x \in s..e
  BY <1>1, <1>2, <1>5, VisitedIs
<1>7. x \in Int /\ s =< x /\ x =< end
  BY <1>4, <1>5, <1>6
<1>8. CASE start =< x
  <2>1. x \in start..end
    BY <1>5, <1>7, <1>8
  <2> QED BY <1>1, <2>1
<1>9. CASE x < start
  <2>1. PICK h \in Nat \ {0} : h = HourTicks
    BY CalendarFacts
  <2>2. s % h = 0 /\ start < s + h
    BY <1>3, <1>5, <2>1, FloorIs
  <2>3. x < s + h
    BY <1>5, <1>7, <1>9, <2>2
  <2>4. Floor(x, h) = s
    BY <1>5, <1>7, <2>2, <2>3, FloorOf
  <2>5. 0 =< x
    BY <1>3, <1>5, <1>7 DEF Moments
  <2>6. x \in Moments
    BY <1>7, <2>5, MomentsBelow
  <2>7. PartitionPath(interval, x) = PartitionPath(interval, start)
    BY <1>3, <2>1, <2>4, <2>6, SameHour
  <2>8. start \in start..end
    BY <1>5
  <2> QED BY <1>1, <2>7, <2>8
<1> QED BY <1>5, <1>7, <1>8, <1>9

LEMMA HoursListed ==
    ASSUME Calendar, NEW start \in Moments, NEW end \in Moments, NEW t \in start..end
    PROVE  PartitionPath("hour", t) \in ListedInRange("hour", start, end)
<1>1. PICK h \in Nat \ {0} : h = HourTicks
  BY CalendarFacts
<1>2. start \in Int /\ end \in Int
  BY MomentsBelow
<1>3. t \in Int /\ start =< t /\ t =< end /\ t \in Moments
  BY MomentsBetween
<1>4. PICK s \in Int, x \in Int, e \in Int :
          s = Floor(start, h) /\ x = Floor(t, h) /\ e = Floor(end, h)
  BY <1>1, <1>2, <1>3, FloorIs
<1>5. /\ s % h = 0 /\ s =< start /\ x % h = 0 /\ x =< t /\ t < x + h
      /\ e % h = 0 /\ e =< end
  BY <1>1, <1>2, <1>3, <1>4, FloorIs
<1>6. s =< x
  BY <1>1, <1>2, <1>3, <1>4, FloorGrows
<1>7. x =< e
  BY <1>1, <1>2, <1>3, <1>4, FloorGrows
<1>8. x \in Visited("hour", s, e)
  <2>1. (x - s) % h = 0
    BY <1>5, MultiplesSum
  <2>2. x \in s..e
    BY <1>6, <1>7
  <2> QED BY <1>1, <2>1, <2>2, VisitedIs
<1>9. x \in Moments /\ Floor(x, h) = x
  <2>1. x =< x /\ x < x + h
    BY <1>1
  <2>2. Floor(x, h) = x
    BY <1>5, <2>1, FloorOf
  <2> QED BY <1>1, <1>3, <1>4, <2>2, MomentsBelow
<1>10. PartitionPath("hour", x) = PartitionPath("hour", t)
  BY <1>1, <1>3, <1>4, <1>9, HourPath
<1>11. s = OnTheHour(start) /\ e = OnTheHour(end)
  BY <1>1, <1>4, OnTheHourIs
<1> QED BY <1>8, <1>10, <1>11 DEF ListedInRange

LEMMA DaysListed ==
    ASSUME Calendar, NEW start \in Moments, NEW end \in Moments, NEW t \in start..end
    PROVE  \/ PartitionPath("day", t) \in ListedInRange("day", start, end)
           \/ Hour(start) > Hour(end) /\ PartitionPath("day", t) = PartitionPath("day", end)
<1>1. PICK d \in Nat \ {0}, h \in Nat \ {0} : d = DayTicks /\ h = HourTicks
  BY CalendarFacts
<1>2. start \in Int /\ end \in Int
  BY MomentsBelow
<1>3. t \in Int /\ start =< t /\ t =< end /\ t \in Moments
  BY MomentsBetween
<1>4. PICK f \in Int, g \in Int, e \in Int :
          f = Floor(start, d) /\ g = Floor(t, d) /\ e = Floor(end, d)
  BY <1>1, <1>2, <1>3, FloorIs
<1>5. f =< g
  BY <1>1, <1>2, <1>3, <1>4, FloorGrows
<1>6. g =< e
  BY <1>1, <1>2, <1>3, <1>4, FloorGrows
<1>7. PICK a, b : a = OnTheHour(start) /\ b = OnTheHour(end)
  OBVIOUS
<1>8. /\ a \in Moments /\ Floor(a, d) = f /\ a % d = Hour(start) * h
      /\ b \in Moments /\ Floor(b, d) = e /\ b % d = Hour(end) * h
  BY <1>1, <1>4, <1>7, OnTheHourIs
<1>9. PICK i \in Int, j \in Int : i = Hour(start) /\ j = Hour(end)
  BY DateTimeIs
<1>10. i =< j => a % d =< b % d
  <2>1. i = j => a % d = b % d
    BY <1>8, <1>9
  <2>2. i < j => i * h \in Int /\ j * h \in Int /\ i * h + h =< j * h
    BY Product
  <2>3. i < j => a % d =< b % d
    BY <1>1, <1>8, <1>9, <2>2
  <2>4. a % d \in Int
    BY <1>1, <1>8, MomentsBelow, Division
  <2> QED BY <2>1, <2>3, <2>4
<1>11. ASSUME g < e \/ i =< j
       PROVE  PartitionPath("day", t) \in ListedInRange("day", start, end)
  <2>1. PICK x \in Visited("day", a, b) : PartitionPath("day", x) = PartitionPath("day", t)
    BY <1>1, <1>3, <1>4, <1>5, <1>6, <1>8, <1>10, <1>11, DayVisited
  <2> QED BY <1>7, <2>1 DEF ListedInRange
<1>12. g = e => PartitionPath("day", t) = PartitionPath("day", end)
  BY <1>1, <1>3, <1>4, DayPath
<1> QED BY <1>6, <1>9, <1>11, <1>12

LEMMA MonthsListed ==
    ASSUME Calendar, NEW start \in Moments, NEW end \in Moments, NEW t \in start..end
    PROVE  \/ PartitionPath("month", t) \in ListedInRange("month", start, end)
           \/ Hour(start) > Hour(end) /\ PartitionPath("month", t) = PartitionPath("month", end)
<1>1. PICK d \in Nat \ {0}, h \in Nat \ {0} : d = DayTicks /\ h = HourTicks
  BY CalendarFacts
<1>2. start \in Int /\ end \in Int
  BY MomentsBelow
<1>3. t \in Int /\ start =< t /\ t =< end /\ t \in Moments
  BY MomentsBetween
<1>4. PICK n \in Nat : n = Len(MonthStart) /\ n > 1
  BY CalendarFacts
<1>5. PICK k \in 1..(n - 1), m \in 1..(n - 1), l \in 1..(n - 1) :
          k = Month(start) /\ m = Month(t) /\ l = Month(end)
  BY <1>3, <1>4, MonthIs
<1>6. \A i \in 1..n : /\ MonthStart[i] \in Int /\ MonthStart[i] % d = 0
                      /\ \A j \in 1..n : i < j => MonthStart[i] < MonthStart[j]
  BY <1>1, <1>4, CalendarFacts
<1>7. PICK a, b : a = OnTheHour(start) /\ b = OnTheHour(end)
  OBVIOUS
<1>8. /\ a \in Moments /\ a =< start /\ Hour(a) = Hour(start)
      /\ a % d = Hour(start) * h
      /\ b \in Moments /\ b =< end /\ b % d = Hour(end) * h /\ Floor(b, d) = Floor(end, d)
  BY <1>1, <1>7, OnTheHourIs
<1>9. a \in Int /\ b \in Int /\ a =< b
  <2>1. a = Floor(start, h) /\ b = Floor(end, h)
    BY <1>1, <1>7, OnTheHourIs
  <2>2. start =< end
    BY <1>2, <1>3
  <2> QED BY <1>1, <1>2, <2>1, <2>2, FloorIs, FloorGrows
<1>10. CASE m = k
  <2>1. a \in Visited("month", a, b)
    <3>1. a \in a..b
      BY <1>9
    <3> QED BY <1>9, <3>1, VisitedIs
  <2>2. PartitionPath("month", a) = PartitionPath("month", start)
    <3>1. Floor(a, HourTicks) = Floor(start, HourTicks)
      BY <1>7, OnTheHourIs
    <3> QED BY <1>8, <3>1, SameHour DEF Interval
  <2>3. PartitionPath("month", start) = PartitionPath("month", t)
    BY <1>3, <1>5, <1>10, MonthPath
  <2> QED BY <1>7, <2>1, <2>2, <2>3 DEF ListedInRange
<1>11. CASE m # k
  <2>1. m \in 1..n /\ m + 1 \in 1..n /\ k \in 1..n /\ k + 1 \in 1..n /\ l \in 1..n
    BY <1>4
  <2>2. PICK f \in Int, g \in Int : f = MonthStart[m] /\ g = MonthStart[m + 1]
    BY <1>6, <2>1
  <2>3. f =< t /\ t < g /\ f % d = 0 /\ g % d = 0 /\ f < g
    <3>1. MonthStart[m] =< t /\ t < MonthStart[m + 1]
      BY <1>3, <1>5, MonthIs
    <3>2. f % d = 0 /\ g % d = 0
      BY <1>6, <2>1, <2>2
    <3>3. m < m + 1
      OBVIOUS
    <3>4. f < g
      BY <1>6, <2>1, <2>2, <3>3
    <3> QED BY <2>2, <3>1, <3>2, <3>4
  <2>4. k < m /\ m =< l
    <3>1. ~(m < k)
      <4> SUFFICES ASSUME m < k PROVE FALSE
        OBVIOUS
      <4>1. MonthStart[k] =< start /\ MonthStart[k] \in Int
        BY <1>5, <1>6, <2>1, MonthIs
      <4>2. g =< MonthStart[k]
        BY <1>6, <2>1, <2>2
      <4> QED BY <1>2, <1>3, <2>3, <4>1, <4>2
    <3>2. ~(l < m)
      <4> SUFFICES ASSUME l < m PROVE FALSE
        OBVIOUS
      <4>1. l + 1 \in 1..n /\ (l + 1 = m \/ l + 1 < m)
        BY <2>1
      <4>2. end < MonthStart[l + 1] /\ MonthStart[l + 1] \in Int
        BY <1>5, <1>6, <4>1, MonthIs
      <4>3. MonthStart[l + 1] =< f
        BY <1>6, <2>1, <2>2, <4>1, <4>2
      <4> QED BY <1>2, <1>3, <2>3, <4>2, <4>3
    <3> QED BY <1>11, <3>1, <3>2
  <2>5. start < f
    <3>1. k + 1 = m \/ k + 1 < m
      BY <2>4
    <3>2. start < MonthStart[k + 1] /\ MonthStart[k + 1] \in Int
      BY <1>5, <1>6, <2>1, MonthIs
    <3>3. MonthStart[k + 1] =< f
      BY <1>6, <2>1, <2>2, <3>1, <3>2
    <3> QED BY <1>2, <3>2, <3>3
  <2>6. PICK i \in Int, j \in Int, o \in Int :
            i = Hour(start) /\ j = Hour(end) /\ o = i * h
    BY DateTimeIs
  <2>7. o = a % d /\ 0 =< o /\ o < d
    <3>1. a % d = o
      BY <1>8, <2>6
    <3>2. a % d \in 0..(d - 1)
      BY <1>9, Division
    <3> QED BY <3>1, <3>2
  <2>8. PICK x \in Int : x = f + o
    OBVIOUS
  <2>9. f + d =< g
    BY <2>3, MultiplesApart
  <2>10. a =< x /\ f =< x /\ x < g /\ x < f + d
    BY <1>2, <1>8, <1>9, <2>5, <2>7, <2>8, <2>9
  <2>11. x = MonthStart[m] + HourTicks * Hour(a)
    <3>1. h * i = o
      BY <2>6
    <3> QED BY <1>1, <1>8, <2>2, <2>6, <2>8, <3>1
  <2>12. ASSUME x =< b
         PROVE  PartitionPath("month", t) \in ListedInRange("month", start, end)
    <3>1. x \in Moments
      <4>1. 0 =< x
        BY <1>8, <1>9, <2>10 DEF Moments
      <4> QED BY <1>8, <2>12, <4>1, MomentsBelow
    <3>2. Month(x) = m
      <4>1. MonthStart[m] =< x /\ x < MonthStart[m + 1]
        BY <2>2, <2>10
      <4>2. m \in 1..(Len(MonthStart) - 1)
        BY <1>4
      <4> QED BY <3>1, <4>1, <4>2, MonthOf
    <3>3. x \in a..b
      BY <1>9, <2>10, <2>12
    <3>4. x \in Visited("month", a, b)
      BY <1>9, <2>11, <3>2, <3>3, VisitedIs
    <3>5. PartitionPath("month", x) = PartitionPath("month", t)
      BY <1>3, <1>5, <3>1, <3>2, MonthPath
    <3> QED BY <1>7, <3>4, <3>5 DEF ListedInRange
  <2>13. PICK e \in Int : e = Floor(end, d)
    BY <1>2, FloorIs
  <2>14. e % d = 0 /\ e =< end /\ end < e + d /\ e =< b /\ b % d = b - e
    <3>1. e % d = 0 /\ e =< end /\ end < e + d
      BY <1>2, <2>13, FloorIs
    <3>2. Floor(b, d) = e
      BY <1>8, <2>13
    <3>3. e =< b /\ b % d = b - e
      BY <1>9, <3>2, FloorIs
    <3> QED BY <3>1, <3>3
  <2>15. CASE m < l
    <3>1. MonthStart[l] =< end /\ MonthStart[l] \in Int /\ MonthStart[l] % d = 0
      BY <1>5, <1>6, <2>1, MonthIs
    <3>2. m + 1 = l \/ m + 1 < l
      BY <2>15
    <3>3. g =< MonthStart[l]
      BY <1>6, <2>1, <2>2, <3>1, <3>2
    <3>4. MonthStart[l] =< e
      BY <1>2, <2>13, <3>1, FloorBound
    <3>5. x =< b
      BY <1>9, <2>10, <2>14, <3>1, <3>3, <3>4
    <3> QED BY <2>12, <3>5
  <2>16. CASE m = l
    <3>1. PartitionPath("month", t) = PartitionPath("month", end)
      BY <1>3, <1>5, <2>16, MonthPath
    <3>2. ASSUME i =< j PROVE x =< b
      <4>1. f =< end
        BY <1>2, <1>3, <2>3
      <4>2. f =< e
        BY <1>2, <2>3, <2>13, <4>1, FloorBound
      <4>3. o =< b % d
        <5>1. i = j => o = b % d
          BY <1>8, <2>6
        <5>2. i < j => i * h \in Int /\ j * h \in Int /\ i * h + h =< j * h
          BY Product
        <5>3. i < j => o =< b % d
          BY <1>1, <1>8, <2>6, <5>2
        <5> QED BY <3>2, <5>1, <5>3
      <4> QED BY <1>9, <2>8, <2>14, <4>2, <4>3
    <3> QED BY <2>6, <2>12, <3>1, <3>2
  <2> QED BY <2>4, <2>15, <2>16
<1> QED BY <1>10, <1>11

LEMMA DayRead ==
    ASSUME Calendar, NEW start \in Moments, NEW end \in Moments, NEW t \in start..end
    PROVE  \/ PartitionPath("day", t) \in DaysRead(start, end)
           \/ /\ (start % DayTicks) > (end % DayTicks)
              /\ PartitionPath("day", t) = PartitionPath("day", end)
<1>1. PICK d \in Nat \ {0} : d = DayTicks
  BY CalendarFacts
<1>2. start \in Int /\ end \in Int
  BY MomentsBelow
<1>3. t \in Int /\ start =< t /\ t =< end /\ t \in Moments
  BY MomentsBetween
<1>4. PICK f \in Int, g \in Int, e \in Int :
          f = Floor(start, d) /\ g = Floor(t, d) /\ e = Floor(end, d)
  BY <1>1, <1>2, <1>3, FloorIs
<1>5. f =< g
  BY <1>1, <1>2, <1>3, <1>4, FloorGrows
<1>6. g =< e
  BY <1>1, <1>2, <1>3, <1>4, FloorGrows
<1>7. PICK i \in Int, j \in Int : i = start % d /\ j = end % d
  <2>1. start % d \in Int /\ end % d \in Int
    BY <1>1, <1>2, Division
  <2> QED BY <2>1
<1>8. ASSUME g < e \/ i =< j
      PROVE  PartitionPath("day", t) \in DaysRead(start, end)
  BY <1>1, <1>3, <1>4, <1>5, <1>6, <1>7, <1>8, DayVisited DEF DaysRead
<1>9. g = e => PartitionPath("day", t) = PartitionPath("day", end)
  BY <1>1, <1>3, <1>4, DayPath
<1> QED BY <1>1, <1>6, <1>7, <1>8, <1>9

LEMMA ListingComplete ==
    ASSUME Calendar, NEW start \in Moments, NEW end \in Moments, start =< end
    PROVE  ListingOf(start, end)
<1> DEFINE Missing(interval, listed) == Overlapping(interval, start, end) \ listed
<1>0. start \in Int /\ end \in Int
  BY MomentsBelow
<1>1. ASSUME NEW interval \in Interval, NEW listed, listed = ListedInRange(interval, start, end)
      PROVE  /\ listed \subseteq Overlapping(interval, start, end)
             /\ Missing(interval, listed) \subseteq {PartitionPath(interval, end)}
             /\ (interval = "hour" \/ Hour(start) =< Hour(end)) => Missing(interval, listed) = {}
  <2>1. listed \subseteq Overlapping(interval, start, end)
    BY <1>1, ListedInside DEF Overlapping
  <2>2. ASSUME NEW t \in start..end
        PROVE  \/ PartitionPath(interval, t) \in listed
               \/ /\ interval # "hour" /\ Hour(start) > Hour(end)
                  /\ PartitionPath(interval, t) = PartitionPath(interval, end)
    <3>1. CASE interval = "hour"
      BY <1>1, <3>1, HoursListed
    <3>2. CASE interval = "day"
      BY <1>1, <3>2, DaysListed
    <3>3. CASE interval = "month"
      BY <1>1, <3>3, MonthsListed
    <3> QED BY <3>1, <3>2, <3>3 DEF Interval
  <2>3. PICK i \in Int, j \in Int : i = Hour(start) /\ j = Hour(end)
    BY DateTimeIs
  <2>4. Hour(start) =< Hour(end) => ~(Hour(start) > Hour(end))
    BY <2>3
  <2> QED BY <2>1, <2>2, <2>4 DEF Overlapping
<1>2. /\ Missing("day", DaysRead(start, end)) \subseteq {PartitionPath("day", end)}
      /\ (start % DayTicks) =< (end % DayTicks) => Missing("day", DaysRead(start, end)) = {}
  <2>1. ASSUME NEW t \in start..end
        PROVE  \/ PartitionPath("day", t) \in DaysRead(start, end)
               \/ /\ (start % DayTicks) > (end % DayTicks)
                  /\ PartitionPath("day", t) = PartitionPath("day", end)
    BY DayRead
  <2>2. PICK d \in Nat \ {0} : d = DayTicks
    BY CalendarFacts
  <2>3. start % d \in Int /\ end % d \in Int
    BY <1>0, <2>2, Division
  <2>4. (start % DayTicks) =< (end % DayTicks) => ~((start % DayTicks) > (end % DayTicks))
    BY <2>2, <2>3
  <2> QED BY <2>1, <2>4 DEF Overlapping
<1> QED BY <1>1, <1>2 DEF ListingOf

\* On every calendar, for all of its moments: boundaries and paths agree, a range
\* is visited but for its last partition, and a cleanup of hours, days and months
\* within the allowance keeps what is young.
THEOREM Partitions_agree ==
    ASSUME Calendar, NEW start \in Moments, NEW end \in Moments, NEW retention_days \in Nat
    PROVE  RangeAgrees(start, end, retention_days)
<1>1. BoundariesOf(start) /\ BoundariesOf(end)
  BY BoundariesAgree
<1>2. start =< end => ListingOf(start, end)
  BY ListingComplete
<1>3. CleanupOf(end, retention_days)
  BY CleanupKeeps
<1> QED BY <1>1, <1>2, <1>3 DEF RangeAgrees

-----------------------------------------------------------------------------
(* Batches of points: what goes out comes back, whatever is in it *)

\* A value has the type it is written with, or none.
LEMMA TypeOfValue ==
    ASSUME NEW v, v.kind \in FieldTypes \cup {"none"}
    PROVE  FieldType(v) = v.kind
<1>1. CASE v.kind = "bool"
  <2>1. Kinds(v) \cap FieldTypes = {"bool", "int"}
    BY <1>1 DEF Kinds, FieldTypes
  <2> QED BY <1>1, <2>1 DEF FieldType
<1>2. CASE v.kind = "none"
  <2>1. Kinds(v) \cap FieldTypes = {}
    BY <1>2 DEF Kinds, FieldTypes
  <2> QED BY <1>2, <2>1 DEF FieldType
<1>3. CASE v.kind \in {"int", "float", "str"}
  <2>1. Kinds(v) \cap FieldTypes = {v.kind}
    BY <1>3 DEF Kinds, FieldTypes
  <2>2. Kinds(v) \cap FieldTypes # {} /\ "bool" \notin Kinds(v) \cap FieldTypes
    BY <1>3, <2>1
  <2> QED BY <2>1, <2>2 DEF FieldType
<1> QED BY <1>1, <1>2, <1>3 DEF FieldTypes

\* A point whose values all have a type is read as it was written.
LEMMA PointReadBack ==
    ASSUME NEW p, IsDataPoint(p), \A f \in DOMAIN p.fields : p.fields[f].kind # "none"
    PROVE  FromDict(ToDict(p)) = Gives(p)
<1> DEFINE written == [f \in DOMAIN p.fields |-> [value |-> p.fields[f], type |-> p.fields[f].kind]]
<1>1. \A f \in DOMAIN p.fields :
         /\ p.fields[f] = [kind |-> p.fields[f].kind, n |-> p.fields[f].n]
         /\ p.fields[f].kind \in FieldTypes
         /\ p.fields[f].kind = "bool" => p.fields[f].n \in {0, 1}
         /\ FieldType(p.fields[f]) = p.fields[f].kind
  BY TypeOfValue DEF IsDataPoint
<1>2. ToDict(p) = [p EXCEPT !.fields = written]
  BY <1>1 DEF ToDict
<1>3. PICK d : d = ToDict(p)
  OBVIOUS
<1>4. d = [measurement |-> p.measurement, timestamp |-> p.timestamp, tags |-> p.tags, fields |-> written]
  <2> HIDE DEF written
  <2>1. p = [measurement |-> p.measurement, timestamp |-> p.timestamp, tags |-> p.tags, fields |-> p.fields]
    BY DEF IsDataPoint
  <2> QED BY <1>2, <1>3, <2>1
<1>5. /\ d.fields = written /\ d.measurement = p.measurement
      /\ d.timestamp = p.timestamp /\ d.tags = p.tags
  <2> HIDE DEF written
  <2> QED BY <1>4
<1>6. \A f \in DOMAIN p.fields : Convert(p.fields[f], p.fields[f].kind) = p.fields[f]
  <2> SUFFICES ASSUME NEW f \in DOMAIN p.fields
               PROVE  Convert(p.fields[f], p.fields[f].kind) = p.fields[f]
    OBVIOUS
  <2>1. CASE p.fields[f].kind = "bool"
    BY <1>1, <2>1 DEF Convert
  <2>2. CASE p.fields[f].kind # "bool"
    BY <1>1, <2>2 DEF Convert
  <2> QED BY <2>1, <2>2
<1>7. [f \in DOMAIN d.fields |-> Convert(d.fields[f].value, d.fields[f].type)] = p.fields
  <2>1. DOMAIN d.fields = DOMAIN p.fields
    BY <1>5
  <2>2. \A f \in DOMAIN p.fields : Convert(d.fields[f].value, d.fields[f].type) = p.fields[f]
    BY <1>5, <1>6
  <2>3. p.fields = [f \in DOMAIN p.fields |-> p.fields[f]]
    BY DEF IsDataPoint
  <2> QED BY <2>1, <2>2, <2>3
<1>8. [d EXCEPT !.fields = p.fields] = p
  <2> HIDE DEF written
  <2>1. p = [measurement |-> p.measurement, timestamp |-> p.timestamp, tags |-> p.tags, fields |-> p.fields]
    BY DEF IsDataPoint
  <2> QED BY <1>4, <2>1
<1>9. \A f \in DOMAIN d.fields : d.fields[f].type \in FieldTypes
  <2>1. DOMAIN d.fields = DOMAIN p.fields
    BY <1>5
  <2>2. \A f \in DOMAIN p.fields : d.fields[f].type = p.fields[f].kind
    BY <1>5
  <2> QED BY <1>1, <2>1, <2>2
<1>10. Accepted(p)
  BY DEF IsDataPoint
<1> HIDE DEF written
<1>11. FromDict(d) = Gives(p)
  BY <1>7, <1>8, <1>9, <1>10 DEF FromDict
<1> QED BY <1>3, <1>11

\* What goes out, and that its checksum lets no other points pass for it.
LEMMA DocumentReadBack ==
    ASSUME NEW Points, \A p \in Points : IsDataPoint(p), NEW points \in Seq(Points),
           \A i \in DOMAIN points : \A f \in DOMAIN points[i].fields : points[i].fields[f].kind # "none",
           NEW doc, doc = SerializeBatch(points).value
    PROVE  /\ SerializeBatch(points).ok /\ DeserializeBatch(doc) = Gives(points)
           /\ \A d \in Damaged(doc) : DeserializeBatch(d).ok => d = doc
<1>1. PICK dicts : dicts = [i \in DOMAIN points |-> ToDict(points[i])]
  OBVIOUS
<1>2. PICK n : n = Len(points)
  OBVIOUS
<1>3. PICK sum : sum = [version |-> "1.0", count |-> n, data_points |-> dicts]
  OBVIOUS
<1>4. \A i \in DOMAIN points : IsDataPoint(points[i])
  OBVIOUS
<1>5. ~ \E i \in DOMAIN points : \E f \in DOMAIN points[i].fields : FieldType(points[i].fields[f]) = "none"
  <2> SUFFICES ASSUME NEW i \in DOMAIN points, NEW f \in DOMAIN points[i].fields
               PROVE  FieldType(points[i].fields[f]) # "none"
    OBVIOUS
  <2>1. IsDataPoint(points[i])
    BY <1>4
  <2>2. points[i].fields[f].kind \in FieldTypes \cup {"none"}
    BY <2>1 DEF IsDataPoint
  <2> QED BY <2>2, TypeOfValue
<1>6. SerializeBatch(points) = Gives([version |-> "1.0", count |-> n, data_points |-> dicts, checksum |-> sum])
  BY <1>1, <1>2, <1>3, <1>5 DEF SerializeBatch, CalculateChecksum, Version
<1>7. SerializeBatch(points).ok /\ doc = [version |-> "1.0", count |-> n, data_points |-> dicts, checksum |-> sum]
  BY <1>6 DEF Gives
<1>8. DeserializeBatch(doc) = Gives(points)
  <2>1. /\ doc.version = "1.0" /\ doc.count = n /\ doc.data_points = dicts /\ doc.checksum = sum
    BY <1>7
  <2>2. DOMAIN dicts = DOMAIN points /\ \A i \in DOMAIN points : FromDict(dicts[i]) = Gives(points[i])
    BY <1>1, <1>4, PointReadBack
  <2>3. [i \in DOMAIN dicts |-> FromDict(dicts[i])] = [i \in DOMAIN points |-> Gives(points[i])]
    BY <2>2
  <2>4. PICK read : read = [i \in DOMAIN points |-> Gives(points[i])]
    OBVIOUS
  <2>5. \A i \in DOMAIN points : read[i].ok /\ read[i].value = points[i]
    BY <2>4 DEF Gives
  <2>6. DOMAIN read = DOMAIN points /\ [i \in DOMAIN read |-> read[i].value] = points
    BY <2>4, <2>5
  <2> QED BY <1>3, <2>1, <2>3, <2>4, <2>5, <2>6 DEF DeserializeBatch, CalculateChecksum, Version
<1>9. ASSUME NEW d, DeserializeBatch(d).ok
      PROVE  d.version = "1.0" /\ d.checksum = [version |-> d.version, count |-> d.count, data_points |-> d.data_points]
  BY <1>9 DEF DeserializeBatch, Raises, Version, CalculateChecksum
<1> DEFINE With(ps) == [doc EXCEPT !.data_points = ps]
<1>10. ASSUME NEW ps, NEW d, d = With(ps), DeserializeBatch(d).ok
       PROVE  d = doc
  <2>1. d = [version |-> "1.0", count |-> n, data_points |-> ps, checksum |-> sum]
    BY <1>7, <1>10
  <2>2. sum = [version |-> d.version, count |-> d.count, data_points |-> d.data_points]
    <3>1. d.checksum = [version |-> d.version, count |-> d.count, data_points |-> d.data_points]
      BY <1>9, <1>10
    <3>2. d.checksum = sum
      BY <2>1
    <3> QED BY <3>1, <3>2
  <2>3. sum.data_points = dicts /\ sum.data_points = d.data_points /\ d.data_points = ps
    BY <1>3, <2>1, <2>2
  <2> QED BY <1>7, <2>1, <2>3
<1>11. ASSUME NEW d \in Damaged(doc), DeserializeBatch(d).ok
       PROVE  d = doc
  <2>1. CASE d = [doc EXCEPT !.version = "1.1"]
    <3>1. d.version = "1.1"
      BY <1>7, <2>1
    <3> QED BY <1>9, <1>11, <3>1
  <2>2. CASE d = [doc EXCEPT !.count = @ + 1]
    <3>1. d = [version |-> "1.0", count |-> n + 1, data_points |-> dicts, checksum |-> sum]
      BY <1>7, <2>2
    <3>2. sum = [version |-> d.version, count |-> d.count, data_points |-> d.data_points]
      BY <1>9, <1>11, <3>1
    <3>3. sum.count = n /\ sum.count = n + 1 /\ n \in Int
      BY <1>2, <1>3, <3>1, <3>2
    <3> QED BY <3>3
  <2>3. CASE d = [doc EXCEPT !.checksum = NoChecksum]
    <3>1. d.version = "1.0" /\ d.checksum = NoChecksum
      BY <1>7, <2>3
    <3>2. d.checksum = [version |-> d.version, count |-> d.count, data_points |-> d.data_points]
      BY <1>9, <1>11
    <3>3. d.checksum.version = "1.0"
      BY <3>1, <3>2
    <3>4. NoChecksum.version = ""
      BY DEF NoChecksum
    <3>5. "" # "1.0"
      OBVIOUS
    <3> QED BY <3>1, <3>3, <3>4, <3>5, Zenon
  <2>4. ASSUME NEW ps, d = With(ps) PROVE d = doc
    BY <1>10, <1>11, <2>4
  <2>5. \/ d = [doc EXCEPT !.version = "1.1"] \/ d = [doc EXCEPT !.count = @ + 1]
        \/ d = [doc EXCEPT !.checksum = NoChecksum] \/ \E ps : d = With(ps)
    BY DEF Damaged
  <2> HIDE DEF With
  <2> QED BY <2>1, <2>2, <2>3, <2>4, <2>5
<1> QED BY <1>7, <1>8, <1>11

LEMMA BatchComesBack ==
    ASSUME NEW Points, \A p \in Points : IsDataPoint(p), NEW points \in Seq(Points)
    PROVE  BatchRestored(points)
<1>1. PICK doc : doc = SerializeBatch(points)
  OBVIOUS
<1>2. CASE \A i \in DOMAIN points : \A f \in DOMAIN points[i].fields : points[i].fields[f].kind # "none"
  <2>1. PICK value : value = SerializeBatch(points).value
    OBVIOUS
  <2>2. /\ SerializeBatch(points).ok /\ DeserializeBatch(value) = Gives(points)
        /\ \A d \in Damaged(value) : DeserializeBatch(d).ok => d = value
    BY <1>2, <2>1, DocumentReadBack
  <2> QED BY <1>2, <2>1, <2>2 DEF BatchRestored
<1>3. CASE ~ \A i \in DOMAIN points : \A f \in DOMAIN points[i].fields : points[i].fields[f].kind # "none"
  <2>1. PICK i \in DOMAIN points : \E f \in DOMAIN points[i].fields : points[i].fields[f].kind = "none"
    BY <1>3
  <2>2. PICK f \in DOMAIN points[i].fields : points[i].fields[f].kind = "none"
    BY <2>1
  <2>3. FieldType(points[i].fields[f]) = "none"
    BY <2>2, TypeOfValue
  <2>4. ~doc.ok
    BY <1>1, <2>3 DEF SerializeBatch, Raises
  <2> QED BY <1>1, <1>3, <2>4 DEF BatchRestored
<1> QED BY <1>2, <1>3
-----------------------------------------------------------------------------
(* The dictionary of the tags of a batch *)

\* How many of some numbers are before each of them: zero and up, none left out.
LEMMA CountsBefore ==
    ASSUME NEW n \in Nat, NEW hits \in SUBSET (1..n)
    PROVE  /\ IsFiniteSet(hits)
           /\ \A h \in hits : Cardinality({j \in hits : j < h}) \in Nat
           /\ \A g, h \in hits : Cardinality({j \in hits : j < g}) = Cardinality({j \in hits : j < h}) => g = h
           /\ {Cardinality({j \in hits : j < h}) : h \in hits} = 0..(Cardinality(hits) - 1)
<1> DEFINE Below(h) == {j \in hits : j < h}
           f == [h \in hits |-> Cardinality(Below(h))]
<1>1. IsFiniteSet(hits) /\ hits \subseteq Int
  <2>1. 1 \in Int /\ n \in Int
    OBVIOUS
  <2>2. IsFiniteSet(1..n)
    BY <2>1, FS_Interval, Zenon
  <2>3. IsFiniteSet(hits)
    BY <2>2, FS_Subset, Zenon
  <2> QED BY <2>3
<1>2. PICK c \in Nat : c = Cardinality(hits)
  BY <1>1, FS_CardinalityType
<1>3. \A h \in hits : IsFiniteSet(Below(h)) /\ Cardinality(Below(h)) \in Nat /\ Cardinality(Below(h)) < c
  <2> SUFFICES ASSUME NEW h \in hits
               PROVE  IsFiniteSet(Below(h)) /\ Cardinality(Below(h)) \in Nat /\ Cardinality(Below(h)) < c
    OBVIOUS
  <2>1. Below(h) \in SUBSET hits /\ h \notin Below(h)
    BY <1>1
  <2> HIDE DEF Below
  <2>2. IsFiniteSet(Below(h)) /\ Below(h) # hits
    BY <1>1, <2>1, FS_Subset
  <2>3. Cardinality(Below(h)) \in Nat
    BY <2>2, FS_CardinalityType
  <2>4. Cardinality(Below(h)) =< c /\ (c = Cardinality(Below(h)) => hits = Below(h))
    BY <1>1, <1>2, <2>1, FS_Subset
  <2> QED BY <2>2, <2>3, <2>4
<1>4. ASSUME NEW g \in hits, NEW h \in hits, g < h
      PROVE  Cardinality(Below(g)) < Cardinality(Below(h))
  <2>1. Below(g) \subseteq Below(h) /\ g \in Below(h) /\ g \notin Below(g)
    <3>1. \A j \in hits : j < g => j < h
      BY <1>1, <1>4
    <3>2. ~(g < g)
      BY <1>1
    <3> QED BY <1>4, <3>1, <3>2
  <2> HIDE DEF Below
  <2>2. Below(g) \in SUBSET Below(h) /\ Below(g) # Below(h)
    BY <2>1
  <2>3. /\ Cardinality(Below(g)) =< Cardinality(Below(h))
        /\ Cardinality(Below(h)) = Cardinality(Below(g)) => Below(h) = Below(g)
    BY <1>3, <2>2, FS_Subset
  <2> QED BY <1>3, <2>2, <2>3
<1>5. \A g, h \in hits : Cardinality(Below(g)) = Cardinality(Below(h)) => g = h
  <2> SUFFICES ASSUME NEW g \in hits, NEW h \in hits, Cardinality(Below(g)) = Cardinality(Below(h))
               PROVE  g = h
    OBVIOUS
  <2> HIDE DEF Below
  <2>1. ~(g < h) /\ ~(h < g)
    BY <1>3, <1>4
  <2> QED BY <1>1, <2>1
<1> HIDE DEF Below
<1>6. f \in Injection(hits, 0..(c - 1))
  <2>1. \A h \in hits : f[h] \in 0..(c - 1)
    BY <1>2, <1>3
  <2> QED BY <1>5, <2>1 DEF Injection, IsInjective
<1> HIDE DEF f
<1>7. IsFiniteSet(0..(c - 1)) /\ Cardinality(0..(c - 1)) = c
  <2>1. 0 \in Int /\ c - 1 \in Int /\ (IF 0 > c - 1 THEN 0 ELSE (c - 1) - 0 + 1) = c
    OBVIOUS
  <2>2. IsFiniteSet(0..(c - 1)) /\ Cardinality(0..(c - 1)) = IF 0 > c - 1 THEN 0 ELSE (c - 1) - 0 + 1
    BY <2>1, FS_Interval, Zenon
  <2> QED BY <2>1, <2>2
<1>8. f \in Surjection(hits, 0..(c - 1))
  BY <1>2, <1>6, <1>7, FS_Injection
<1>9. {Cardinality(Below(h)) : h \in hits} = 0..(c - 1)
  <2>1. \A x \in 0..(c - 1) : \E h \in hits : f[h] = x
    BY <1>8 DEF Surjection
  <2>2. \A h \in hits : f[h] \in 0..(c - 1)
    BY <1>8 DEF Surjection
  <2> QED BY <2>1, <2>2 DEF f
<1> QED BY <1>1, <1>2, <1>3, <1>5, <1>9 DEF Below

\* The points that bring new tags; with them the dictionary grows.
Openers(points) == {k \in DOMAIN points : ~ \E j \in 1..(k - 1) : points[j].tags = points[k].tags}

\* Each point has one of them; its reference is how many come before that one.
LEMMA OpenerOf ==
    ASSUME NEW Points, NEW points \in Seq(Points), NEW i \in DOMAIN points
    PROVE  \E k \in Openers(points) :
              /\ points[k].tags = points[i].tags
              /\ TagRef(points, i) = Cardinality({j \in Openers(points) : j < k})
<1> DEFINE T == {k \in 1..i : points[k].tags = points[i].tags}
<1>1. DOMAIN points = 1..Len(points) /\ Len(points) \in Nat /\ i \in 1..Len(points)
  OBVIOUS
<1>2. PICK k \in T : \A y \in T : k =< y
  <2>1. T # {} /\ T \in SUBSET Nat
    BY <1>1
  <2> HIDE DEF T
  <2> QED BY <2>1, LeastNatural
<1>3. k \in 1..i /\ k \in DOMAIN points /\ points[k].tags = points[i].tags
  BY <1>1
<1>4. ~ \E j \in 1..(k - 1) : points[j].tags = points[k].tags
  <2> SUFFICES ASSUME NEW j \in 1..(k - 1), points[j].tags = points[k].tags PROVE FALSE
    OBVIOUS
  <2>1. j \in T /\ ~(k =< j)
    BY <1>3
  <2> QED BY <1>2, <2>1
<1>5. ASSUME NEW m \in 1..i, ~ \E j \in 1..(m - 1) : points[j].tags = points[m].tags,
             points[m].tags = points[i].tags
      PROVE  m = k
  <2>1. m \in T /\ k =< m
    BY <1>2, <1>5
  <2>2. ~(k \in 1..(m - 1))
    BY <1>3, <1>5
  <2> QED BY <1>3, <2>1, <2>2
<1>6. (CHOOSE m \in 1..i : ~(\E j \in 1..(m - 1) : points[j].tags = points[m].tags)
                              /\ points[m].tags = points[i].tags) = k
  BY <1>3, <1>4, <1>5
<1>7. TagRef(points, i) = Cardinality({j \in 1..(k - 1) : ~ \E l \in 1..(j - 1) : points[l].tags = points[j].tags})
  BY <1>6 DEF TagRef
<1>8. {j \in 1..(k - 1) : ~ \E l \in 1..(j - 1) : points[l].tags = points[j].tags}
         = {j \in Openers(points) : j < k}
  <2>1. \A j \in 1..(k - 1) : j \in DOMAIN points /\ j < k
    BY <1>1, <1>3
  <2>2. \A j \in DOMAIN points : j < k => j \in 1..(k - 1)
    BY <1>1, <1>3
  <2> QED BY <2>1, <2>2 DEF Openers
<1>9. k \in Openers(points)
  BY <1>3, <1>4 DEF Openers
<1> QED BY <1>3, <1>7, <1>8, <1>9

LEMMA TagsComeBack ==
    ASSUME NEW Points, NEW points \in Seq(Points)
    PROVE  TagsRestored(points)
<1> DEFINE Rank(h) == Cardinality({j \in Openers(points) : j < h})
           refs == {TagRef(points, i) : i \in DOMAIN points}
           dict == [id \in refs |-> points[CHOOSE i \in DOMAIN points : TagRef(points, i) = id].tags]
           hits == Openers(points)
<1>1. DOMAIN points = 1..Len(points) /\ Len(points) \in Nat /\ Openers(points) \in SUBSET (1..Len(points))
  BY DEF Openers
<1>2. /\ IsFiniteSet(hits)
      /\ \A g, h \in hits : Rank(g) = Rank(h) => g = h
      /\ {Rank(h) : h \in hits} = 0..(Cardinality(hits) - 1)
  <2>1. PICK n \in Nat : n = Len(points)
    BY <1>1
  <2>2. Openers(points) \in SUBSET (1..n)
    BY <1>1, <2>1
  <2> QED BY <2>2, CountsBefore, Zenon
<1>3. \A i \in DOMAIN points : \E k \in hits :
         points[k].tags = points[i].tags /\ TagRef(points, i) = Rank(k)
  BY OpenerOf
<1>4. ASSUME NEW g \in hits, NEW h \in hits, points[g].tags = points[h].tags
      PROVE  g = h
  <2>1. ~(g \in 1..(h - 1)) /\ ~(h \in 1..(g - 1))
    BY <1>4 DEF Openers
  <2> QED BY <1>1, <2>1
<1> HIDE DEF Rank, hits
<1>5. \A i, j \in DOMAIN points : TagRef(points, i) = TagRef(points, j) <=> points[i].tags = points[j].tags
  <2> SUFFICES ASSUME NEW i \in DOMAIN points, NEW j \in DOMAIN points
               PROVE  TagRef(points, i) = TagRef(points, j) <=> points[i].tags = points[j].tags
    OBVIOUS
  <2>1. PICK g \in hits : points[g].tags = points[i].tags /\ TagRef(points, i) = Rank(g)
    BY <1>3
  <2>2. PICK h \in hits : points[h].tags = points[j].tags /\ TagRef(points, j) = Rank(h)
    BY <1>3
  <2>3. points[g].tags = points[h].tags <=> g = h
    BY <1>4
  <2>4. Rank(g) = Rank(h) <=> g = h
    BY <1>2
  <2> QED BY <2>1, <2>2, <2>3, <2>4
<1>6. refs = {Rank(h) : h \in hits}
  <2>1. ASSUME NEW h \in hits PROVE Rank(h) \in refs
    <3>1. h \in DOMAIN points
      BY <1>1 DEF hits
    <3>2. PICK k \in hits : points[k].tags = points[h].tags /\ TagRef(points, h) = Rank(k)
      BY <1>3, <3>1
    <3>3. k = h
      BY <1>4, <3>2
    <3> QED BY <3>1, <3>2, <3>3
  <2>2. \A i \in DOMAIN points : TagRef(points, i) \in {Rank(h) : h \in hits}
    BY <1>3
  <2> QED BY <2>1, <2>2
<1>7. \A i \in DOMAIN points : dict[TagRef(points, i)] = points[i].tags
  <2> SUFFICES ASSUME NEW i \in DOMAIN points PROVE dict[TagRef(points, i)] = points[i].tags
    OBVIOUS
  <2>1. PICK id : id = TagRef(points, i)
    OBVIOUS
  <2>2. PICK j \in DOMAIN points : j = (CHOOSE l \in DOMAIN points : TagRef(points, l) = id)
                                   /\ TagRef(points, j) = id
    BY <2>1
  <2>3. dict[id] = points[j].tags
    BY <2>1, <2>2
  <2> QED BY <1>5, <2>1, <2>2, <2>3
<1>8. \A a, b \in refs : dict[a] = dict[b] => a = b
  <2> SUFFICES ASSUME NEW i \in DOMAIN points, NEW j \in DOMAIN points,
                      dict[TagRef(points, i)] = dict[TagRef(points, j)]
               PROVE  TagRef(points, i) = TagRef(points, j)
    OBVIOUS
  <2> HIDE DEF dict
  <2> QED BY <1>5, <1>7
<1>9. refs = 0..(Cardinality(refs) - 1)
  <2>1. PICK c \in Nat : c = Cardinality(hits)
    BY <1>2, FS_CardinalityType
  <2>2. refs = 0..(c - 1)
    BY <1>2, <1>6, <2>1
  <2>3. Cardinality(0..(c - 1)) = c
    <3>1. 0 \in Int /\ c - 1 \in Int /\ (IF 0 > c - 1 THEN 0 ELSE (c - 1) - 0 + 1) = c
      OBVIOUS
    <3>2. Cardinality(0..(c - 1)) = IF 0 > c - 1 THEN 0 ELSE (c - 1) - 0 + 1
      BY <3>1, FS_Interval, Zenon
    <3> QED BY <3>1, <3>2
  <2> QED BY <2>2, <2>3
<1>10. DOMAIN dict = refs
  OBVIOUS
<1>11. \A i \in DOMAIN points : CompressTags(points).points[i].tag_ref = TagRef(points, i)
  BY DEF CompressTags
<1>12. CompressTags(points).tag_dictionary = dict /\ DOMAIN CompressTags(points).points = DOMAIN points
  BY DEF CompressTags
<1> HIDE DEF dict, refs
<1> QED BY <1>7, <1>8, <1>9, <1>10, <1>11, <1>12 DEF TagsRestored

-----------------------------------------------------------------------------
(* Percentiles: of all values, and of the buckets of a histogram *)

Sorting(s, n, perm, place) ==
    /\ perm \in [1..n -> 1..n] /\ place \in [1..n -> 1..n]
    /\ \A k \in 1..n : place[perm[k]] = k /\ perm[place[k]] = k
    /\ Ascending(s) = [k \in 1..n |-> s[perm[k]]]
    /\ \A k, l \in 1..n : k =< l => s[perm[k]] =< s[perm[l]]

\* A list can be sorted: there is one value for each place.
LEMMA SortingOf ==
    ASSUME NEW s \in Seq(Int), NEW n \in Nat, n = Len(s)
    PROVE  \E perm, place : Sorting(s, n, perm, place)
<1> DEFINE Earlier(i) == {j \in DOMAIN s : s[j] < s[i] \/ (s[j] = s[i] /\ j < i)}
           Place(i) == 1 + Cardinality(Earlier(i))
           place == [i \in 1..n |-> Place(i)]
           perm == [k \in 1..n |-> CHOOSE i \in 1..n : Place(i) = k]
<1>1. DOMAIN s = 1..n /\ \A i \in 1..n : s[i] \in Int
  OBVIOUS
<1>2. IsFiniteSet(1..n) /\ Cardinality(1..n) = n
  <2>1. 1 \in Int /\ n \in Int /\ (IF 1 > n THEN 0 ELSE n - 1 + 1) = n
    OBVIOUS
  <2>2. IsFiniteSet(1..n) /\ Cardinality(1..n) = IF 1 > n THEN 0 ELSE n - 1 + 1
    BY <2>1, FS_Interval, Zenon
  <2> QED BY <2>1, <2>2
<1>3. ASSUME NEW i \in 1..n
      PROVE  IsFiniteSet(Earlier(i)) /\ Cardinality(Earlier(i)) \in Nat /\ Cardinality(Earlier(i)) < n
  <2>1. Earlier(i) \in SUBSET (1..n) /\ i \notin Earlier(i)
    BY <1>1
  <2> HIDE DEF Earlier
  <2>2. IsFiniteSet(Earlier(i)) /\ Earlier(i) # 1..n
    BY <1>2, <2>1, FS_Subset
  <2>3. Cardinality(Earlier(i)) \in Nat
    BY <2>2, FS_CardinalityType
  <2>4. Cardinality(Earlier(i)) =< n /\ (n = Cardinality(Earlier(i)) => 1..n = Earlier(i))
    BY <1>2, <2>1, FS_Subset
  <2> QED BY <2>2, <2>3, <2>4
<1>4. ASSUME NEW i \in 1..n, NEW j \in 1..n, j \in Earlier(i)
      PROVE  Place(j) < Place(i)
  <2>1. Earlier(j) \in SUBSET Earlier(i) /\ j \notin Earlier(j)
    <3>1. s[j] < s[i] \/ (s[j] = s[i] /\ j < i)
      BY <1>4
    <3>2. \A k \in Earlier(j) : k \in Earlier(i)
      <4> SUFFICES ASSUME NEW k \in Earlier(j) PROVE k \in Earlier(i)
        OBVIOUS
      <4>1. k \in 1..n /\ s[k] \in Int /\ s[j] \in Int /\ s[i] \in Int
        BY <1>1
      <4>2. s[k] < s[j] \/ (s[k] = s[j] /\ k < j)
        OBVIOUS
      <4>3. s[k] < s[i] \/ (s[k] = s[i] /\ k < i)
        BY <3>1, <4>1, <4>2
      <4> QED BY <1>1, <4>1, <4>3
    <3>3. j \notin Earlier(j)
      BY <1>1
    <3> QED BY <3>2, <3>3
  <2> HIDE DEF Earlier
  <2>2. Earlier(j) # Earlier(i)
    BY <1>4, <2>1
  <2>3. /\ Cardinality(Earlier(j)) =< Cardinality(Earlier(i))
        /\ Cardinality(Earlier(i)) = Cardinality(Earlier(j)) => Earlier(i) = Earlier(j)
    BY <1>3, <2>1, FS_Subset
  <2> QED BY <1>3, <2>2, <2>3
<1>5. \A i, j \in 1..n : i = j \/ i \in Earlier(j) \/ j \in Earlier(i)
  BY <1>1
<1>6. \A i \in 1..n : Place(i) \in 1..n
  <2> HIDE DEF Earlier
  <2> QED BY <1>3
<1> HIDE DEF Earlier, Place
<1>7. \A i, j \in 1..n : Place(i) = Place(j) => i = j
  <2> SUFFICES ASSUME NEW i \in 1..n, NEW j \in 1..n, Place(i) = Place(j) PROVE i = j
    OBVIOUS
  <2>1. ~(Place(i) < Place(j)) /\ ~(Place(j) < Place(i))
    BY <1>6
  <2> QED BY <1>4, <1>5, <2>1
<1>8. place \in Injection(1..n, 1..n)
  BY <1>6, <1>7 DEF Injection, IsInjective
<1>9. place \in Surjection(1..n, 1..n)
  <2> HIDE DEF place
  <2> QED BY <1>2, <1>8, FS_Injection
<1>10. \A k \in 1..n : \E i \in 1..n : Place(i) = k
  BY <1>9 DEF Surjection
<1>11. \A k \in 1..n : perm[k] \in 1..n /\ Place(perm[k]) = k
  BY <1>10
<1>12. \A k \in 1..n : perm[Place(k)] = k
  <2> HIDE DEF perm
  <2> QED BY <1>6, <1>7, <1>11
<1>13. Ascending(s) = [k \in 1..n |-> s[perm[k]]]
  BY <1>1 DEF Ascending, Place, Earlier
<1>14. \A k, l \in 1..n : k =< l => s[perm[k]] =< s[perm[l]]
  <2> SUFFICES ASSUME NEW k \in 1..n, NEW l \in 1..n, k =< l PROVE s[perm[k]] =< s[perm[l]]
    OBVIOUS
  <2>1. PICK i \in 1..n : i = perm[k] /\ Place(i) = k
    BY <1>11
  <2>2. PICK j \in 1..n : j = perm[l] /\ Place(j) = l
    BY <1>11
  <2>3. ~(j \in Earlier(i))
    BY <1>4, <2>1, <2>2
  <2>4. ~(s[j] < s[i])
    BY <1>1, <2>3 DEF Earlier
  <2>5. s[i] =< s[j]
    BY <1>1, <2>4
  <2> QED BY <2>1, <2>2, <2>5
<1>15. Sorting(s, n, perm, place)
  <2>1. perm \in [1..n -> 1..n] /\ place \in [1..n -> 1..n]
    BY <1>6, <1>11
  <2>2. \A k \in 1..n : place[perm[k]] = k /\ perm[place[k]] = k
    BY <1>6, <1>11, <1>12
  <2> HIDE DEF perm, place
  <2> QED BY <1>13, <1>14, <2>1, <2>2 DEF Sorting
<1> QED BY <1>15

\* Floors of quotients are in the order of the dividends.
LEMMA QuotientGrows ==
    ASSUME NEW a \in Int, NEW b \in Int, NEW n \in Nat \ {0}, a =< b
    PROVE  a \div n =< b \div n
<1>1. PICK x \in Int : x = a \div n /\ x * n =< a /\ a < x * n + n
  BY Division
<1>2. PICK y \in Int : y = b \div n /\ y * n =< b /\ b < y * n + n
  BY Division
<1>3. ASSUME y < x PROVE FALSE
  <2>1. y * n \in Int /\ x * n \in Int /\ y * n + n =< x * n
    BY <1>3, Product
  <2> QED BY <1>1, <1>2, <2>1
<1> QED BY <1>1, <1>2, <1>3

\* At most half a bucket apart; the one is doubled already.
Near(twice, v) == -Width =< twice - 2 * v /\ twice - 2 * v =< Width

\* The middle of the bucket of a value is within half a bucket of it.
LEMMA BucketIs ==
    ASSUME NEW v \in Lo..(Lo + NumBuckets * Width)
    PROVE  /\ BucketIndex(v) \in 0..(NumBuckets - 1)
           /\ Near(2 * Lo + (2 * BucketIndex(v) + 1) * Width, v)
<1>1. Lo \in Int /\ Width \in Nat \ {0} /\ NumBuckets \in Nat \ {0}
  BY InputsAssumption
<1>2. PICK wd \in Nat \ {0} : wd = Width
  BY <1>1
<1>3. PICK m \in Nat \ {0} : m = NumBuckets
  BY <1>1
<1>4. PICK top \in Int : top = m * wd
  OBVIOUS
<1>5. PICK a \in Int : a = v - Lo /\ v \in Int /\ 0 =< a /\ a =< top
  BY <1>1, <1>2, <1>3, <1>4
<1>6. PICK x \in Int : x = a \div wd /\ x * wd =< a /\ a < x * wd + wd
  BY Division
<1>7. PICK xw \in Int : xw = x * wd
  OBVIOUS
<1>8. x >= 0
  <2>1. ASSUME x < 0 PROVE FALSE
    <3>1. x * wd + wd =< 0 * wd /\ 0 * wd = 0
      BY <2>1, Product
    <3> QED BY <1>5, <1>6, <1>7, <3>1
  <2> QED BY <2>1
<1>9. BucketIndex(v) = IF x > m - 1 THEN m - 1 ELSE x
  BY <1>1, <1>2, <1>3, <1>5, <1>6 DEF BucketIndex
<1>10. CASE x =< m - 1
  <2>1. BucketIndex(v) = x
    BY <1>9, <1>10
  <2>2. (2 * x + 1) * wd = 2 * xw + wd
    BY <1>7
  <2>4. -wd =< 2 * xw + wd - 2 * a /\ 2 * xw + wd - 2 * a =< wd
    BY <1>5, <1>6, <1>7
  <2>5. PICK mid \in Int : /\ mid = 2 * Lo + (2 * BucketIndex(v) + 1) * Width
                         /\ mid = 2 * Lo + (2 * xw + wd)
    BY <1>1, <1>2, <2>1, <2>2
  <2>6. Near(2 * Lo + (2 * BucketIndex(v) + 1) * Width, v)
    <3>1. Near(mid, v)
      BY <1>1, <1>2, <1>5, <2>4, <2>5 DEF Near
    <3> QED BY <2>5, <3>1
  <2> QED BY <1>3, <1>8, <1>10, <2>1, <2>6
<1>11. CASE x > m - 1
  <2>1. BucketIndex(v) = m - 1 /\ m - 1 \in 0..(m - 1)
    BY <1>9, <1>11
  <2>2. PICK last \in Int : last = (m - 1) * wd
    OBVIOUS
  <2>3. last + wd = top
    BY <1>4, <2>2
  <2>4. last + wd =< xw
    BY <1>7, <1>11, <2>2, Product
  <2>5. a = top
    <3>1. xw =< a
      BY <1>6, <1>7
    <3>2. PICK h \in Int : h = top
      OBVIOUS
    <3>3. a =< h /\ h =< xw
      BY <1>5, <2>3, <2>4, <3>2
    <3> HIDE <1>6, <1>7
    <3> QED BY <3>1, <3>2, <3>3
  <2>6. (2 * (m - 1) + 1) * wd = 2 * last + wd
    BY <2>2
  <2>8. (2 * last + wd) - 2 * a = -wd
    BY <2>3, <2>5
  <2>9. PICK mid \in Int : /\ mid = 2 * Lo + (2 * BucketIndex(v) + 1) * Width
                         /\ mid = 2 * Lo + (2 * last + wd)
    BY <1>1, <1>2, <2>1, <2>6
  <2>10. Near(2 * Lo + (2 * BucketIndex(v) + 1) * Width, v)
    <3>1. Near(mid, v)
      BY <1>1, <1>2, <1>5, <2>8, <2>9 DEF Near
    <3> QED BY <2>9, <3>1
  <2> QED BY <1>3, <2>1, <2>10
<1> QED BY <1>10, <1>11

LEMMA BucketGrows ==
    ASSUME NEW v \in Lo..(Lo + NumBuckets * Width), NEW u \in Lo..(Lo + NumBuckets * Width), v =< u
    PROVE  BucketIndex(v) =< BucketIndex(u)
<1>1. Lo \in Int /\ Width \in Nat \ {0} /\ NumBuckets \in Nat \ {0}
  BY InputsAssumption
<1>2. v \in Int /\ u \in Int /\ v >= Lo /\ u >= Lo
  BY <1>1
<1>3. PICK a \in Int : a = v - Lo
  BY <1>1, <1>2
<1>4. PICK b \in Int : b = u - Lo
  BY <1>1, <1>2
<1>5. a =< b
  BY <1>1, <1>2, <1>3, <1>4
<1>6. PICK x \in Int : x = a \div Width
  BY <1>1, Division
<1>7. PICK y \in Int : y = b \div Width
  BY <1>1, Division
<1>8. x =< y
  BY <1>1, <1>5, <1>6, <1>7, QuotientGrows
<1>9. BucketIndex(v) = IF x > NumBuckets - 1 THEN NumBuckets - 1 ELSE x
  BY <1>1, <1>2, <1>3, <1>6 DEF BucketIndex
<1>10. BucketIndex(u) = IF y > NumBuckets - 1 THEN NumBuckets - 1 ELSE y
  BY <1>1, <1>2, <1>4, <1>7 DEF BucketIndex
<1> QED BY <1>1, <1>8, <1>9, <1>10

\* The rank is a place of the list.
LEMMA RankIs ==
    ASSUME NEW values, NEW n \in Nat \ {0}, Len(values) = n, NEW p \in Percents
    PROVE  TargetRank(values, p) \in 1..n
<1>1. TargetRank(values, p) = (p * n + 99) \div 100
  BY DEF TargetRank
<1>2. PICK q \in Int : q = p * n /\ n =< q /\ q =< 100 * n
  <2>1. p \in 1..100
    BY InputsAssumption
  <2>2. PICK d \in Nat, e \in Nat : p = 1 + d /\ 100 = p + e
    <3>1. p - 1 \in Nat /\ p = 1 + (p - 1) /\ 100 - p \in Nat /\ 100 = p + (100 - p)
      BY <2>1
    <3> QED BY <3>1
  <2>3. /\ (1 + d) * n = n + d * n /\ d * n \in Nat
        /\ (p + e) * n = p * n + e * n /\ e * n \in Nat /\ p * n \in Int
    BY <2>1
  <2> QED BY <2>2, <2>3
<1>3. (q + 99) \div 100 \in 1..n
  BY <1>2, SMTT(30)
<1> QED BY <1>1, <1>2, <1>3

\* The bucket that reaches the rank is that of the value at its place.
LEMMA BucketOfRank ==
    ASSUME NEW values \in Seq(Lo..(Lo + NumBuckets * Width)), NEW n \in Nat \ {0}, n = Len(values),
           NEW perm, NEW place, Sorting(values, n, perm, place), NEW p \in Percents,
           NEW t, t = TargetRank(values, p)
    PROVE  BucketPercentile(values, p) = BucketIndex(values[perm[t]])
<1> DEFINE Held(i) == {k \in DOMAIN values : BucketIndex(values[k]) =< i}
<1>1. t \in 1..n /\ t \in Nat
  BY RankIs
<1>2. PICK m \in Nat \ {0} : m = NumBuckets
  BY InputsAssumption
<1>3. \A k \in 1..n : /\ k \in DOMAIN values /\ values[k] \in Lo..(Lo + NumBuckets * Width)
                      /\ BucketIndex(values[k]) \in 0..(m - 1)
  <2> SUFFICES ASSUME NEW k \in 1..n
               PROVE  /\ k \in DOMAIN values /\ values[k] \in Lo..(Lo + NumBuckets * Width)
                      /\ BucketIndex(values[k]) \in 0..(m - 1)
    OBVIOUS
  <2>1. PICK Values : Values = Lo..(Lo + NumBuckets * Width)
    OBVIOUS
  <2>2. values \in Seq(Values) /\ DOMAIN values = 1..n
    BY <2>1
  <2>3. k \in DOMAIN values /\ values[k] \in Values
    BY <2>2
  <2>4. BucketIndex(values[k]) \in 0..(m - 1)
    BY <1>2, <2>1, <2>3, BucketIs
  <2> QED BY <2>1, <2>3, <2>4
<1>4. /\ \A k \in 1..n : perm[k] \in 1..n /\ place[k] \in 1..n /\ place[perm[k]] = k /\ perm[place[k]] = k
      /\ \A k, l \in 1..n : k =< l => values[perm[k]] =< values[perm[l]]
  BY DEF Sorting
<1>5. PICK b \in 0..(m - 1) : b = BucketIndex(values[perm[t]])
  BY <1>1, <1>3, <1>4
<1>6. \A k, l \in 1..n : k =< l => BucketIndex(values[perm[k]]) =< BucketIndex(values[perm[l]])
  BY <1>3, <1>4, BucketGrows
<1>7. ASSUME NEW i \in 0..(m - 1)
      PROVE  IsFiniteSet(Held(i)) /\ Cardinality(Held(i)) \in Nat
  <2>1. DOMAIN values = 1..n /\ 1 \in Int /\ n \in Int
    OBVIOUS
  <2>2. IsFiniteSet(1..n)
    BY <2>1, FS_Interval, Zenon
  <2>3. Held(i) \in SUBSET (1..n)
    BY <2>1
  <2> HIDE DEF Held
  <2> QED BY <2>2, <2>3, FS_Subset, FS_CardinalityType
<1>8. ASSUME NEW i \in 0..(m - 1), b =< i
      PROVE  Cardinality(Held(i)) >= t
  <2> DEFINE f == [k \in 1..t |-> perm[k]]
  <2>1. \A k \in 1..t : k \in 1..n /\ k =< t
    BY <1>1
  <2>2. \A k \in 1..t : f[k] \in Held(i)
    <3> SUFFICES ASSUME NEW k \in 1..t PROVE f[k] \in Held(i)
      OBVIOUS
    <3>1. perm[k] \in 1..n /\ BucketIndex(values[perm[k]]) \in Int
      BY <1>3, <1>4, <2>1
    <3>2. BucketIndex(values[perm[k]]) =< b
      BY <1>1, <1>5, <1>6, <2>1
    <3>3. BucketIndex(values[perm[k]]) =< i
      BY <1>8, <3>1, <3>2
    <3> QED BY <1>3, <3>1, <3>3
  <2>3. \A k, l \in 1..t : f[k] = f[l] => k = l
    BY <1>4, <2>1
  <2>4. f \in Injection(1..t, Held(i))
    <3> HIDE DEF Held
    <3> QED BY <2>2, <2>3 DEF Injection, IsInjective
  <2>5. Cardinality(1..t) = t
    <3>1. 1 \in Int /\ t \in Int /\ (IF 1 > t THEN 0 ELSE t - 1 + 1) = t
      BY <1>1
    <3>2. Cardinality(1..t) = IF 1 > t THEN 0 ELSE t - 1 + 1
      BY <3>1, FS_Interval, Zenon
    <3> QED BY <3>1, <3>2
  <2> HIDE DEF Held, f
  <2>6. t =< Cardinality(Held(i))
    BY <1>7, <2>4, <2>5, FS_Injection
  <2> QED BY <1>1, <1>7, <2>6
<1>9. ASSUME NEW i \in 0..(m - 1), i < b
      PROVE  Cardinality(Held(i)) < t
  <2> DEFINE f == [k \in Held(i) |-> place[k]]
  <2>1. \A k \in Held(i) : k \in 1..n /\ BucketIndex(values[k]) =< i
    OBVIOUS
  <2>2. \A k \in Held(i) : f[k] \in 1..(t - 1)
    <3> SUFFICES ASSUME NEW k \in Held(i) PROVE place[k] \in 1..(t - 1)
      OBVIOUS
    <3>1. k \in 1..n /\ place[k] \in 1..n /\ perm[place[k]] = k
      BY <1>4, <2>1
    <3>2. ASSUME t =< place[k] PROVE FALSE
      <4>1. b =< BucketIndex(values[k])
        BY <1>1, <1>5, <1>6, <3>1, <3>2
      <4>2. BucketIndex(values[k]) =< i /\ BucketIndex(values[k]) \in Int
        BY <1>3, <2>1
      <4> QED BY <1>9, <4>1, <4>2
    <3> QED BY <1>1, <3>1, <3>2
  <2>3. \A k, l \in Held(i) : f[k] = f[l] => k = l
    <3> SUFFICES ASSUME NEW k \in Held(i), NEW l \in Held(i), place[k] = place[l] PROVE k = l
      OBVIOUS
    <3>1. k \in 1..n /\ l \in 1..n
      BY <2>1
    <3> QED BY <1>4, <3>1
  <2>4. f \in Injection(Held(i), 1..(t - 1))
    <3> HIDE DEF Held
    <3> QED BY <2>2, <2>3 DEF Injection, IsInjective
  <2>5. IsFiniteSet(1..(t - 1)) /\ Cardinality(1..(t - 1)) = t - 1
    <3>1. 1 \in Int /\ t - 1 \in Int /\ (IF 1 > t - 1 THEN 0 ELSE (t - 1) - 1 + 1) = t - 1
      BY <1>1
    <3>2. IsFiniteSet(1..(t - 1)) /\ Cardinality(1..(t - 1)) = IF 1 > t - 1 THEN 0 ELSE (t - 1) - 1 + 1
      BY <3>1, FS_Interval, Zenon
    <3> QED BY <3>1, <3>2
  <2> HIDE DEF Held, f
  <2>6. Cardinality(Held(i)) =< t - 1
    BY <2>4, <2>5, FS_Injection
  <2> QED BY <1>1, <1>7, <2>6
<1> HIDE DEF Held
<1>10. Cardinality(Held(b)) >= t /\ \A j \in 0..(b - 1) : Cardinality(Held(j)) < t
  <2>1. \A j \in 0..(b - 1) : j \in 0..(m - 1) /\ j < b
    OBVIOUS
  <2> QED BY <1>8, <1>9, <2>1
<1>11. ASSUME NEW i \in 0..(m - 1), Cardinality(Held(i)) >= t,
              \A j \in 0..(i - 1) : Cardinality(Held(j)) < t
       PROVE  i = b
  <2>1. ~(i < b)
    BY <1>1, <1>7, <1>9, <1>11
  <2>2. ~(b < i)
    <3>1. ASSUME b < i PROVE FALSE
      <4>1. b \in 0..(i - 1)
        BY <3>1
      <4> QED BY <1>1, <1>7, <1>10, <1>11, <4>1
    <3> QED BY <3>1
  <2> QED BY <2>1, <2>2
<1>12. (CHOOSE i \in 0..(m - 1) : Cardinality(Held(i)) >= t /\ \A j \in 0..(i - 1) : Cardinality(Held(j)) < t) = b
  BY <1>10, <1>11
<1> QED BY <1>2, <1>5, <1>12 DEF BucketPercentile, Held

\* A part of the way from one value to the next, in hundredths.
Between(x, y, part) == x * 100 + part * (y - x)

LEMMA BetweenGrows ==
    ASSUME NEW x \in Int, NEW y \in Int, x =< y, NEW a \in Nat, NEW b \in Nat, a =< b, b =< 100
    PROVE  /\ Between(x, y, a) \in Int /\ Between(x, y, b) \in Int
           /\ 100 * x =< Between(x, y, a)
           /\ Between(x, y, a) =< Between(x, y, b)
           /\ Between(x, y, b) =< 100 * y
<1>1. PICK d \in Nat : d = y - x
  OBVIOUS
<1>2. PICK e \in Nat : b = a + e
  <2>1. b - a \in Nat /\ b = a + (b - a)
    OBVIOUS
  <2> QED BY <2>1
<1>3. PICK f \in Nat : 100 = b + f
  <2>1. 100 - b \in Nat /\ 100 = b + (100 - b)
    OBVIOUS
  <2> QED BY <2>1
<1>4. PICK ad \in Nat : ad = a * d
  OBVIOUS
<1>5. PICK ed \in Nat : ed = e * d
  OBVIOUS
<1>6. PICK fd \in Nat : fd = f * d
  OBVIOUS
<1>7. b * d = ad + ed /\ 100 * d = ad + ed + fd
  <2>1. (a + e) * d = a * d + e * d
    OBVIOUS
  <2>2. (a + e + f) * d = a * d + e * d + f * d
    OBVIOUS
  <2>3. 100 = a + e + f
    BY <1>2, <1>3
  <2> QED BY <1>2, <1>4, <1>5, <1>6, <2>1, <2>2, <2>3
<1>8. Between(x, y, a) = x * 100 + ad
  BY <1>1, <1>4 DEF Between
<1>9. Between(x, y, b) = x * 100 + (ad + ed)
  BY <1>1, <1>7 DEF Between
<1> QED BY <1>1, <1>7, <1>8, <1>9

\* What exact_percentile reads for a percentage: the place below the rank, the
\* one above it, and how far between.
ReadAt(values, n, perm, p, lo, part) ==
    /\ lo \in 0..(n - 1) /\ part \in 0..99
    /\ p * (n - 1) = 100 * lo + part
    /\ part = 0 => ExactPercentile(values, p) = 100 * values[perm[lo + 1]]
    /\ part # 0 => /\ lo + 2 \in 1..n
                   /\ ExactPercentile(values, p) =
                        Between(values[perm[lo + 1]], values[perm[lo + 2]], part)

LEMMA ExactReads ==
    ASSUME NEW values \in Seq(Int), NEW n \in Nat \ {0}, n = Len(values),
           NEW perm, NEW place, Sorting(values, n, perm, place), NEW p \in 0..100
    PROVE  \E lo, part : ReadAt(values, n, perm, p, lo, part)
<1>1. PICK r \in Nat : r = p * (n - 1) /\ r =< 100 * (n - 1)
  <2>1. PICK d \in Nat : d = n - 1
    OBVIOUS
  <2>2. PICK f \in Nat : 100 = p + f
    <3>1. 100 - p \in Nat /\ 100 = p + (100 - p)
      OBVIOUS
    <3> QED BY <3>1
  <2>3. (p + f) * d = p * d + f * d /\ p * d \in Nat /\ f * d \in Nat
    OBVIOUS
  <2> QED BY <2>1, <2>2, <2>3
<1>2. PICK lo \in Int : lo = r \div 100
  OBVIOUS
<1>3. PICK part \in 0..99 : part = r % 100
  OBVIOUS
<1>4. r = 100 * lo + part
  BY <1>2, <1>3
<1>5. lo \in 0..(n - 1) /\ (part # 0 => lo + 1 \in 0..(n - 1))
  BY <1>1, <1>4
<1>6. \A k \in 1..n : perm[k] \in 1..n /\ values[perm[k]] \in Int
  BY DEF Sorting
<1>7. Ascending(values) = [k \in 1..n |-> values[perm[k]]] /\ Len(Ascending(values)) = n
  BY DEF Sorting
<1> DEFINE s == Ascending(values)
           hi == IF part = 0 THEN lo ELSE lo + 1
<1>8. ExactPercentile(values, p) = s[lo + 1] * 100 + part * (s[hi + 1] - s[lo + 1])
  BY <1>1, <1>2, <1>3, <1>7 DEF ExactPercentile
<1>9. s[lo + 1] = values[perm[lo + 1]] /\ values[perm[lo + 1]] \in Int
  BY <1>5, <1>6, <1>7
<1>10. part = 0 => ExactPercentile(values, p) = 100 * values[perm[lo + 1]]
  <2> SUFFICES ASSUME part = 0 PROVE ExactPercentile(values, p) = 100 * values[perm[lo + 1]]
    OBVIOUS
  <2>1. hi = lo
    OBVIOUS
  <2> HIDE DEF hi, s
  <2>2. ExactPercentile(values, p) = s[lo + 1] * 100 + 0 * (s[lo + 1] - s[lo + 1])
    BY <1>8, <2>1
  <2> QED BY <1>9, <2>2
<1>11. part # 0 => /\ lo + 2 \in 1..n
                   /\ ExactPercentile(values, p) =
                        Between(values[perm[lo + 1]], values[perm[lo + 2]], part)
  <2> SUFFICES ASSUME part # 0
               PROVE  /\ lo + 2 \in 1..n
                      /\ ExactPercentile(values, p) =
                           Between(values[perm[lo + 1]], values[perm[lo + 2]], part)
    OBVIOUS
  <2>1. hi + 1 = lo + 2 /\ lo + 2 \in 1..n
    BY <1>5
  <2>2. s[lo + 2] = values[perm[lo + 2]]
    BY <1>7, <2>1
  <2> HIDE DEF hi, s
  <2> QED BY <1>8, <1>9, <2>1, <2>2 DEF Between
<1> HIDE DEF s, hi
<1>12. ReadAt(values, n, perm, p, lo, part)
  BY <1>1, <1>4, <1>5, <1>10, <1>11 DEF ReadAt
<1> QED BY <1>12

\* A greater percentage reads no less.
LEMMA ExactGrows ==
    ASSUME NEW values \in Seq(Int), NEW n \in Nat \ {0}, n = Len(values),
           NEW perm, NEW place, Sorting(values, n, perm, place),
           NEW p \in 0..100, NEW q \in 0..100, p =< q
    PROVE  ExactPercentile(values, p) =< ExactPercentile(values, q)
<1>1. PICK lo, part : ReadAt(values, n, perm, p, lo, part)
  BY ExactReads
<1>2. PICK ql, qart : ReadAt(values, n, perm, q, ql, qart)
  BY ExactReads
<1>3. /\ lo \in 0..(n - 1) /\ part \in 0..99 /\ part \in Nat /\ part =< 100
      /\ ql \in 0..(n - 1) /\ qart \in 0..99 /\ qart \in Nat /\ qart =< 100
  <2>1. lo \in 0..(n - 1) /\ part \in 0..99 /\ ql \in 0..(n - 1) /\ qart \in 0..99
    BY <1>1, <1>2 DEF ReadAt
  <2> QED BY <2>1
<1>4. 100 * lo + part =< 100 * ql + qart
  <2>1. PICK d \in Nat : d = n - 1
    OBVIOUS
  <2>2. PICK f \in Nat : q = p + f
    <3>1. q - p \in Nat /\ q = p + (q - p)
      OBVIOUS
    <3> QED BY <3>1
  <2>3. (p + f) * d = p * d + f * d /\ p * d \in Nat /\ f * d \in Nat
    OBVIOUS
  <2>4. p * d =< q * d
    BY <2>2, <2>3
  <2>5. p * (n - 1) = 100 * lo + part /\ q * (n - 1) = 100 * ql + qart
    BY <1>1, <1>2 DEF ReadAt
  <2> QED BY <2>1, <2>4, <2>5
<1> DEFINE at == [k \in 1..n |-> values[perm[k]]]
<1>5. /\ \A k \in 1..n : at[k] \in Int /\ at[k] = values[perm[k]]
      /\ \A k, l \in 1..n : k =< l => at[k] =< at[l]
  <2>1. /\ \A k \in 1..n : perm[k] \in 1..n
        /\ \A k, l \in 1..n : k =< l => values[perm[k]] =< values[perm[l]]
    BY DEF Sorting
  <2>2. \A k \in 1..n : values[k] \in Int
    OBVIOUS
  <2>3. \A k \in 1..n : at[k] = values[perm[k]]
    OBVIOUS
  <2> HIDE DEF at
  <2> QED BY <2>1, <2>2, <2>3
<1> HIDE DEF at
<1>6. lo + 1 \in 1..n /\ ql + 1 \in 1..n
  BY <1>3
<1>7. /\ part = 0 => ExactPercentile(values, p) = 100 * at[lo + 1]
      /\ part # 0 => lo + 2 \in 1..n /\ ExactPercentile(values, p) = Between(at[lo + 1], at[lo + 2], part)
  BY <1>1, <1>5, <1>6 DEF ReadAt
<1>8. /\ qart = 0 => ExactPercentile(values, q) = 100 * at[ql + 1]
      /\ qart # 0 => ql + 2 \in 1..n /\ ExactPercentile(values, q) = Between(at[ql + 1], at[ql + 2], qart)
  BY <1>2, <1>5, <1>6 DEF ReadAt
<1>9. PICK x \in Int, y \in Int : x = at[lo + 1] /\ y = at[ql + 1]
  BY <1>5, <1>6
<1>10. ExactPercentile(values, q) \in Int /\ 100 * y =< ExactPercentile(values, q)
  <2>1. CASE qart = 0
    BY <1>8, <1>9, <2>1
  <2>2. CASE qart # 0
    <3>0. ql + 2 \in 1..n /\ ql + 1 =< ql + 2
      BY <1>3, <1>8, <2>2
    <3>1. PICK z \in Int : z = at[ql + 2] /\ y =< z
      BY <1>5, <1>6, <1>9, <3>0
    <3>2. Between(y, z, qart) \in Int /\ 100 * y =< Between(y, z, qart)
      <4>1. qart \in Nat /\ qart =< qart /\ qart =< 100
        BY <1>3
      <4> QED BY <3>1, <4>1, BetweenGrows
    <3> QED BY <1>8, <1>9, <2>2, <3>1, <3>2
  <2> QED BY <2>1, <2>2
<1>11. CASE lo = ql
  <2>1. part =< qart /\ part \in Nat /\ qart \in Nat /\ qart =< 100
    BY <1>3, <1>4, <1>11
  <2>2. CASE part = 0
    BY <1>7, <1>9, <1>10, <1>11, <2>2
  <2>3. CASE part # 0
    <3>1. qart # 0 /\ lo + 2 \in 1..n /\ ql + 2 \in 1..n
      BY <1>7, <1>11, <2>1, <2>3
    <3>0. lo + 1 =< lo + 2
      BY <1>3
    <3>2. PICK z \in Int : z = at[lo + 2] /\ x =< z
      BY <1>5, <1>6, <1>9, <3>0, <3>1
    <3>3. Between(x, z, part) =< Between(x, z, qart)
      BY <2>1, <3>2, BetweenGrows
    <3>4. ExactPercentile(values, p) = Between(x, z, part)
      BY <1>7, <1>9, <2>3, <3>2
    <3>5. ExactPercentile(values, q) = Between(x, z, qart)
      BY <1>8, <1>9, <1>11, <3>1, <3>2
    <3> QED BY <3>3, <3>4, <3>5
  <2> QED BY <2>2, <2>3
<1>12. CASE lo # ql
  <2>3. lo < ql
    BY <1>3, <1>4, <1>12
  <2>1. lo < ql /\ lo + 2 =< ql + 1 /\ lo + 2 \in 1..n
    BY <1>3, <2>3
  <2>0. lo + 1 =< lo + 2
    BY <1>3
  <2>2. PICK z \in Int : z = at[lo + 2] /\ x =< z /\ z =< y
    <3>1. at[lo + 2] \in Int /\ at[lo + 1] =< at[lo + 2]
      BY <1>5, <1>6, <2>0, <2>1
    <3>2. at[lo + 2] =< at[ql + 1]
      BY <1>5, <1>6, <2>1
    <3> QED BY <1>9, <3>1, <3>2
  <2>4. ExactPercentile(values, p) \in Int /\ ExactPercentile(values, p) =< 100 * y
    <3>1. CASE part = 0
      BY <1>7, <1>9, <2>2, <3>1
    <3>2. CASE part # 0
      <4>0. part \in Nat /\ part =< part /\ part =< 100
        BY <1>3
      <4>1. Between(x, z, part) \in Int /\ Between(x, z, part) =< 100 * z
        BY <2>2, <4>0, BetweenGrows
      <4> QED BY <1>7, <1>9, <2>2, <3>2, <4>1
    <3> QED BY <3>1, <3>2
  <2> QED BY <1>10, <2>4
<1> QED BY <1>11, <1>12

\* At 0 the least value, at 100 the greatest.
LEMMA ExactEnds ==
    ASSUME NEW values \in Seq(Int), NEW n \in Nat \ {0}, n = Len(values),
           NEW perm, NEW place, Sorting(values, n, perm, place)
    PROVE  /\ ExactPercentile(values, 0) = 100 * values[perm[1]]
           /\ ExactPercentile(values, 100) = 100 * values[perm[n]]
<1>1. ASSUME NEW p \in {0, 100}, NEW k \in 0..(n - 1), p * (n - 1) = 100 * k
      PROVE  ExactPercentile(values, p) = 100 * values[perm[k + 1]]
  <2>0. p \in 0..100
    OBVIOUS
  <2>1. PICK lo, part : ReadAt(values, n, perm, p, lo, part)
    BY <2>0, ExactReads
  <2>2. lo \in 0..(n - 1) /\ part \in 0..99 /\ 100 * k = 100 * lo + part
    BY <1>1, <2>1 DEF ReadAt
  <2>3. lo = k /\ part = 0
    BY <2>2
  <2> QED BY <2>1, <2>3 DEF ReadAt
<1>2. ExactPercentile(values, 0) = 100 * values[perm[0 + 1]]
  <2>1. 0 \in 0..(n - 1) /\ 0 * (n - 1) = 100 * 0
    OBVIOUS
  <2> QED BY <1>1, <2>1
<1>3. ExactPercentile(values, 100) = 100 * values[perm[(n - 1) + 1]]
  <2>1. n - 1 \in 0..(n - 1)
    OBVIOUS
  <2> QED BY <1>1, <2>1
<1> QED BY <1>2, <1>3

LEMMA SeqWider ==
    ASSUME NEW S, NEW T, S \subseteq T, NEW s \in Seq(S)
    PROVE  s \in Seq(T)
OBVIOUS

LEMMA ClampedBucket ==
    ASSUME NEW v \in Int
    PROVE  Clamped(v) \in Lo..(Lo + NumBuckets * Width) /\ BucketIndex(Clamped(v)) = BucketIndex(v)
<1>1. PICK low \in Int, wd \in Nat \ {0}, m \in Nat \ {0} : low = Lo /\ wd = Width /\ m = NumBuckets
  BY InputsAssumption
<1>2. PICK top \in Nat : top = m * wd
  OBVIOUS
<1>3. Clamped(v) = IF v < low THEN low ELSE IF v > low + top THEN low + top ELSE v
  BY <1>1, <1>2 DEF Clamped
<1>4. \A u : BucketIndex(u) = IF (IF u < low THEN 0 ELSE (u - low) \div wd) > m - 1 THEN m - 1
                              ELSE IF u < low THEN 0 ELSE (u - low) \div wd
  BY <1>1 DEF BucketIndex
<1>5. ASSUME NEW a \in Int, a >= top PROVE a \div wd > m - 1
  <2>1. PICK x \in Int : x = a \div wd /\ x * wd =< a /\ a < x * wd + wd
    BY Division
  <2>2. ASSUME x =< m - 1 PROVE FALSE
    <3>1. PICK xw \in Int : xw = x * wd
      OBVIOUS
    <3>2. x < m
      BY <2>2
    <3>3. xw + wd =< top
      BY <1>2, <3>1, <3>2, Product
    <3> QED BY <1>5, <2>1, <3>1, <3>3
  <2> QED BY <2>1, <2>2
<1>6. CASE v < low
  <2>1. 0 \div wd = 0
    <3>1. PICK x \in Int : x = 0 \div wd /\ x * wd =< 0 /\ 0 < x * wd + wd
      BY Division
    <3>2. ASSUME 0 < x PROVE FALSE
      <4>1. 0 * wd + wd =< x * wd /\ 0 * wd = 0
        BY <3>2, Product
      <4> QED BY <3>1, <4>1
    <3>3. ASSUME x < 0 PROVE FALSE
      <4>1. x * wd + wd =< 0 * wd /\ 0 * wd = 0
        BY <3>3, Product
      <4> QED BY <3>1, <4>1
    <3> QED BY <3>1, <3>2, <3>3
  <2>2. Clamped(v) = low /\ low - low = 0
    BY <1>3, <1>6
  <2>3. BucketIndex(low) = 0 /\ BucketIndex(v) = 0
    BY <1>4, <1>6, <2>1, <2>2
  <2> QED BY <1>1, <1>2, <2>2, <2>3
<1>7. CASE v > low + top
  <2>1. Clamped(v) = low + top /\ (low + top) - low = top /\ v - low >= top
    BY <1>3, <1>7
  <2>2. top \div wd > m - 1 /\ (v - low) \div wd > m - 1
    BY <1>5, <2>1
  <2>3. BucketIndex(low + top) = m - 1 /\ BucketIndex(v) = m - 1
    BY <1>4, <1>7, <2>1, <2>2
  <2> QED BY <1>1, <1>2, <2>1, <2>3
<1>8. CASE ~(v < low) /\ ~(v > low + top)
  BY <1>1, <1>2, <1>3, <1>8
<1> QED BY <1>6, <1>7, <1>8

\* A percentage of n values falls lo values after the first, and part hundredths more.
FallsAt(p, n, lo, part) ==
    lo \in Int /\ part \in 0..99 /\ p * (n - 1) = 100 * lo + part

\* The rank of the histogram is one of the two places exact_percentile reads.
LEMMA RankIsRead ==
    ASSUME NEW values, NEW n \in Nat \ {0}, Len(values) = n, NEW p \in Percents,
           NEW lo, NEW part, FallsAt(p, n, lo, part)
    PROVE  /\ TargetRank(values, p) = lo + 1 \/ TargetRank(values, p) = lo + 2
           /\ part = 0 => TargetRank(values, p) = lo + 1
<1>0. lo \in Int /\ part \in 0..99 /\ p * (n - 1) = 100 * lo + part
  BY DEF FallsAt
<1>1. TargetRank(values, p) = (p * n + 99) \div 100
  BY DEF TargetRank
<1>2. p \in 1..100
  BY InputsAssumption
<1>3. PICK q \in Int : q = p * n /\ q = p + 100 * lo + part
  <2>1. p * n = p + p * (n - 1)
    BY <1>2
  <2> QED BY <1>0, <1>2, <2>1
<1>4. /\ (q + 99) \div 100 = lo + 1 \/ (q + 99) \div 100 = lo + 2
      /\ part = 0 => (q + 99) \div 100 = lo + 1
  BY <1>0, <1>2, <1>3, SMTT(30)
<1> QED BY <1>1, <1>3, <1>4

\* Half a bucket, doubled and in hundredths, and the gap between two neighbours:
\* the one is as far from the other at most, if it is near one of the two.
LEMMA NearNeighbour ==
    ASSUME NEW wd \in Nat, NEW x \in Int, NEW y \in Int, x =< y, NEW v \in {x, y}, NEW twice \in Int,
           -wd =< twice - 2 * v, twice - 2 * v =< wd, NEW e \in Int, 100 * x =< e, e =< 100 * y
    PROVE  /\ -(50 * wd + 100 * (y - x)) =< 50 * twice - e
           /\ 50 * twice - e =< 50 * wd + 100 * (y - x)
OBVIOUS

\* The histogram and the exact percentile are half a bucket and the gap between two
\* neighbours apart at most; the exact one goes from the least value to the greatest.
THEOREM Percentiles_near ==
    ASSUME NEW values \in Seq(Int)
    PROVE  RanksAgree(values)
<1> SUFFICES ASSUME values # <<>> PROVE RanksAgree(values)
  BY DEF RanksAgree
<1>1. Lo \in Int /\ Width \in Nat \ {0} /\ NumBuckets \in Nat \ {0} /\ Percents \subseteq 1..100
  BY InputsAssumption
<1>2. PICK Values : Values = Lo..(Lo + NumBuckets * Width)
  OBVIOUS
<1>3. PICK n \in Nat \ {0} : n = Len(values) /\ DOMAIN values = 1..n
  OBVIOUS
<1> DEFINE inside == [i \in DOMAIN values |-> Clamped(values[i])]
<1>4. /\ inside \in Seq(Values) /\ Len(inside) = n /\ DOMAIN inside = 1..n
      /\ \A k \in 1..n : BucketIndex(inside[k]) = BucketIndex(values[k])
  <2>1. \A k \in 1..n : Clamped(values[k]) \in Values /\ BucketIndex(Clamped(values[k])) = BucketIndex(values[k])
    <3> TAKE k \in 1..n
    <3>1. PICK v \in Int : v = values[k]
      BY <1>3
    <3>2. Clamped(v) \in Lo..(Lo + NumBuckets * Width) /\ BucketIndex(Clamped(v)) = BucketIndex(v)
      BY ClampedBucket
    <3> QED BY <1>2, <3>1, <3>2, Zenon
  <2> QED BY <1>3, <2>1
<1> HIDE DEF inside
<1>5. inside \in Seq(Int)
  <2>1. Values \subseteq Int
    BY <1>1, <1>2
  <2> QED BY <1>4, <2>1, SeqWider
<1>6. PICK perm, place : Sorting(inside, n, perm, place)
  BY <1>4, <1>5, SortingOf
<1>7. /\ \A k \in 1..n : perm[k] \in 1..n /\ inside[perm[k]] \in Values
      /\ Ascending(inside) = [k \in 1..n |-> inside[perm[k]]]
      /\ \A k, l \in 1..n : k =< l => inside[perm[k]] =< inside[perm[l]]
  <2>1. \A k \in 1..n : perm[k] \in 1..n
    BY <1>6 DEF Sorting
  <2>2. \A k \in 1..n : inside[k] \in Values
    BY <1>4
  <2> QED BY <1>6, <2>1, <2>2 DEF Sorting
<1>8. ASSUME NEW p \in Percents
      PROVE  LET distance == 50 * TwicePercentile(values, p) - ExactPercentile(inside, p)
                 most == 50 * Width + 100 * NeighbourGap(inside, p)
             IN -most =< distance /\ distance =< most
  <2>1. TargetRank(values, p) = TargetRank(inside, p)
    BY <1>3, <1>4 DEF TargetRank
  <2>2. BucketPercentile(values, p) = BucketPercentile(inside, p)
    <3>1. \A i : {k \in DOMAIN values : BucketIndex(values[k]) =< i}
                   = {k \in DOMAIN inside : BucketIndex(inside[k]) =< i}
      BY <1>3, <1>4
    <3> QED BY <2>1, <3>1 DEF BucketPercentile
  <2>3. PICK t \in 1..n : t = TargetRank(inside, p)
    BY <1>4, RankIs
  <2>4. PICK v \in Values : v = inside[perm[t]]
    BY <1>7
  <2>5. BucketPercentile(inside, p) = BucketIndex(v)
    BY <1>2, <1>4, <1>6, <2>3, <2>4, BucketOfRank
  <2>6. v \in Lo..(Lo + NumBuckets * Width)
    BY <1>2
  <2>7. Near(TwicePercentile(values, p), v)
    <3>1. Near(2 * Lo + (2 * BucketIndex(v) + 1) * Width, v)
      BY <2>6, BucketIs, Zenon
    <3>2. TwicePercentile(values, p) = 2 * Lo + (2 * BucketIndex(v) + 1) * Width
      BY <2>2, <2>5, Zenon DEF TwicePercentile
    <3> QED BY <3>1, <3>2, Zenon
  <2>8. PICK twice \in Int : twice = TwicePercentile(values, p)
    <3>1. BucketIndex(v) \in Int
      <4>1. BucketIndex(v) \in 0..(NumBuckets - 1)
        BY <2>6, BucketIs, Zenon
      <4> QED BY <1>1, <4>1
    <3>2. TwicePercentile(values, p) = 2 * Lo + (2 * BucketIndex(v) + 1) * Width
      BY <2>2, <2>5, Zenon DEF TwicePercentile
    <3>3. 2 * Lo + (2 * BucketIndex(v) + 1) * Width \in Int
      BY <1>1, <3>1
    <3> QED BY <3>2, <3>3
  <2>9. PICK lo, part : ReadAt(inside, n, perm, p, lo, part)
    <3>1. p \in 0..100
      BY <1>1
    <3> QED BY <1>4, <1>5, <1>6, <3>1, ExactReads
  <2>10. /\ lo \in 0..(n - 1) /\ part \in 0..99 /\ p * (n - 1) = 100 * lo + part
         /\ part # 0 => lo + 2 \in 1..n
    BY <2>9 DEF ReadAt
  <2>11. t \in {lo + 1, IF part = 0 THEN lo + 1 ELSE lo + 2}
    <3>1. FallsAt(p, n, lo, part)
      BY <2>10 DEF FallsAt
    <3>2. Len(inside) = n
      BY <1>4
    <3>3. /\ TargetRank(inside, p) = lo + 1 \/ TargetRank(inside, p) = lo + 2
          /\ part = 0 => TargetRank(inside, p) = lo + 1
      BY <3>1, <3>2, RankIsRead, Zenon
    <3>4. (t = lo + 1 \/ t = lo + 2) /\ (part = 0 => t = lo + 1)
      BY <2>3, <3>3, Zenon
    <3> QED BY <3>4
  <2> DEFINE up == IF part = 0 THEN lo + 1 ELSE lo + 2
  <2>12. lo + 1 \in 1..n /\ up \in 1..n /\ lo + 1 =< up
    BY <2>10
  <2>13. PICK x \in Int, y \in Int : x = inside[perm[lo + 1]] /\ y = inside[perm[up]] /\ x =< y /\ v \in {x, y}
    <3>1. \A k \in 1..n : inside[perm[k]] \in Int
      BY <1>1, <1>2, <1>7
    <3> HIDE DEF up
    <3>2. inside[perm[lo + 1]] =< inside[perm[up]]
      BY <1>7, <2>12
    <3>3. t = lo + 1 \/ t = up
      BY <2>11 DEF up
    <3>4. v = inside[perm[lo + 1]] \/ v = inside[perm[up]]
      BY <2>4, <3>3
    <3> QED BY <2>12, <3>1, <3>2, <3>4
  <2>14. PICK e \in Int : e = ExactPercentile(inside, p) /\ 100 * x =< e /\ e =< 100 * y
    <3>1. CASE part = 0
      <4>1. ExactPercentile(inside, p) = 100 * x
        BY <2>9, <2>13, <3>1 DEF ReadAt
      <4>2. x = y
        BY <2>13, <3>1
      <4> QED BY <4>1, <4>2
    <3>2. CASE part # 0
      <4>1. ExactPercentile(inside, p) = Between(x, y, part)
        BY <2>9, <2>13, <3>2 DEF ReadAt
      <4>2. part \in Nat /\ part =< part /\ part =< 100
        BY <2>10
      <4>3. x =< y
        BY <2>13, Zenon
      <4>4. Between(x, y, part) \in Int /\ 100 * x =< Between(x, y, part) /\ Between(x, y, part) =< 100 * y
        BY <4>2, <4>3, BetweenGrows, Zenon
      <4> QED BY <4>1, <4>4
    <3> QED BY <3>1, <3>2
  <2>15. NeighbourGap(inside, p) = y - x
    <3>1. PICK rank \in Int : rank = p * (n - 1) /\ rank % 100 = part /\ rank \div 100 = lo
      <4>1. p * (n - 1) \in Int
        BY <1>1
      <4>2. (100 * lo + part) % 100 = part /\ (100 * lo + part) \div 100 = lo
        BY <2>10, SMTT(30)
      <4> QED BY <2>10, <4>1, <4>2
    <3>2. Len(Ascending(inside)) = n
      BY <1>7
    <3>3. NeighbourGap(inside, p) = IF part = 0 THEN 0 ELSE Ascending(inside)[lo + 2] - Ascending(inside)[lo + 1]
      BY <3>1, <3>2 DEF NeighbourGap
    <3>4. CASE part = 0
      BY <2>13, <3>3, <3>4
    <3>5. CASE part # 0
      <4>1. Ascending(inside)[lo + 2] = y /\ Ascending(inside)[lo + 1] = x
        BY <1>7, <2>10, <2>12, <2>13, <3>5
      <4> QED BY <3>3, <3>5, <4>1
    <3> QED BY <3>4, <3>5
  <2>16. PICK wd \in Nat : wd = Width
    BY <1>1
  <2>17. -wd =< twice - 2 * v /\ twice - 2 * v =< wd
    BY <2>7, <2>8, <2>16 DEF Near
  <2>18. /\ -(50 * wd + 100 * (y - x)) =< 50 * twice - e
         /\ 50 * twice - e =< 50 * wd + 100 * (y - x)
    <3>1. x =< y /\ v \in {x, y} /\ 100 * x =< e /\ e =< 100 * y
      BY <2>13, <2>14, Zenon
    <3> QED BY <2>17, <3>1, NearNeighbour, Zenon
  <2> QED BY <2>8, <2>14, <2>15, <2>16, <2>18, Zenon
<1>9. PICK sorted, at : Sorting(values, n, sorted, at)
  BY <1>3, SortingOf
<1>10. /\ ExactPercentile(values, 0) = 100 * Ascending(values)[1]
       /\ ExactPercentile(values, 100) = 100 * Last(Ascending(values))
  <2>1. Ascending(values) = [k \in 1..n |-> values[sorted[k]]] /\ 1 \in 1..n /\ n \in 1..n
    BY <1>9 DEF Sorting
  <2>2. Len(Ascending(values)) = n
    BY <2>1
  <2>3. Last(Ascending(values)) = values[sorted[n]] /\ Ascending(values)[1] = values[sorted[1]]
    BY <2>1, <2>2 DEF Last
  <2>4. ExactPercentile(values, 0) = 100 * values[sorted[1]] /\ ExactPercentile(values, 100) = 100 * values[sorted[n]]
    BY <1>3, <1>9, ExactEnds
  <2> QED BY <2>3, <2>4
<1>11. ASSUME NEW p \in {0} \cup Percents, NEW q \in {0} \cup Percents, p =< q
       PROVE  ExactPercentile(values, p) =< ExactPercentile(values, q)
  <2>1. p \in 0..100 /\ q \in 0..100
    BY <1>1
  <2> QED BY <1>3, <1>9, <1>11, <2>1, ExactGrows
<1> QED BY <1>8, <1>10, <1>11 DEF RanksAgree, inside

-----------------------------------------------------------------------------
(* Sums and loops over a list, and the increase of a counter *)

Totals(f, s, n) ==
    /\ f \in [0..n -> Int] /\ f[0] = 0 /\ SumOf(s) = f[n]
    /\ \A k \in 1..n : f[k] = f[k - 1] + s[k]

\* What a list of numbers sums to: what the numbers add to zero, one by one.
LEMMA SumsTo ==
    ASSUME NEW s \in Seq(Int), NEW n \in Nat, n = Len(s),
           NEW f \in [0..n -> Int], f[0] = 0, \A k \in 1..n : f[k] = f[k - 1] + s[k]
    PROVE  SumOf(s) = f[n]
<1> DEFINE Adds(g) == g = [k \in 0..Len(s) |-> IF k = 0 THEN 0 ELSE g[k - 1] + s[k]]
           total == CHOOSE g : Adds(g)
<1>1. \A k \in 0..n : k # 0 => k \in 1..n
  OBVIOUS
<1>2. Adds(f)
  <2>1. \A k \in 0..n : f[k] = IF k = 0 THEN 0 ELSE f[k - 1] + s[k]
    BY <1>1
  <2>2. f = [k \in 0..n |-> f[k]]
    OBVIOUS
  <2> QED BY <2>1, <2>2
<1>3. Adds(total)
  <2> HIDE DEF Adds
  <2> QED BY <1>2, Zenon
<1>4. SumOf(s) = total[Len(s)]
  BY DEF SumOf
<1>5. total[0] = 0 /\ \A k \in 1..n : total[k] = total[k - 1] + s[k]
  <2>1. 0 \in 0..n /\ \A k \in 1..n : k \in 0..n /\ k # 0
    OBVIOUS
  <2> HIDE DEF total
  <2> QED BY <1>3, <2>1
<1> HIDE DEF total
<1> DEFINE S == {k \in 0..n : total[k] = f[k]}
<1>6. 0 \in S
  BY <1>5
<1>7. \A k \in 1..n : k - 1 \in S => k \in S
  BY <1>5
<1>8. n \in S
  <2> HIDE DEF S
  <2>1. n \in 0..n
    OBVIOUS
  <2> QED BY <1>6, <1>7, <2>1, Reached
<1> QED BY <1>4, <1>8

LEMMA Summed ==
    ASSUME NEW s \in Seq(Int), NEW n \in Nat, n = Len(s)
    PROVE  \E f : Totals(f, s, n)
<1> DEFINE turn == [k \in 1..n |-> [v \in Int |-> v + s[k]]]
<1>1. turn \in [1..n -> [Int -> Int]]
  <2>1. \A k \in 1..n : s[k] \in Int
    OBVIOUS
  <2> QED BY <2>1
<1>2. \A k \in 1..n : \A v \in Int : turn[k][v] = v + s[k]
  OBVIOUS
<1> HIDE DEF turn
<1>3. PICK f \in [0..n -> Int] : f[0] = 0 /\ \A k \in 1..n : f[k] = turn[k][f[k - 1]]
  <2>0. 0 \in Int
    OBVIOUS
  <2>1. PICK f : LoopOf(f, n, Int, 0, turn)
    BY <1>1, <2>0, LoopRuns, Zenon
  <2> QED BY <2>1 DEF LoopOf
<1>4. \A k \in 1..n : f[k] = f[k - 1] + s[k]
  <2>1. \A k \in 1..n : f[k - 1] \in Int
    OBVIOUS
  <2> QED BY <1>2, <1>3, <2>1
<1>5. SumOf(s) = f[n]
  BY <1>3, <1>4, SumsTo
<1> QED BY <1>3, <1>4, <1>5 DEF Totals

LEMMA SumGrows ==
    ASSUME NEW s \in Seq(Int), NEW x \in Int
    PROVE  /\ SumOf(<<>>) = 0 /\ SumOf(s) \in Int
           /\ SumOf(Append(s, x)) = SumOf(s) + x
<1>1. PICK n \in Nat : n = Len(s)
  OBVIOUS
<1>2. PICK f \in [0..n -> Int] : f[0] = 0 /\ SumOf(s) = f[n] /\ \A k \in 1..n : f[k] = f[k - 1] + s[k]
  <2>1. PICK f : Totals(f, s, n)
    BY <1>1, Summed
  <2> QED BY <2>1 DEF Totals
<1>3. SumOf(s) \in Int
  BY <1>2
<1>4. SumOf(<<>>) = 0
  <2>1. PICK g \in [0..0 -> Int] : g[0] = 0 /\ SumOf(<<>>) = g[0]
    <3>1. <<>> \in Seq(Int) /\ 0 = Len(<<>>) /\ 0 \in Nat
      OBVIOUS
    <3>2. PICK g : Totals(g, <<>>, 0)
      BY <3>1, Summed, Zenon
    <3> QED BY <3>2 DEF Totals
  <2> QED BY <2>1
<1> DEFINE longer == Append(s, x)
           g == [k \in 0..(n + 1) |-> IF k = n + 1 THEN f[n] + x ELSE f[k]]
<1>5. longer \in Seq(Int) /\ n + 1 = Len(longer) /\ n + 1 \in Nat
      /\ longer[n + 1] = x /\ \A k \in 1..n : longer[k] = s[k]
  BY <1>1
<1>6. g \in [0..(n + 1) -> Int] /\ g[0] = 0 /\ g[n + 1] = f[n] + x
  <2>1. f[n] + x \in Int
    OBVIOUS
  <2>2. \A k \in 0..(n + 1) : k # n + 1 => k \in 0..n
    OBVIOUS
  <2> QED BY <1>2, <2>1, <2>2
<1>7. \A k \in 1..(n + 1) : g[k] = g[k - 1] + longer[k]
  <2> SUFFICES ASSUME NEW k \in 1..(n + 1) PROVE g[k] = g[k - 1] + longer[k]
    OBVIOUS
  <2>1. k - 1 \in 0..(n + 1) /\ k - 1 # n + 1 /\ g[k - 1] = f[k - 1]
    OBVIOUS
  <2>2. CASE k = n + 1
    <3>1. k - 1 = n /\ g[k] = f[n] + x
      BY <2>2
    <3> HIDE DEF longer, g
    <3> QED BY <1>5, <2>1, <2>2, <3>1
  <2>3. CASE k # n + 1
    <3>1. k \in 1..n /\ g[k] = f[k]
      BY <2>3
    <3> HIDE DEF longer, g
    <3> QED BY <1>2, <1>5, <2>1, <3>1
  <2> QED BY <2>2, <2>3
<1>8. SumOf(longer) = g[n + 1]
  <2> HIDE DEF longer, g
  <2> QED BY <1>5, <1>6, <1>7, SumsTo
<1> QED BY <1>2, <1>3, <1>4, <1>6, <1>8

\* A pair of neighbouring samples, as Steps gives it.
Pair == [ts : Int, dt : Nat, from : Int, to : Int]

Loop(kept, steps, m) ==
    /\ kept \in [0..m -> Seq(Pair)] /\ kept[0] = <<>> /\ Gaps(steps) = kept[m]
    /\ \A k \in 1..m : kept[k] = IF steps[k].dt = 0 THEN kept[k - 1] ELSE Append(kept[k - 1], steps[k])

\* The loop that leaves out the pairs of one moment.
LEMMA GapsKept ==
    ASSUME NEW steps \in Seq(Pair), NEW m \in Nat, m = Len(steps)
    PROVE  \E kept : Loop(kept, steps, m)
<1> DEFINE E(k, out) == IF steps[k].dt = 0 THEN out ELSE Append(out, steps[k])
           turn == [k \in 1..m |-> [out \in Seq(Pair) |-> E(k, out)]]
           Keeps(f) == f = [k \in 0..Len(steps) |-> IF k = 0 THEN <<>> ELSE E(k, f[k - 1])]
           kept == CHOOSE f : Keeps(f)
<1>1. \A k \in 1..m : \A out \in Seq(Pair) : E(k, out) \in Seq(Pair)
  <2>1. \A k \in 1..m : steps[k] \in Pair
    OBVIOUS
  <2> QED BY <2>1
<1>2. Gaps(steps) = kept[Len(steps)]
  BY DEF Gaps
<1> HIDE DEF E
<1>3. PICK f \in [0..m -> Seq(Pair)] : f[0] = <<>> /\ \A k \in 1..m : f[k] = E(k, f[k - 1])
  <2>1. <<>> \in Seq(Pair)
    OBVIOUS
  <2>2. turn \in [1..m -> [Seq(Pair) -> Seq(Pair)]]
    BY <1>1
  <2>3. \A k \in 1..m : \A out \in Seq(Pair) : turn[k][out] = E(k, out)
    OBVIOUS
  <2> HIDE DEF turn
  <2>4. PICK f : LoopOf(f, m, Seq(Pair), <<>>, turn)
    BY <2>1, <2>2, LoopRuns, Zenon
  <2>5. f \in [0..m -> Seq(Pair)] /\ f[0] = <<>> /\ \A k \in 1..m : f[k] = turn[k][f[k - 1]]
    BY <2>4 DEF LoopOf
  <2>6. \A k \in 1..m : f[k - 1] \in Seq(Pair)
    BY <2>5
  <2> QED BY <2>3, <2>5, <2>6
<1>4. Keeps(f)
  <2>1. \A k \in 0..m : k # 0 => k \in 1..m
    OBVIOUS
  <2>2. \A k \in 0..m : f[k] = IF k = 0 THEN <<>> ELSE E(k, f[k - 1])
    BY <1>3, <2>1
  <2>3. f = [k \in 0..m |-> f[k]]
    OBVIOUS
  <2> QED BY <2>2, <2>3
<1>5. Keeps(kept)
  <2> HIDE DEF Keeps
  <2> QED BY <1>4, Zenon
<1>6. kept[0] = <<>> /\ \A k \in 1..m : kept[k] = E(k, kept[k - 1])
  <2>1. 0 \in 0..m /\ \A k \in 1..m : k \in 0..m /\ k # 0
    OBVIOUS
  <2> HIDE DEF kept
  <2> QED BY <1>5, <2>1
<1> HIDE DEF kept
<1> DEFINE S == {k \in 0..m : kept[k] = f[k]}
<1>7. 0 \in S
  BY <1>3, <1>6
<1>8. \A k \in 1..m : k - 1 \in S => k \in S
  BY <1>3, <1>6
<1>9. m \in S
  <2> HIDE DEF S
  <2>1. m \in 0..m
    OBVIOUS
  <2> QED BY <1>7, <1>8, <2>1, Reached
<1>10. Gaps(steps) = f[m]
  BY <1>2, <1>9
<1>11. Loop(f, steps, m)
  BY <1>3, <1>10 DEF Loop, E
<1> QED BY <1>11

LEMMA IncreaseIs ==
    ASSUME NEW step \in Pair, NEW counter \in BOOLEAN
    PROVE  /\ Increase(step, counter) \in Int
           /\ Increase(step, TRUE) = step.to - step.from + IF step.to < step.from THEN step.from ELSE 0
           /\ Increase(step, FALSE) = step.to - step.from
BY DEF Increase, Pair

\* What a loop over the gaps adds up to, for each gap it has seen.
GapSum(gaps) == SumOf([i \in DOMAIN gaps |-> Increase(gaps[i], TRUE)])

LEMMA GapSumGrows ==
    ASSUME NEW gaps \in Seq(Pair), NEW step \in Pair
    PROVE  /\ GapSum(<<>>) = 0 /\ GapSum(gaps) \in Int
           /\ GapSum(Append(gaps, step)) = GapSum(gaps) + Increase(step, TRUE)
<1> DEFINE Up(s) == Increase(s, TRUE)
           Of(list) == [i \in DOMAIN list |-> Up(list[i])]
<1>1. \A s \in Pair : Up(s) \in Int
  BY IncreaseIs
<1>2. /\ GapSum(<<>>) = SumOf(Of(<<>>)) /\ GapSum(gaps) = SumOf(Of(gaps))
      /\ GapSum(Append(gaps, step)) = SumOf(Of(Append(gaps, step)))
  BY DEF GapSum
<1>3. Increase(step, TRUE) = Up(step)
  OBVIOUS
<1> HIDE DEF Up
<1>4. PICK n \in Nat : n = Len(gaps) /\ DOMAIN gaps = 1..n
  OBVIOUS
<1>5. PICK x \in Int : x = Up(step)
  BY <1>1
<1>6. PICK mapped : mapped = Of(gaps) /\ mapped \in Seq(Int) /\ Len(mapped) = n
  <2>1. \A i \in 1..n : gaps[i] \in Pair
    BY <1>4
  <2>2. Of(gaps) \in [1..n -> Int]
    BY <1>1, <1>4, <2>1
  <2> HIDE DEF Of
  <2> QED BY <2>2
<1>7. Of(<<>>) = <<>>
  OBVIOUS
<1>8. Of(Append(gaps, step)) = Append(mapped, x)
  <2> DEFINE list == Append(gaps, step)
             longer == Append(mapped, x)
  <2>1. DOMAIN list = 1..(n + 1) /\ list[n + 1] = step /\ \A i \in 1..n : list[i] = gaps[i]
    BY <1>4
  <2>2. longer = [i \in 1..(n + 1) |-> longer[i]] /\ longer[n + 1] = x /\ \A i \in 1..n : longer[i] = mapped[i]
    BY <1>6
  <2> HIDE DEF list, longer
  <2>3. \A i \in 1..n : mapped[i] = Up(gaps[i])
    BY <1>4, <1>6
  <2>4. \A i \in 1..(n + 1) : i # n + 1 => i \in 1..n
    OBVIOUS
  <2>5. \A i \in 1..(n + 1) : Up(list[i]) = longer[i]
    BY <1>5, <2>1, <2>2, <2>3, <2>4
  <2>6. Of(list) = [i \in 1..(n + 1) |-> longer[i]]
    BY <2>1, <2>5
  <2> HIDE DEF Of
  <2>7. Of(list) = longer
    BY <2>2, <2>6, Zenon
  <2> QED BY <2>7 DEF list, longer
<1> HIDE DEF Of
<1>9. SumOf(<<>>) = 0 /\ SumOf(mapped) \in Int /\ SumOf(Append(mapped, x)) = SumOf(mapped) + x
  BY <1>6, SumGrows
<1> QED BY <1>2, <1>3, <1>5, <1>6, <1>7, <1>8, <1>9

Reading == [ts : Int, value : Int]

\* rate, total_increase and rate_over_window: the increase is what the last value
\* has over the first and what each reset lost; rates add up to it over the gaps.
THEOREM Gaps_add_up ==
    ASSUME NEW samples \in Seq(Reading),
           \A i \in 1..(Len(samples) - 1) : samples[i].ts =< samples[i + 1].ts
    PROVE  GapsAddUp(samples)
<1> SUFFICES ASSUME Len(samples) >= 2 PROVE GapsAddUp(samples)
  BY DEF GapsAddUp
<1> DEFINE steps == Steps(samples)
           Lost(i) == IF steps[i].to < steps[i].from THEN steps[i].from ELSE 0
           Instant(i) == IF steps[i].dt = 0 THEN Increase(steps[i], TRUE) ELSE 0
           lost == [i \in DOMAIN steps |-> Lost(i)]
           instant == [i \in DOMAIN steps |-> Instant(i)]
           ups == [i \in DOMAIN steps |-> Increase(steps[i], TRUE)]
           moves == [i \in DOMAIN steps |-> Increase(steps[i], FALSE)]
           rates == Rate(samples, TRUE)
           gaps == Gaps(steps)
           first == samples[1].value
<1>1. PICK m \in Nat \ {0} : Len(samples) = m + 1
  <2>1. Len(samples) - 1 \in Nat \ {0} /\ Len(samples) = (Len(samples) - 1) + 1
    OBVIOUS
  <2> QED BY <2>1
<1>2. \A i \in 1..(m + 1) : samples[i].ts \in Int /\ samples[i].value \in Int
  <2>1. \A i \in 1..(m + 1) : samples[i] \in Reading
    BY <1>1
  <2> QED BY <2>1 DEF Reading
<1>3. /\ DOMAIN steps = 1..m
      /\ \A i \in 1..m : steps[i] = [ts |-> samples[i + 1].ts, dt |-> samples[i + 1].ts - samples[i].ts,
                                     from |-> samples[i].value, to |-> samples[i + 1].value]
  BY <1>1 DEF Steps
<1>4. \A i \in 1..m : steps[i] \in Pair
  <2> SUFFICES ASSUME NEW i \in 1..m PROVE steps[i] \in Pair
    OBVIOUS
  <2>1. i \in 1..(m + 1) /\ i + 1 \in 1..(m + 1) /\ samples[i].ts =< samples[i + 1].ts
    BY <1>1
  <2>2. PICK a \in Int, b \in Int : a = samples[i].ts /\ b = samples[i + 1].ts
    BY <1>2, <2>1
  <2>3. PICK c \in Int, d \in Int : c = samples[i].value /\ d = samples[i + 1].value
    BY <1>2, <2>1
  <2>4. b - a \in Nat
    <3>1. a =< b
      BY <2>1, <2>2
    <3> HIDE <2>1, <2>2, <2>3
    <3> QED BY <3>1
  <2>5. steps[i] = [ts |-> b, dt |-> b - a, from |-> c, to |-> d]
    BY <1>3, <2>2, <2>3
  <2> HIDE DEF steps
  <2> QED BY <2>4, <2>5 DEF Pair
<1>5. steps = [i \in 1..m |-> steps[i]]
  BY <1>1 DEF Steps
<1> HIDE DEF steps
<1>6. steps \in Seq(Pair) /\ Len(steps) = m
  BY <1>4, <1>5
<1>7. \A i \in 1..m : /\ steps[i].from \in Int /\ steps[i].to \in Int /\ steps[i].dt \in Nat
                      /\ Increase(steps[i], TRUE) \in Int /\ Increase(steps[i], FALSE) \in Int
                      /\ Increase(steps[i], TRUE) = steps[i].to - steps[i].from + Lost(i)
                      /\ Increase(steps[i], FALSE) = steps[i].to - steps[i].from
  <2> SUFFICES ASSUME NEW i \in 1..m
               PROVE  /\ steps[i].from \in Int /\ steps[i].to \in Int /\ steps[i].dt \in Nat
                      /\ Increase(steps[i], TRUE) \in Int /\ Increase(steps[i], FALSE) \in Int
                      /\ Increase(steps[i], TRUE) = steps[i].to - steps[i].from + Lost(i)
                      /\ Increase(steps[i], FALSE) = steps[i].to - steps[i].from
    OBVIOUS
  <2>1. steps[i] \in Pair
    BY <1>4
  <2>2. steps[i].from \in Int /\ steps[i].to \in Int /\ steps[i].dt \in Nat
    BY <2>1 DEF Pair
  <2> QED BY <2>1, <2>2, IncreaseIs
<1>8. /\ \A i \in 1..m : Lost(i) \in Int /\ Instant(i) \in Int
      /\ \A i \in 1..m : lost[i] = Lost(i) /\ instant[i] = Instant(i)
      /\ \A i \in 1..m : ups[i] = Increase(steps[i], TRUE) /\ moves[i] = Increase(steps[i], FALSE)
  <2>1. ASSUME NEW i \in 1..m PROVE Lost(i) \in Int
    <3>1. steps[i].from \in Int
      BY <1>7
    <3> QED BY <3>1
  <2>2. ASSUME NEW i \in 1..m PROVE Instant(i) \in Int
    <3>1. Increase(steps[i], TRUE) \in Int
      BY <1>7, Zenon
    <3>2. 0 \in Int
      OBVIOUS
    <3> QED BY <3>1, <3>2, Zenon
  <2> HIDE DEF Lost, Instant
  <2>3. \A i \in 1..m : lost[i] = Lost(i) /\ instant[i] = Instant(i)
    BY <1>3
  <2>4. \A i \in 1..m : ups[i] = Increase(steps[i], TRUE) /\ moves[i] = Increase(steps[i], FALSE)
    BY <1>3
  <2> QED BY <2>1, <2>2, <2>3, <2>4
<1>9. /\ lost \in Seq(Int) /\ Len(lost) = m /\ instant \in Seq(Int) /\ Len(instant) = m
      /\ ups \in Seq(Int) /\ Len(ups) = m /\ moves \in Seq(Int) /\ Len(moves) = m
  <2> HIDE DEF Lost, Instant
  <2>1. lost \in [1..m -> Int] /\ instant \in [1..m -> Int]
    BY <1>3, <1>8
  <2>2. ups \in [1..m -> Int] /\ moves \in [1..m -> Int]
    BY <1>3, <1>7
  <2> HIDE DEF lost, instant, ups, moves
  <2> QED BY <2>1, <2>2
<1>10. TotalIncrease(samples, TRUE) = SumOf(ups) /\ TotalIncrease(samples, FALSE) = SumOf(moves)
  BY DEF TotalIncrease, steps
<1>11. \A k \in 0..m : k + 1 \in 1..(m + 1) /\ samples[k + 1].value \in Int
  BY <1>2
<1> HIDE DEF lost, instant, ups, moves, Lost, Instant
<1>12. PICK lf : Totals(lf, lost, m)
  BY <1>9, Summed
<1>13. PICK inf : Totals(inf, instant, m)
  BY <1>9, Summed
<1>14. TotalIncrease(samples, TRUE) = Last(samples).value - first + SumOf(lost)
  <2> DEFINE f == [k \in 0..m |-> samples[k + 1].value - first + lf[k]]
  <2>1. \A k \in 0..m : lf[k] \in Int
    BY <1>12 DEF Totals
  <2>2. first \in Int
    BY <1>2
  <2>3. f \in [0..m -> Int]
    BY <1>11, <2>1, <2>2
  <2>4. f[0] = 0
    BY <1>12, <2>2 DEF Totals
  <2>5. \A k \in 1..m : f[k] = f[k - 1] + ups[k]
    <3> SUFFICES ASSUME NEW k \in 1..m PROVE f[k] = f[k - 1] + ups[k]
      OBVIOUS
    <3>1. k \in 0..m /\ k - 1 \in 0..m /\ (k - 1) + 1 = k
      OBVIOUS
    <3>2. f[k] = samples[k + 1].value - first + lf[k] /\ f[k - 1] = samples[k].value - first + lf[k - 1]
      BY <3>1
    <3>3. lf[k] = lf[k - 1] + Lost(k)
      BY <1>8, <1>12 DEF Totals
    <3>4. ups[k] = samples[k + 1].value - samples[k].value + Lost(k)
      <4>1. steps[k].to = samples[k + 1].value /\ steps[k].from = samples[k].value
        BY <1>3
      <4> QED BY <1>7, <1>8, <4>1
    <3>5. PICK a \in Int, b \in Int : a = samples[k].value /\ b = samples[k + 1].value
      BY <1>2, <1>11, <3>1
    <3>6. PICK c \in Int, d \in Int, e \in Int : c = lf[k - 1] /\ d = Lost(k) /\ e = first
      BY <1>8, <2>1, <2>2, <3>1
    <3>7. f[k] = b - e + (c + d) /\ f[k - 1] = a - e + c /\ ups[k] = b - a + d
      BY <3>2, <3>3, <3>4, <3>5, <3>6
    <3> HIDE DEF f, first
    <3> QED BY <3>7
  <2>6. f[m] = samples[m + 1].value - first + lf[m]
    OBVIOUS
  <2> HIDE DEF f, first
  <2>7. SumOf(ups) = f[m]
    BY <1>9, <2>3, <2>4, <2>5, SumsTo
  <2>8. Last(samples) = samples[m + 1] /\ SumOf(lost) = lf[m]
    BY <1>1, <1>12 DEF Totals, Last
  <2> QED BY <1>10, <2>6, <2>7, <2>8
<1>15. TotalIncrease(samples, FALSE) = Last(samples).value - first
  <2> DEFINE f == [k \in 0..m |-> samples[k + 1].value - first]
  <2>1. first \in Int
    BY <1>2
  <2>2. f \in [0..m -> Int] /\ f[0] = 0
    BY <1>11, <2>1
  <2>3. \A k \in 1..m : f[k] = f[k - 1] + moves[k]
    <3> SUFFICES ASSUME NEW k \in 1..m PROVE f[k] = f[k - 1] + moves[k]
      OBVIOUS
    <3>1. k \in 0..m /\ k - 1 \in 0..m /\ (k - 1) + 1 = k
      OBVIOUS
    <3>2. f[k] = samples[k + 1].value - first /\ f[k - 1] = samples[k].value - first
      BY <3>1
    <3>3. moves[k] = samples[k + 1].value - samples[k].value
      <4>1. steps[k].to = samples[k + 1].value /\ steps[k].from = samples[k].value
        BY <1>3
      <4> QED BY <1>7, <1>8, <4>1
    <3>4. PICK a \in Int, b \in Int, e \in Int : a = samples[k].value /\ b = samples[k + 1].value /\ e = first
      BY <1>2, <1>11, <2>1, <3>1
    <3>5. f[k] = b - e /\ f[k - 1] = a - e /\ moves[k] = b - a
      BY <3>2, <3>3, <3>4
    <3> HIDE DEF f, first
    <3> QED BY <3>5
  <2>4. f[m] = samples[m + 1].value - first
    OBVIOUS
  <2> HIDE DEF f, first
  <2>5. SumOf(moves) = f[m]
    BY <1>9, <2>2, <2>3, SumsTo
  <2>6. Last(samples) = samples[m + 1]
    BY <1>1 DEF Last
  <2> QED BY <1>10, <2>4, <2>5, <2>6
<1>16. PICK kept : Loop(kept, steps, m)
  BY <1>6, GapsKept
<1>17. gaps \in Seq(Pair) /\ \A i \in DOMAIN gaps : gaps[i].dt \in Nat \ {0}
  <2> DEFINE Positive(list) == \A i \in DOMAIN list : list[i].dt # 0
             S == {k \in 0..m : Positive(kept[k])}
  <2>1. kept[0] = <<>> /\ \A k \in 0..m : kept[k] \in Seq(Pair)
    BY <1>16 DEF Loop
  <2>2. 0 \in S
    BY <2>1
  <2>3. ASSUME NEW k \in 1..m, k - 1 \in S PROVE k \in S
    <3>1. Positive(kept[k - 1]) /\ k - 1 \in 0..m /\ kept[k - 1] \in Seq(Pair)
      BY <2>1, <2>3
    <3>2. kept[k] = IF steps[k].dt = 0 THEN kept[k - 1] ELSE Append(kept[k - 1], steps[k])
      BY <1>16 DEF Loop
    <3>3. ASSUME steps[k].dt # 0 PROVE Positive(Append(kept[k - 1], steps[k]))
      <4>1. PICK list \in Seq(Pair) : list = kept[k - 1]
        BY <3>1
      <4>2. \A i \in DOMAIN Append(list, steps[k]) :
               \/ i \in DOMAIN list /\ Append(list, steps[k])[i] = list[i]
               \/ Append(list, steps[k])[i] = steps[k]
        OBVIOUS
      <4> QED BY <3>1, <3>3, <4>1, <4>2
    <3> HIDE DEF Positive
    <3> QED BY <3>1, <3>2, <3>3
  <2>4. m \in S
    <3> HIDE DEF S
    <3>1. m \in 0..m
      OBVIOUS
    <3> QED BY <2>2, <2>3, <3>1, Reached
  <2>5. gaps = kept[m] /\ gaps \in Seq(Pair)
    BY <1>16, <2>1 DEF Loop
  <2> HIDE DEF gaps
  <2>6. \A i \in DOMAIN gaps : gaps[i] \in Pair
    BY <2>5
  <2> QED BY <2>4, <2>5, <2>6 DEF Pair
<1>18. TotalIncrease(samples, TRUE) = GapSum(gaps) + SumOf(instant)
  <2> DEFINE f == [k \in 0..m |-> GapSum(kept[k]) + inf[k]]
  <2>1. \A k \in 0..m : kept[k] \in Seq(Pair) /\ inf[k] \in Int
    BY <1>13, <1>16 DEF Loop, Totals
  <2>2. \A k \in 0..m : GapSum(kept[k]) \in Int
    <3>1. steps[1] \in Pair
      BY <1>4
    <3> QED BY <2>1, <3>1, GapSumGrows
  <2>3. f \in [0..m -> Int]
    BY <2>1, <2>2
  <2>4. f[0] = 0
    <3>1. steps[1] \in Pair /\ <<>> \in Seq(Pair)
      BY <1>4
    <3>2. GapSum(<<>>) = 0
      BY <3>1, GapSumGrows
    <3> QED BY <1>13, <1>16, <3>2 DEF Loop, Totals
  <2>5. ASSUME NEW k \in 1..m PROVE f[k] = f[k - 1] + ups[k]
    <3>1. k \in 0..m /\ k - 1 \in 0..m
      OBVIOUS
    <3>2. f[k] = GapSum(kept[k]) + inf[k] /\ f[k - 1] = GapSum(kept[k - 1]) + inf[k - 1]
      BY <3>1
    <3>3. inf[k] = inf[k - 1] + Instant(k)
      BY <1>8, <1>13 DEF Totals
    <3>4. PICK x \in Int : x = Increase(steps[k], TRUE) /\ ups[k] = x
      BY <1>7, <1>8
    <3>5. kept[k] = IF steps[k].dt = 0 THEN kept[k - 1] ELSE Append(kept[k - 1], steps[k])
      BY <1>16 DEF Loop
    <3>6. PICK a \in Int, b \in Int : a = GapSum(kept[k - 1]) /\ b = inf[k - 1]
      BY <2>1, <2>2, <3>1
    <3>7. CASE steps[k].dt = 0
      <4>1. Instant(k) = x /\ kept[k] = kept[k - 1]
        BY <3>4, <3>5, <3>7 DEF Instant
      <4>2. f[k] = a + (b + x) /\ f[k - 1] = a + b
        BY <3>2, <3>3, <3>6, <4>1
      <4>3. ups[k] = x
        BY <3>4, Zenon
      <4> HIDE DEF f
      <4> QED BY <4>2, <4>3
    <3>8. CASE steps[k].dt # 0
      <4>1. Instant(k) = 0 /\ kept[k] = Append(kept[k - 1], steps[k])
        BY <3>5, <3>8 DEF Instant
      <4>2. GapSum(kept[k]) = a + x
        <5>1. kept[k - 1] \in Seq(Pair) /\ steps[k] \in Pair
          BY <1>4, <2>1, <3>1
        <5> QED BY <3>4, <3>6, <4>1, <5>1, GapSumGrows
      <4>3. f[k] = (a + x) + (b + 0) /\ f[k - 1] = a + b
        BY <3>2, <3>3, <3>6, <4>1, <4>2
      <4>4. ups[k] = x
        BY <3>4, Zenon
      <4> HIDE DEF f
      <4> QED BY <4>3, <4>4
    <3> QED BY <3>7, <3>8
  <2>6. f[m] = GapSum(gaps) + SumOf(instant)
    BY <1>13, <1>16 DEF Loop, Totals
  <2> HIDE DEF f, gaps
  <2>7. SumOf(ups) = f[m]
    BY <1>9, <2>3, <2>4, <2>5, SumsTo
  <2> QED BY <1>10, <2>6, <2>7
<1>19. SumOf([i \in DOMAIN rates |-> (rates[i].value.num * gaps[i].dt) \div rates[i].value.den]) = GapSum(gaps)
  <2>1. DOMAIN rates = DOMAIN gaps
    BY DEF Rate, steps
  <2>2. \A i \in DOMAIN gaps : /\ rates[i].value.num = Increase(gaps[i], TRUE)
                               /\ rates[i].value.den = gaps[i].dt
    BY DEF Rate, steps, Fraction
  <2>3. \A i \in DOMAIN gaps : Increase(gaps[i], TRUE) \in Int
    <3>1. \A i \in DOMAIN gaps : gaps[i] \in Pair
      <4> HIDE DEF gaps
      <4> QED BY <1>17
    <3> HIDE DEF gaps
    <3> QED BY <3>1, IncreaseIs
  <2> HIDE DEF rates, gaps
  <2>4. \A x \in Int : \A d \in Nat \ {0} : (x * d) \div d = x
    BY SMTT(30)
  <2>5. \A i \in DOMAIN gaps :
           (rates[i].value.num * gaps[i].dt) \div rates[i].value.den = Increase(gaps[i], TRUE)
    <3> SUFFICES ASSUME NEW i \in DOMAIN gaps
                 PROVE  (rates[i].value.num * gaps[i].dt) \div rates[i].value.den = Increase(gaps[i], TRUE)
      OBVIOUS
    <3>1. PICK x \in Int : x = Increase(gaps[i], TRUE)
      BY <2>3
    <3>2. PICK d \in Nat \ {0} : d = gaps[i].dt
      BY <1>17
    <3>3. rates[i].value.num = x /\ rates[i].value.den = d
      BY <2>2, <3>1, <3>2
    <3>4. (x * d) \div d = x
      BY <2>4
    <3> QED BY <3>1, <3>2, <3>3, <3>4
  <2>6. [i \in DOMAIN rates |-> (rates[i].value.num * gaps[i].dt) \div rates[i].value.den]
          = [i \in DOMAIN gaps |-> Increase(gaps[i], TRUE)]
    BY <2>1, <2>5
  <2> QED BY <2>6, Zenon DEF GapSum
<1>20. LET over == RateOverWindow(samples, TRUE)
       IN IF Last(samples).ts = samples[1].ts THEN over = None
          ELSE over.num = TotalIncrease(samples, TRUE) /\ over.den = Last(samples).ts - samples[1].ts
  <2>1. PICK a \in Int, b \in Int : a = samples[1].ts /\ b = Last(samples).ts
    BY <1>1, <1>2 DEF Last
  <2>2. PICK t : t = TotalIncrease(samples, TRUE)
    OBVIOUS
  <2>3. ~(Len(samples) < 2)
    BY <1>1
  <2>4. PICK over : over = RateOverWindow(samples, TRUE)
    OBVIOUS
  <2>5. over = IF Len(samples) < 2 \/ b - a = 0 THEN None ELSE Fraction(t, b - a)
    BY <2>1, <2>2, <2>4, Zenon DEF RateOverWindow
  <2>6. IF b = a THEN over = None ELSE over.num = t /\ over.den = b - a
    <3> HIDE <2>2, <2>4
    <3>1. CASE a = b
      BY <2>5, <3>1
    <3>2. CASE a # b
      BY <2>3, <2>5, <3>2 DEF Fraction
    <3> QED BY <3>1, <3>2
  <2> QED BY <2>1, <2>2, <2>4, <2>6, Zenon
<1>21. PICK total \in Int : total = TotalIncrease(samples, TRUE)
  <2>1. ups \in Seq(Int) /\ 0 \in Int
    BY <1>9
  <2>2. SumOf(ups) \in Int
    BY <2>1, SumGrows
  <2> QED BY <1>10, <2>2
<1>22. PICK u \in Int, v \in Int : u = GapSum(gaps) /\ v = SumOf(instant)
  <2>1. steps[1] \in Pair
    BY <1>4
  <2>2. GapSum(gaps) \in Int
    BY <1>17, <2>1, GapSumGrows
  <2>3. 0 \in Int
    OBVIOUS
  <2>4. SumOf(instant) \in Int
    BY <1>9, <2>3, SumGrows
  <2> QED BY <2>2, <2>4
<1>23. TotalIncrease(samples, TRUE) - SumOf(instant)
         = SumOf([i \in DOMAIN rates |-> (rates[i].value.num * gaps[i].dt) \div rates[i].value.den])
  <2> HIDE DEF rates, gaps
  <2>1. total = u + v
    BY <1>18, <1>21, <1>22
  <2>2. total - v = u
    BY <2>1
  <2> QED BY <1>19, <1>21, <1>22, <2>2
<1> QED BY <1>14, <1>15, <1>20, <1>23 DEF GapsAddUp, lost, instant, Lost, Instant, steps

-----------------------------------------------------------------------------
(* The texts of series keys                                                *)

\* Two loops with the same turns have the same values.
SameTurns(f, g, n) == f[0] = g[0] /\ \A k \in 1..n : f[k - 1] = g[k - 1] => f[k] = g[k]

LEMMA SameLoops ==
    ASSUME NEW n \in Nat, NEW f, NEW g, SameTurns(f, g, n)
    PROVE  f[n] = g[n]
<1> DEFINE S == {k \in 0..n : f[k] = g[k]}
<1>1. 0 \in S
  BY DEF SameTurns
<1>2. \A k \in 1..n : k - 1 \in S => k \in S
  BY DEF SameTurns
<1> HIDE DEF S
<1>3. \A k \in 0..n : k \in S
  BY <1>1, <1>2, Reached
<1> QED BY <1>3 DEF S

-----------------------------------------------------------------------------
(* Texts that are put together                                             *)

Joins(f, ss, n) ==
    /\ f \in [0..n -> Text] /\ f[0] = <<>> /\ FlattenSeq(ss) = f[n]
    /\ \A k \in 1..n : f[k] = f[k - 1] \o ss[k]

\* FlattenSeq puts one text behind the other.
LEMMA Flattened ==
    ASSUME NEW n \in Nat, NEW ss \in Seq(Text), n = Len(ss)
    PROVE  \E f : Joins(f, ss, n)
<1> DEFINE turn == [k \in 1..n |-> [v \in Text |-> v \o ss[k]]]
           E(g) == g = [i \in 1..Len(ss) |-> IF i = 1 THEN ss[i] ELSE g[i - 1] \o ss[i]]
           flatten == CHOOSE g : E(g)
<1>0. \A k \in 1..n : ss[k] \in Text
  OBVIOUS
<1>1. \A k \in 1..n : \A v \in Text : turn[k][v] = v \o ss[k] /\ v \o ss[k] \in Text
  BY <1>0 DEF Text
<1>2. turn \in [1..n -> [Text -> Text]]
  BY <1>1
<1> HIDE DEF turn
<1>3. <<>> \in Text
  BY DEF Text
<1>4. PICK f : LoopOf(f, n, Text, <<>>, turn)
  BY <1>2, <1>3, LoopRuns, Zenon
<1>5. f \in [0..n -> Text] /\ f[0] = <<>> /\ \A k \in 1..n : f[k] = turn[k][f[k - 1]]
  BY <1>4 DEF LoopOf
<1>6. \A k \in 1..n : f[k - 1] \in Text
  BY <1>5
<1>7. \A k \in 1..n : f[k] = f[k - 1] \o ss[k]
  BY <1>1, <1>5, <1>6
<1>8. CASE n = 0
  <2>1. FlattenSeq(ss) = <<>>
    <3>1. ss = <<>> /\ Len(ss) = 0
      BY <1>8, EmptySeq
    <3> QED BY <3>1, Zenon DEF FlattenSeq
  <2> QED BY <1>5, <1>7, <1>8, <2>1 DEF Joins
<1>9. CASE n # 0
  <2> DEFINE g == [i \in 1..n |-> f[i]]
  <2>1. \A i \in 1..n : i # 1 => i - 1 \in 1..n
    OBVIOUS
  <2>2. 1 \in 1..n /\ f[1] = <<>> \o ss[1] /\ ss[1] \in Text
    <3>1. 1 \in 1..n /\ 1 - 1 = 0
      BY <1>9
    <3> QED BY <1>0, <1>5, <1>7, <3>1
  <2>3. f[1] = ss[1]
    BY <2>2 DEF Text
  <2>4. \A i \in 1..n : g[i] = IF i = 1 THEN ss[i] ELSE g[i - 1] \o ss[i]
    BY <1>7, <2>1, <2>3
  <2>5. E(g)
    <3>1. g = [i \in 1..n |-> g[i]]
      OBVIOUS
    <3> HIDE DEF g
    <3> QED BY <2>4, <3>1
  <2> HIDE DEF g
  <2>6. E(flatten)
    <3> HIDE DEF E
    <3> QED BY <2>5, Zenon
  <2>7. FlattenSeq(ss) = flatten[n]
    BY <1>9 DEF FlattenSeq
  <2>8. \A i \in 1..n : flatten[i] = IF i = 1 THEN ss[i] ELSE flatten[i - 1] \o ss[i]
    <3> HIDE DEF flatten
    <3> QED BY <2>6
  <2> HIDE DEF flatten
  <2> DEFINE h == [i \in 0..n |-> IF i = 0 THEN <<>> ELSE flatten[i]]
  <2>9. h[0] = f[0]
    BY <1>5
  <2>10. ASSUME NEW k \in 1..n, h[k - 1] = f[k - 1] PROVE h[k] = f[k]
    <3>1. CASE k = 1
      <4>1. h[k] = ss[1]
        BY <2>8, <3>1
      <4> QED BY <2>3, <3>1, <4>1
    <3>2. CASE k # 1
      <4>0. k \in 0..n /\ k - 1 \in 0..n /\ k # 0 /\ k - 1 # 0
        BY <3>2
      <4>1. h[k] = flatten[k] /\ h[k - 1] = flatten[k - 1]
        BY <4>0
      <4>2. flatten[k] = flatten[k - 1] \o ss[k]
        BY <2>8, <3>2
      <4> HIDE DEF h
      <4> QED BY <1>7, <2>10, <4>1, <4>2
    <3> QED BY <3>1, <3>2
  <2>11. h[n] = flatten[n] /\ n \in 0..n
    BY <1>9
  <2> HIDE DEF h
  <2>12. h[n] = f[n]
    <3>1. \A k \in 1..n : h[k - 1] = f[k - 1] => h[k] = f[k]
      BY <2>10
    <3>2. SameTurns(h, f, n)
      BY <2>9, <3>1, Zenon DEF SameTurns
    <3> QED BY <3>2, SameLoops, Zenon
  <2> QED BY <1>5, <1>7, <2>7, <2>11, <2>12 DEF Joins
<1> QED BY <1>8, <1>9


-----------------------------------------------------------------------------
(* Cutting a text, cut at the characters of a set                          *)

Cutting(parts, part) == [parts |-> parts, part |-> part, open |-> FALSE]
Marking(parts, part) == [parts |-> parts, part |-> part, open |-> TRUE]

\* Split, with another set of separators than the comma.
Turn(seps, r, c) ==
    IF ~r.open /\ c = Backslash THEN Marking(r.parts, r.part)
    ELSE IF ~r.open /\ c \in seps THEN Cutting(Append(r.parts, r.part), <<>>)
    ELSE Cutting(r.parts, Append(r.part, c))

Leads(seps, r, text, q) ==
    \E f : /\ f[0] = r /\ f[Len(text)] = q
           /\ \A k \in 1..Len(text) : f[k] = Turn(seps, f[k - 1], text[k])

LEMMA SplitIsTurn == \A r, c : Split(r, c) = Turn({Comma}, r, c)
BY DEF Split, Turn, Cutting, Marking

LEMMA TurnMarks ==
    ASSUME NEW seps, NEW parts, NEW part
    PROVE  Turn(seps, Cutting(parts, part), Backslash) = Marking(parts, part)
BY DEF Turn, Cutting, Marking

LEMMA TurnCuts ==
    ASSUME NEW seps, NEW parts, NEW part, NEW c \in seps, c # Backslash
    PROVE  Turn(seps, Cutting(parts, part), c) = Cutting(Append(parts, part), <<>>)
BY DEF Turn, Cutting, Marking

LEMMA TurnReads ==
    ASSUME NEW seps, NEW parts, NEW part, NEW c, c \notin seps, c # Backslash
    PROVE  Turn(seps, Cutting(parts, part), c) = Cutting(parts, Append(part, c))
BY DEF Turn, Cutting, Marking

LEMMA TurnUnmarks ==
    ASSUME NEW seps, NEW parts, NEW part, NEW c
    PROVE  Turn(seps, Marking(parts, part), c) = Cutting(parts, Append(part, c))
BY DEF Turn, Cutting, Marking

LEMMA LeadsNowhere ==
    ASSUME NEW seps, NEW r
    PROVE  Leads(seps, r, <<>>, r)
<1> DEFINE f == [k \in 0..0 |-> r]
<1>1. f[0] = r /\ Len(<<>>) = 0 /\ 1..0 = {}
  OBVIOUS
<1> HIDE DEF f
<1> QED BY <1>1 DEF Leads

LEMMA LeadsOn ==
    ASSUME NEW seps, NEW r, NEW text \in Text, NEW q, NEW c \in Int, Leads(seps, r, text, q)
    PROVE  Leads(seps, r, text \o <<c>>, Turn(seps, q, c))
<1>1. PICK n \in Nat : n = Len(text)
  BY DEF Text
<1>2. PICK longer \in Text : longer = text \o <<c>>
  <2>1. text \o <<c>> \in Text
    BY DEF Text
  <2> QED BY <2>1
<1>3. Len(longer) = n + 1 /\ longer[n + 1] = c /\ \A k \in 1..n : longer[k] = text[k]
  BY <1>1, <1>2 DEF Text
<1>4. PICK f : /\ f[0] = r /\ f[n] = q
               /\ \A k \in 1..n : f[k] = Turn(seps, f[k - 1], text[k])
  BY <1>1 DEF Leads
<1> DEFINE g == [k \in 0..(n + 1) |-> IF k = n + 1 THEN Turn(seps, q, c) ELSE f[k]]
<1>5. \A k \in 0..n : k \in 0..(n + 1) /\ k # n + 1 /\ g[k] = f[k]
  OBVIOUS
<1>6. g[n + 1] = Turn(seps, q, c)
  OBVIOUS
<1> HIDE DEF g
<1>7. g[0] = r /\ g[n] = q
  BY <1>4, <1>5
<1>8. \A k \in 1..(n + 1) : g[k] = Turn(seps, g[k - 1], longer[k])
  <2> SUFFICES ASSUME NEW k \in 1..(n + 1) PROVE g[k] = Turn(seps, g[k - 1], longer[k])
    OBVIOUS
  <2>1. CASE k = n + 1
    BY <1>3, <1>6, <1>7, <2>1
  <2>2. CASE k # n + 1
    <3>1. k \in 1..n /\ k \in 0..n /\ k - 1 \in 0..n
      BY <2>2
    <3>2. f[k] = Turn(seps, f[k - 1], text[k]) /\ longer[k] = text[k] /\ g[k] = f[k] /\ g[k - 1] = f[k - 1]
      BY <1>3, <1>4, <1>5, <3>1
    <3> QED BY <3>2
  <2> QED BY <2>1, <2>2
<1> QED BY <1>2, <1>3, <1>6, <1>7, <1>8 DEF Leads

\* Cutting a text and then another is reading them in one.
LEMMA LeadsFurther ==
    ASSUME NEW seps, NEW r, NEW a \in Text, NEW q, NEW b \in Text, NEW z,
           Leads(seps, r, a, q), Leads(seps, q, b, z)
    PROVE  Leads(seps, r, a \o b, z)
<1>1. PICK n \in Nat, m \in Nat : n = Len(a) /\ m = Len(b)
  BY DEF Text
<1>2. PICK both \in Text : both = a \o b
  <2>1. a \o b \in Text
    BY DEF Text
  <2> QED BY <2>1
<1>3. /\ Len(both) = n + m /\ \A k \in 1..n : both[k] = a[k]
      /\ \A k \in 1..m : both[n + k] = b[k]
  BY <1>1, <1>2 DEF Text
<1>4. PICK f : /\ f[0] = r /\ f[n] = q
               /\ \A k \in 1..n : f[k] = Turn(seps, f[k - 1], a[k])
  BY <1>1 DEF Leads
<1>5. PICK h : /\ h[0] = q /\ h[m] = z
               /\ \A k \in 1..m : h[k] = Turn(seps, h[k - 1], b[k])
  BY <1>1 DEF Leads
<1> DEFINE g == [k \in 0..(n + m) |-> IF k =< n THEN f[k] ELSE h[k - n]]
<1>6. \A k \in 0..n : g[k] = f[k]
  OBVIOUS
<1>7. \A k \in 1..m : n + k \in 0..(n + m) /\ ~(n + k =< n) /\ (n + k) - n = k /\ g[n + k] = h[k]
  OBVIOUS
<1> HIDE DEF g
<1>8. g[0] = r /\ g[n] = h[0]
  BY <1>4, <1>5, <1>6
<1>9. g[n + m] = z
  <2>1. CASE m = 0
    BY <1>5, <1>8, <2>1
  <2>2. CASE m # 0
    BY <1>5, <1>7, <2>2
  <2> QED BY <2>1, <2>2
<1>10. \A k \in 0..m : g[n + k] = h[k]
  BY <1>7, <1>8
<1>11. \A k \in 1..(n + m) : g[k] = Turn(seps, g[k - 1], both[k])
  <2> SUFFICES ASSUME NEW k \in 1..(n + m) PROVE g[k] = Turn(seps, g[k - 1], both[k])
    OBVIOUS
  <2>1. CASE k =< n
    <3>1. k \in 1..n /\ k \in 0..n /\ k - 1 \in 0..n
      BY <2>1
    <3>2. f[k] = Turn(seps, f[k - 1], a[k]) /\ both[k] = a[k] /\ g[k] = f[k] /\ g[k - 1] = f[k - 1]
      BY <1>3, <1>4, <1>6, <3>1
    <3> QED BY <3>2
  <2>2. CASE ~(k =< n)
    <3>1. PICK l \in 1..m : k = n + l
      <4>1. k - n \in 1..m /\ k = n + (k - n)
        BY <2>2
      <4> QED BY <4>1
    <3>2. l \in 0..m /\ l - 1 \in 0..m /\ k - 1 = n + (l - 1)
      BY <3>1
    <3>3. h[l] = Turn(seps, h[l - 1], b[l]) /\ both[k] = b[l] /\ g[k] = h[l] /\ g[k - 1] = h[l - 1]
      BY <1>3, <1>5, <1>10, <3>1, <3>2
    <3> QED BY <3>3
  <2> QED BY <2>1, <2>2
<1> QED BY <1>2, <1>3, <1>8, <1>9, <1>11, <1>4 DEF Leads

LEMMA LeadsOneWay ==
    ASSUME NEW seps, NEW r, NEW text \in Text, NEW q, NEW z,
           Leads(seps, r, text, q), Leads(seps, r, text, z)
    PROVE  q = z
<1>1. PICK n \in Nat : n = Len(text)
  BY DEF Text
<1>2. PICK f : /\ f[0] = r /\ f[n] = q
               /\ \A k \in 1..n : f[k] = Turn(seps, f[k - 1], text[k])
  BY <1>1 DEF Leads
<1>3. PICK g : /\ g[0] = r /\ g[n] = z
               /\ \A k \in 1..n : g[k] = Turn(seps, g[k - 1], text[k])
  BY <1>1 DEF Leads
<1>4. SameTurns(f, g, n)
  BY <1>2, <1>3 DEF SameTurns
<1>5. f[n] = g[n]
  BY <1>4, SameLoops
<1> QED BY <1>2, <1>3, <1>5

\* Cutting texts one by one is reading them put together.
LEMMA LeadsThrough ==
    ASSUME NEW seps, NEW n \in Nat, NEW ss \in Seq(Text), n = Len(ss), NEW st,
           \A k \in 1..n : Leads(seps, st[k - 1], ss[k], st[k])
    PROVE  Leads(seps, st[0], FlattenSeq(ss), st[n])
<1>1. PICK f : Joins(f, ss, n)
  BY Flattened, Zenon
<1>2. /\ f[0] = <<>> /\ FlattenSeq(ss) = f[n]
      /\ \A k \in 1..n : f[k] = f[k - 1] \o ss[k] /\ f[k - 1] \in Text /\ ss[k] \in Text
  <2>1. \A k \in 1..n : ss[k] \in Text
    OBVIOUS
  <2>2. \A k \in 1..n : f[k - 1] \in Text
    <3>1. f \in [0..n -> Text] /\ \A k \in 1..n : k - 1 \in 0..n
      BY <1>1 DEF Joins
    <3> QED BY <3>1
  <2> QED BY <1>1, <2>1, <2>2 DEF Joins
<1> DEFINE S == {k \in 0..n : Leads(seps, st[0], f[k], st[k])}
<1>3. 0 \in S
  BY <1>2, LeadsNowhere
<1>4. \A k \in 1..n : k - 1 \in S => k \in S
  <2> SUFFICES ASSUME NEW k \in 1..n, k - 1 \in S PROVE Leads(seps, st[0], f[k], st[k])
    OBVIOUS
  <2>1. Leads(seps, st[0], f[k - 1], st[k - 1]) /\ Leads(seps, st[k - 1], ss[k], st[k])
    OBVIOUS
  <2>2. Leads(seps, st[0], f[k - 1] \o ss[k], st[k])
    BY <1>2, <2>1, LeadsFurther
  <2> QED BY <1>2, <2>2
<1> HIDE DEF S
<1>5. \A k \in 0..n : k \in S
  BY <1>3, <1>4, Reached, Zenon
<1>6. n \in S
  BY <1>5
<1> QED BY <1>2, <1>6 DEF S


LEMMA FlattenText ==
    ASSUME NEW ss \in Seq(Text)
    PROVE  FlattenSeq(ss) \in Text
<1>1. PICK n \in Nat : n = Len(ss)
  OBVIOUS
<1>2. PICK f : Joins(f, ss, n)
  BY <1>1, Flattened, Zenon
<1>3. f \in [0..n -> Text] /\ n \in 0..n /\ FlattenSeq(ss) = f[n]
  BY <1>2 DEF Joins
<1> QED BY <1>3

LEMMA LeadsOne ==
    ASSUME NEW seps, NEW r, NEW c \in Int
    PROVE  Leads(seps, r, <<c>>, Turn(seps, r, c))
<1>1. <<>> \in Text /\ <<>> \o <<c>> = <<c>>
  BY DEF Text
<1>2. Leads(seps, r, <<>> \o <<c>>, Turn(seps, r, c))
  BY <1>1, LeadsNowhere, LeadsOn, Zenon
<1> QED BY <1>1, <1>2, Zenon

LEMMA LeadsTwo ==
    ASSUME NEW seps, NEW r, NEW b \in Int, NEW c \in Int
    PROVE  Leads(seps, r, <<b, c>>, Turn(seps, Turn(seps, r, b), c))
<1>1. <<b>> \in Text /\ <<b>> \o <<c>> = <<b, c>>
  <2>1. <<b>> \in Text
    BY DEF Text
  <2>2. <<b>> \o <<c>> = <<b, c>>
    <3> DEFINE x == <<b>> \o <<c>>
               y == <<b, c>>
    <3>1. x \in Seq(Int) /\ Len(x) = 2 /\ x[1] = b /\ x[2] = c
      <4>1. <<b>> \in Seq(Int) /\ <<c>> \in Seq(Int) /\ Len(<<b>>) = 1 /\ Len(<<c>>) = 1
        OBVIOUS
      <4> QED BY <4>1, ConcatProperties
    <3>2. y \in Seq(Int) /\ Len(y) = 2 /\ y[1] = b /\ y[2] = c
      OBVIOUS
    <3> HIDE DEF x, y
    <3>3. \A i \in 1..2 : i = 1 \/ i = 2
      OBVIOUS
    <3>4. x = y
      BY <3>1, <3>2, <3>3, SeqEqual
    <3> QED BY <3>4 DEF x, y
  <2> QED BY <2>1, <2>2
<1>2. Leads(seps, r, <<b>> \o <<c>>, Turn(seps, Turn(seps, r, b), c))
  BY <1>1, LeadsOne, LeadsOn, Zenon
<1> QED BY <1>1, <1>2, Zenon

\* The text with the n-th character is the text before it, and that character.
LEMMA OneMore ==
    ASSUME NEW part \in Text, NEW name \in Text, NEW n \in 1..Len(name)
    PROVE  part \o SubSeq(name, 1, n) = Append(part \o SubSeq(name, 1, n - 1), name[n])
<1>1. PICK a \in Text : a = SubSeq(name, 1, n - 1)
  <2>1. SubSeq(name, 1, n - 1) \in Text
    BY DEF Text
  <2> QED BY <2>1
<1>2. SubSeq(name, 1, n) = Append(a, name[n]) /\ name[n] \in Int
  BY <1>1 DEF Text
<1>3. part \o Append(a, name[n]) = Append(part \o a, name[n])
  BY <1>2 DEF Text
<1> QED BY <1>1, <1>2, <1>3

LEMMA EscapePieces ==
    ASSUME NEW name \in Text
    PROVE  \E ss \in Seq(Text) :
              /\ Len(ss) = Len(name) /\ Escape(name) = FlattenSeq(ss)
              /\ \A i \in 1..Len(name) :
                    ss[i] = IF name[i] \in {Comma, Equals, Backslash} THEN <<Backslash, name[i]>> ELSE <<name[i]>>
<1> DEFINE ss == [i \in DOMAIN name |->
                    IF name[i] \in {Comma, Equals, Backslash} THEN <<Backslash, name[i]>> ELSE <<name[i]>>]
<1>1. PICK n \in Nat : n = Len(name) /\ DOMAIN name = 1..n
  BY DEF Text
<1>2. Backslash \in Int /\ \A i \in 1..n : name[i] \in Int
  BY <1>1, SeriesAssumption DEF Text
<1>3. \A i \in 1..n : ss[i] \in Text
  <2> SUFFICES ASSUME NEW i \in 1..n PROVE ss[i] \in Text
    OBVIOUS
  <2>1. <<Backslash, name[i]>> \in Text /\ <<name[i]>> \in Text
    BY <1>2 DEF Text
  <2> QED BY <1>1, <2>1
<1>4. ss \in [1..n -> Text]
  BY <1>1, <1>3
<1>5. Escape(name) = FlattenSeq(ss)
  BY DEF Escape
<1>6. \A i \in 1..n : ss[i] = IF name[i] \in {Comma, Equals, Backslash} THEN <<Backslash, name[i]>> ELSE <<name[i]>>
  BY <1>1
<1> HIDE DEF ss
<1>7. ss \in Seq(Text) /\ Len(ss) = n
  BY <1>4
<1> QED BY <1>1, <1>5, <1>6, <1>7

LEMMA EscapeText == \A name \in Text : Escape(name) \in Text
BY EscapePieces, FlattenText

\* Whatever is cut at, a name that was escaped is read whole.
LEMMA EscapeRead ==
    ASSUME NEW seps \in SUBSET {Comma, Equals}, NEW parts, NEW part \in Text, NEW name \in Text
    PROVE  Leads(seps, Cutting(parts, part), Escape(name), Cutting(parts, part \o name))
<1>1. PICK n \in Nat : n = Len(name) /\ \A i \in 1..n : name[i] \in Int
  BY DEF Text
<1>2. PICK ss \in Seq(Text) :
              /\ Len(ss) = n /\ Escape(name) = FlattenSeq(ss)
              /\ \A i \in 1..n :
                    ss[i] = IF name[i] \in {Comma, Equals, Backslash} THEN <<Backslash, name[i]>> ELSE <<name[i]>>
  BY <1>1, EscapePieces
<1>3. Backslash \in Int /\ Backslash \notin seps
  BY SeriesAssumption
<1> DEFINE st == [i \in 0..n |-> Cutting(parts, part \o SubSeq(name, 1, i))]
<1>4. ASSUME NEW k \in 1..n PROVE Leads(seps, st[k - 1], ss[k], st[k])
  <2>1. PICK c \in Int : c = name[k]
    BY <1>1
  <2>2. PICK old : old = part \o SubSeq(name, 1, k - 1)
    OBVIOUS
  <2>3. st[k - 1] = Cutting(parts, old) /\ st[k] = Cutting(parts, Append(old, c))
    <3>1. k \in 0..n /\ k - 1 \in 0..n
      OBVIOUS
    <3>2. part \o SubSeq(name, 1, k) = Append(old, c)
      BY <1>1, <2>1, <2>2, OneMore
    <3> QED BY <2>2, <3>1, <3>2
  <2> HIDE DEF st
  <2>4. CASE c \in {Comma, Equals, Backslash}
    <3>1. Turn(seps, Turn(seps, Cutting(parts, old), Backslash), c) = Cutting(parts, Append(old, c))
      <4>1. Turn(seps, Cutting(parts, old), Backslash) = Marking(parts, old)
        BY TurnMarks, Zenon
      <4>2. Turn(seps, Marking(parts, old), c) = Cutting(parts, Append(old, c))
        BY TurnUnmarks
      <4> QED BY <4>1, <4>2, Zenon
    <3>2. ss[k] = <<Backslash, c>>
      BY <1>2, <2>1, <2>4
    <3>3. Leads(seps, Cutting(parts, old), <<Backslash, c>>, Turn(seps, Turn(seps, Cutting(parts, old), Backslash), c))
      BY <1>3, LeadsTwo
    <3> QED BY <2>3, <3>1, <3>2, <3>3, Zenon
  <2>5. CASE c \notin {Comma, Equals, Backslash}
    <3>1. Turn(seps, Cutting(parts, old), c) = Cutting(parts, Append(old, c))
      BY <2>5, TurnReads
    <3>2. ss[k] = <<c>>
      BY <1>2, <2>1, <2>5
    <3>3. Leads(seps, Cutting(parts, old), <<c>>, Turn(seps, Cutting(parts, old), c))
      BY LeadsOne
    <3> QED BY <2>3, <3>1, <3>2, <3>3, Zenon
  <2> QED BY <2>4, <2>5
<1>5. st[0] = Cutting(parts, part) /\ st[n] = Cutting(parts, part \o name)
  <2>1. part \o SubSeq(name, 1, 0) = part /\ part \o SubSeq(name, 1, n) = part \o name
    <3>1. name \in Seq(Int) /\ part \in Seq(Int) /\ SubSeq(name, 1, 0) = <<>>
      BY SubSeqEmpty DEF Text
    <3>2. SubSeq(name, 1, n) = name
      BY <1>1, <3>1, SubSeqFull
    <3>3. part \o <<>> = part
      BY <3>1, ConcatEmptySeq
    <3> QED BY <3>1, <3>2, <3>3
  <2>2. 0 \in 0..n /\ n \in 0..n
    OBVIOUS
  <2> QED BY <2>1, <2>2
<1> HIDE DEF st
<1>6. \A k \in 1..n : Leads(seps, st[k - 1], ss[k], st[k])
  BY <1>4
<1>7. Leads(seps, st[0], FlattenSeq(ss), st[n])
  BY <1>2, <1>6, LeadsThrough, Zenon
<1> QED BY <1>2, <1>5, <1>7, Zenon


-----------------------------------------------------------------------------
(* Cutting a key                                                           *)

TagPair == Text \X Text
Piece(t) == <<Comma>> \o Escape(t[1]) \o <<Equals>> \o Escape(t[2])

LEMMA PieceText == \A t \in TagPair : Piece(t) \in Text
<1> SUFFICES ASSUME NEW t \in TagPair PROVE Piece(t) \in Text
  OBVIOUS
<1>1. Escape(t[1]) \in Text /\ Escape(t[2]) \in Text
  BY EscapeText DEF TagPair
<1>2. <<Comma>> \in Text /\ <<Equals>> \in Text
  BY SeriesAssumption DEF Text
<1>3. \A a, b \in Text : a \o b \in Text
  BY DEF Text
<1> QED BY <1>1, <1>2, <1>3 DEF Piece

\* Up to the equals sign of a pair, its key has been read.
LEMMA KeyRead ==
    ASSUME NEW seps \in SUBSET {Comma, Equals}, Comma \in seps, NEW parts, NEW part \in Text, NEW k \in Text
    PROVE  /\ <<Comma>> \o Escape(k) \in Text
           /\ Leads(seps, Cutting(parts, part), <<Comma>> \o Escape(k), Cutting(Append(parts, part), k))
<1>1. Comma \in Int /\ Comma # Backslash
  BY SeriesAssumption
<1>2. <<Comma>> \in Text /\ <<>> \in Text /\ Escape(k) \in Text /\ <<>> \o k = k
  BY <1>1, EscapeText DEF Text
<1>3. Leads(seps, Cutting(parts, part), <<Comma>>, Cutting(Append(parts, part), <<>>))
  <2>1. Turn(seps, Cutting(parts, part), Comma) = Cutting(Append(parts, part), <<>>)
    BY <1>1, TurnCuts
  <2>2. Leads(seps, Cutting(parts, part), <<Comma>>, Turn(seps, Cutting(parts, part), Comma))
    BY <1>1, LeadsOne
  <2> QED BY <2>1, <2>2, Zenon
<1>4. Leads(seps, Cutting(Append(parts, part), <<>>), Escape(k), Cutting(Append(parts, part), k))
  <2>1. PICK before : before = Append(parts, part)
    OBVIOUS
  <2>2. Leads(seps, Cutting(before, <<>>), Escape(k), Cutting(before, <<>> \o k))
    BY <1>2, EscapeRead
  <2> QED BY <1>2, <2>1, <2>2, Zenon
<1>5. Leads(seps, Cutting(parts, part), <<Comma>> \o Escape(k), Cutting(Append(parts, part), k))
  BY <1>2, <1>3, <1>4, LeadsFurther, Zenon
<1>6. <<Comma>> \o Escape(k) \in Text
  BY <1>2 DEF Text
<1> QED BY <1>5, <1>6

\* Cut at equals signs too, a pair is its key and its value.
LEMMA PieceCut ==
    ASSUME NEW seps, seps = {Comma, Equals}, NEW parts, NEW part \in Text, NEW t \in TagPair
    PROVE  Leads(seps, Cutting(parts, part), Piece(t), Cutting(Append(Append(parts, part), t[1]), t[2]))
<1>1. seps \in SUBSET {Comma, Equals} /\ Comma \in seps /\ Equals \in seps /\ Equals \in Int /\ Equals # Backslash
  BY SeriesAssumption
<1>2. PICK k \in Text, v \in Text : k = t[1] /\ v = t[2]
  BY DEF TagPair
<1>3. PICK before : before = Append(parts, part)
  OBVIOUS
<1>4. PICK a \in Text : a = <<Comma>> \o Escape(k)
  BY <1>1, KeyRead
<1>5. Leads(seps, Cutting(parts, part), a, Cutting(before, k))
  BY <1>1, <1>3, <1>4, KeyRead, Zenon
<1>6. Leads(seps, Cutting(before, k), <<Equals>>, Cutting(Append(before, k), <<>>))
  <2>1. Turn(seps, Cutting(before, k), Equals) = Cutting(Append(before, k), <<>>)
    BY <1>1, TurnCuts
  <2>2. Leads(seps, Cutting(before, k), <<Equals>>, Turn(seps, Cutting(before, k), Equals))
    BY <1>1, LeadsOne
  <2> QED BY <2>1, <2>2, Zenon
<1>7. <<Equals>> \in Text /\ <<>> \in Text /\ Escape(v) \in Text /\ <<>> \o v = v
  BY <1>1, EscapeText DEF Text
<1>8. Leads(seps, Cutting(parts, part), a \o <<Equals>>, Cutting(Append(before, k), <<>>))
  BY <1>5, <1>6, <1>7, LeadsFurther, Zenon
<1>9. Leads(seps, Cutting(Append(before, k), <<>>), Escape(v), Cutting(Append(before, k), v))
  <2>1. PICK p : p = Append(before, k)
    OBVIOUS
  <2>2. Leads(seps, Cutting(p, <<>>), Escape(v), Cutting(p, <<>> \o v))
    BY <1>1, <1>7, EscapeRead
  <2> QED BY <1>7, <2>1, <2>2, Zenon
<1>10. a \o <<Equals>> \in Text
  BY <1>7 DEF Text
<1>11. Leads(seps, Cutting(parts, part), (a \o <<Equals>>) \o Escape(v), Cutting(Append(before, k), v))
  BY <1>7, <1>8, <1>9, <1>10, LeadsFurther, Zenon
<1>12. Piece(t) = (a \o <<Equals>>) \o Escape(v)
  BY <1>2, <1>4 DEF Piece
<1> QED BY <1>2, <1>3, <1>11, <1>12, Zenon

\* Cut at commas only, it is one text.
LEMMA PieceKept ==
    ASSUME NEW seps, seps = {Comma}, NEW parts, NEW part \in Text, NEW t \in TagPair
    PROVE  Leads(seps, Cutting(parts, part), Piece(t), Cutting(Append(parts, part), Append(t[1], Equals) \o t[2]))
<1>1. /\ seps \in SUBSET {Comma, Equals} /\ Comma \in seps /\ Equals \notin seps
      /\ Equals \in Int /\ Equals # Backslash
  BY SeriesAssumption
<1>2. PICK k \in Text, v \in Text : k = t[1] /\ v = t[2]
  BY DEF TagPair
<1>3. PICK before : before = Append(parts, part)
  OBVIOUS
<1>4. PICK a \in Text : a = <<Comma>> \o Escape(k)
  BY <1>1, KeyRead
<1>5. Leads(seps, Cutting(parts, part), a, Cutting(before, k))
  BY <1>1, <1>3, <1>4, KeyRead, Zenon
<1>6. Leads(seps, Cutting(before, k), <<Equals>>, Cutting(before, Append(k, Equals)))
  <2>1. Turn(seps, Cutting(before, k), Equals) = Cutting(before, Append(k, Equals))
    BY <1>1, TurnReads
  <2>2. Leads(seps, Cutting(before, k), <<Equals>>, Turn(seps, Cutting(before, k), Equals))
    BY <1>1, LeadsOne
  <2> QED BY <2>1, <2>2, Zenon
<1>7. <<Equals>> \in Text /\ Escape(v) \in Text
  BY <1>1, EscapeText DEF Text
<1> DEFINE left == Append(k, Equals)
<1>13. left \in Text
  BY <1>1 DEF Text
<1> HIDE DEF left
<1>8. Leads(seps, Cutting(parts, part), a \o <<Equals>>, Cutting(before, left))
  BY <1>5, <1>6, <1>7, LeadsFurther, Zenon DEF left
<1>9. Leads(seps, Cutting(before, left), Escape(v), Cutting(before, left \o v))
  BY <1>1, <1>13, EscapeRead
<1>10. a \o <<Equals>> \in Text
  BY <1>7 DEF Text
<1>11. Leads(seps, Cutting(parts, part), (a \o <<Equals>>) \o Escape(v), Cutting(before, left \o v))
  BY <1>7, <1>8, <1>9, <1>10, LeadsFurther, Zenon
<1>12. Piece(t) = (a \o <<Equals>>) \o Escape(v)
  BY <1>2, <1>4 DEF Piece
<1> QED BY <1>2, <1>3, <1>11, <1>12, Zenon DEF left

\* A key is read name by name.
LEMMA NamesRead ==
    ASSUME NEW seps \in SUBSET {Comma, Equals}, NEW name \in Text, NEW n \in Nat, NEW pairs \in [1..n -> TagPair], NEW st,
           st[0] = Cutting(<<>>, name),
           \A k \in 1..n : Leads(seps, st[k - 1], Piece(pairs[k]), st[k]),
           NEW key, key = Escape(name) \o FlattenSeq([k \in 1..n |-> Piece(pairs[k])])
    PROVE  key \in Text /\ Leads(seps, Cutting(<<>>, <<>>), key, st[n])
<1> DEFINE ss == [k \in 1..n |-> Piece(pairs[k])]
<1>1. \A k \in 1..n : pairs[k] \in TagPair
  OBVIOUS
<1>2. ss \in [1..n -> Text] /\ \A k \in 1..n : ss[k] = Piece(pairs[k])
  BY <1>1, PieceText
<1> HIDE DEF ss
<1>3. ss \in Seq(Text) /\ n = Len(ss)
  BY <1>2
<1>4. PICK rest \in Text : rest = FlattenSeq(ss)
  BY <1>3, FlattenText
<1>5. \A k \in 1..n : Leads(seps, st[k - 1], ss[k], st[k])
  BY <1>2
<1>6. Leads(seps, st[0], rest, st[n])
  <2>1. Leads(seps, st[0], FlattenSeq(ss), st[n])
    BY <1>3, <1>5, LeadsThrough, Zenon
  <2> QED BY <1>4, <2>1, Zenon
<1>7. <<>> \in Text /\ <<>> \o name = name /\ Escape(name) \in Text
  BY EscapeText DEF Text
<1>8. Leads(seps, Cutting(<<>>, <<>>), Escape(name), Cutting(<<>>, <<>> \o name))
  BY <1>7, EscapeRead
<1>9. Leads(seps, Cutting(<<>>, <<>>), Escape(name), st[0])
  BY <1>7, <1>8, Zenon
<1>10. Leads(seps, Cutting(<<>>, <<>>), Escape(name) \o rest, st[n])
  BY <1>6, <1>7, <1>9, LeadsFurther, Zenon
<1>11. Escape(name) \o rest \in Text
  BY <1>7 DEF Text
<1>12. key = Escape(name) \o rest
  BY <1>4 DEF ss
<1> QED BY <1>10, <1>11, <1>12, Zenon


-----------------------------------------------------------------------------
(* The order of texts                                                      *)

\* They differ at i for the first time, and a ends there or is smaller.
BeforeAt(a, b, i) ==
    /\ i \in 1..Len(b) /\ \A j \in 1..(i - 1) : j \in 1..Len(a) /\ a[j] = b[j]
    /\ i = Len(a) + 1 \/ (i \in 1..Len(a) /\ a[i] < b[i])

LEMMA BeforeIs ==
    ASSUME NEW a \in Text, NEW b \in Text
    PROVE  Before(a, b) <=> \E i \in Nat : BeforeAt(a, b, i)
<1>1. PICK n \in Nat, m \in Nat : n = Len(a) /\ m = Len(b) /\ DOMAIN a = 1..n /\ DOMAIN b = 1..m
  BY DEF Text
<1>2. SubSeq(a, 1, n) = a
  BY <1>1, SubSeqFull DEF Text
<1>3. ASSUME n =< m
      PROVE  /\ SubSeq(b, 1, n) \in Text /\ Len(SubSeq(b, 1, n)) = n
             /\ \A i \in 1..n : SubSeq(b, 1, n)[i] = b[i]
  <2>1. \A i \in 1..n : b[i] \in Int
    BY <1>1, <1>3 DEF Text
  <2>2. /\ SubSeq(b, 1, n) \in Seq(Int) /\ Len(SubSeq(b, 1, n)) = IF 1 =< n THEN n - 1 + 1 ELSE 0
        /\ \A i \in 1..(n - 1 + 1) : SubSeq(b, 1, n)[i] = b[1 + i - 1]
    BY <2>1, SubSeqProperties
  <2> QED BY <2>2 DEF Text
<1>4. IsStrictPrefix(a, b) <=> n < m /\ \A j \in 1..n : a[j] = b[j]
  <2>1. ASSUME n =< m PROVE a = SubSeq(b, 1, n) <=> \A j \in 1..n : a[j] = b[j]
    <3>1. (\A j \in 1..n : a[j] = SubSeq(b, 1, n)[j]) => a = SubSeq(b, 1, n)
      BY <1>1, <1>3, <2>1, SeqEqual DEF Text
    <3> QED BY <1>3, <2>1, <3>1
  <2>2. (n = m /\ \A j \in 1..n : a[j] = b[j]) => a = b
    BY <1>1, SeqEqual DEF Text
  <2>3. IsStrictPrefix(a, b) <=> (n =< m /\ a = SubSeq(b, 1, n) /\ a # b)
    BY <1>1, <1>2 DEF IsStrictPrefix, IsPrefix
  <2>4. n < m => a # b
    BY <1>1
  <2> QED BY <2>1, <2>2, <2>3, <2>4
<1>5. ASSUME IsStrictPrefix(a, b) PROVE BeforeAt(a, b, n + 1)
  BY <1>1, <1>4, <1>5 DEF BeforeAt
<1>6. ASSUME NEW i \in DOMAIN a \cap DOMAIN b, a[i] < b[i], \A j \in 1..(i - 1) : a[j] = b[j]
      PROVE  BeforeAt(a, b, i)
  BY <1>1, <1>6 DEF BeforeAt
<1>7. ASSUME NEW i \in Nat, BeforeAt(a, b, i) PROVE Before(a, b)
  <2>1. CASE i = n + 1
    <3>1. n < m /\ \A j \in 1..n : a[j] = b[j]
      BY <1>1, <1>7, <2>1 DEF BeforeAt
    <3> QED BY <1>4, <3>1 DEF Before
  <2>2. CASE i # n + 1
    <3>1. i \in DOMAIN a \cap DOMAIN b /\ a[i] < b[i] /\ \A j \in 1..(i - 1) : a[j] = b[j]
      BY <1>1, <1>7, <2>2 DEF BeforeAt
    <3> QED BY <3>1 DEF Before
  <2> QED BY <2>1, <2>2
<1>8. ASSUME Before(a, b) PROVE \E i \in Nat : BeforeAt(a, b, i)
  <2>1. CASE IsStrictPrefix(a, b)
    <3>1. n + 1 \in Nat
      OBVIOUS
    <3> QED BY <1>5, <2>1, <3>1
  <2>2. CASE ~IsStrictPrefix(a, b)
    <3>1. PICK i \in DOMAIN a \cap DOMAIN b : a[i] < b[i] /\ \A j \in 1..(i - 1) : a[j] = b[j]
      BY <1>8, <2>2 DEF Before
    <3>2. i \in Nat
      BY <1>1
    <3> QED BY <1>6, <3>1, <3>2
  <2> QED BY <2>1, <2>2
<1> QED BY <1>7, <1>8

LEMMA NotBeforeItself == \A a \in Text : ~Before(a, a)
<1> SUFFICES ASSUME NEW a \in Text, NEW i \in Nat, BeforeAt(a, a, i) PROVE FALSE
  BY BeforeIs
<1>1. PICK n \in Nat : n = Len(a) /\ \A j \in 1..n : a[j] \in Int
  BY DEF Text
<1> QED BY <1>1 DEF BeforeAt

LEMMA BeforeThrough ==
    ASSUME NEW a \in Text, NEW b \in Text, NEW c \in Text, Before(a, b), Before(b, c)
    PROVE  Before(a, c)
<1>1. PICK n \in Nat, m \in Nat, l \in Nat : n = Len(a) /\ m = Len(b) /\ l = Len(c)
  BY DEF Text
<1>2. /\ \A j \in 1..n : a[j] \in Int
      /\ \A j \in 1..m : b[j] \in Int
      /\ \A j \in 1..l : c[j] \in Int
  BY <1>1 DEF Text
<1>3. PICK i \in Nat : BeforeAt(a, b, i)
  BY BeforeIs
<1>4. PICK k \in Nat : BeforeAt(b, c, k)
  BY BeforeIs
<1>5. /\ i \in 1..m /\ \A j \in 1..(i - 1) : j \in 1..n /\ a[j] = b[j]
      /\ i = n + 1 \/ (i \in 1..n /\ a[i] < b[i])
  BY <1>1, <1>3 DEF BeforeAt
<1>6. /\ k \in 1..l /\ \A j \in 1..(k - 1) : j \in 1..m /\ b[j] = c[j]
      /\ k = m + 1 \/ (k \in 1..m /\ b[k] < c[k])
  BY <1>1, <1>4 DEF BeforeAt
<1>7. CASE i =< k
  <2>1. i \in 1..l
    BY <1>5, <1>6, <1>7
  <2>2. \A j \in 1..(i - 1) : j \in 1..n /\ a[j] = c[j]
    <3> SUFFICES ASSUME NEW j \in 1..(i - 1) PROVE j \in 1..n /\ a[j] = c[j]
      OBVIOUS
    <3>1. j \in 1..(k - 1)
      BY <1>7
    <3> QED BY <1>5, <1>6, <3>1
  <2>3. i = n + 1 \/ (i \in 1..n /\ a[i] < c[i])
    <3>1. CASE i \in 1..n /\ a[i] < b[i]
      <4>1. b[i] = c[i] \/ b[i] < c[i]
        BY <1>5, <1>6, <1>7
      <4>2. a[i] \in Int /\ b[i] \in Int /\ c[i] \in Int
        BY <1>2, <1>5, <2>1, <3>1
      <4> QED BY <3>1, <4>1, <4>2
    <3> QED BY <1>5, <3>1
  <2>4. BeforeAt(a, c, i)
    BY <1>1, <2>1, <2>2, <2>3 DEF BeforeAt
  <2> QED BY <2>4, BeforeIs
<1>8. CASE ~(i =< k)
  <2>1. k \in 1..(i - 1)
    BY <1>6, <1>8
  <2>2. k \in 1..n /\ a[k] = b[k] /\ k \in 1..m
    BY <1>5, <2>1
  <2>3. \A j \in 1..(k - 1) : j \in 1..n /\ a[j] = c[j]
    <3> SUFFICES ASSUME NEW j \in 1..(k - 1) PROVE j \in 1..n /\ a[j] = c[j]
      OBVIOUS
    <3>1. j \in 1..(i - 1)
      BY <1>8
    <3> QED BY <1>5, <1>6, <3>1
  <2>4. a[k] < c[k]
    BY <1>6, <2>2
  <2>5. BeforeAt(a, c, k)
    BY <1>1, <1>6, <2>2, <2>3, <2>4 DEF BeforeAt
  <2> QED BY <2>5, BeforeIs
<1> QED BY <1>7, <1>8

LEMMA OneIsBefore ==
    ASSUME NEW a \in Text, NEW b \in Text, a # b
    PROVE  Before(a, b) \/ Before(b, a)
<1>1. PICK n \in Nat, m \in Nat : n = Len(a) /\ m = Len(b)
  BY DEF Text
<1>2. /\ \A j \in 1..n : a[j] \in Int
      /\ \A j \in 1..m : b[j] \in Int
  BY <1>1 DEF Text
<1> DEFINE Differ == {i \in Nat : i \in 1..n /\ i \in 1..m /\ a[i] # b[i]}
<1>3. CASE Differ = {}
  <2>1. \A j \in Nat : j \in 1..n /\ j \in 1..m => a[j] = b[j]
    BY <1>3
  <2>2. n # m
    <3> SUFFICES ASSUME n = m PROVE a = b
      OBVIOUS
    <3>1. \A j \in 1..n : a[j] = b[j]
      BY <2>1
    <3> QED BY <1>1, <3>1, SeqEqual DEF Text
  <2>3. CASE n < m
    <3>1. \A j \in 1..n : j \in 1..m
      BY <2>3
    <3>2. BeforeAt(a, b, n + 1)
      BY <1>1, <2>1, <2>3, <3>1 DEF BeforeAt
    <3>3. n + 1 \in Nat
      OBVIOUS
    <3> QED BY <3>2, <3>3, BeforeIs
  <2>4. CASE m < n
    <3>1. \A j \in 1..m : j \in 1..n
      BY <2>4
    <3>2. BeforeAt(b, a, m + 1)
      BY <1>1, <2>1, <2>4, <3>1 DEF BeforeAt
    <3>3. m + 1 \in Nat
      OBVIOUS
    <3> QED BY <3>2, <3>3, BeforeIs
  <2> QED BY <2>2, <2>3, <2>4
<1>4. CASE Differ # {}
  <2>1. PICK i \in Differ : \A j \in Differ : i =< j
    <3>1. Differ \in SUBSET Nat
      OBVIOUS
    <3> HIDE DEF Differ
    <3> QED BY <1>4, <3>1, LeastNatural
  <2>2. i \in Nat /\ i \in 1..n /\ i \in 1..m /\ a[i] # b[i]
    OBVIOUS
  <2>3. \A j \in 1..(i - 1) : j \in 1..n /\ j \in 1..m /\ a[j] = b[j]
    <3> SUFFICES ASSUME NEW j \in 1..(i - 1) PROVE j \in 1..n /\ j \in 1..m /\ a[j] = b[j]
      OBVIOUS
    <3>1. j \in Nat /\ j \in 1..n /\ j \in 1..m /\ ~(i =< j)
      BY <2>2
    <3>2. j \notin Differ
      BY <2>1, <3>1
    <3> QED BY <3>1, <3>2
  <2>4. CASE a[i] < b[i]
    <3>1. BeforeAt(a, b, i)
      BY <1>1, <2>2, <2>3, <2>4 DEF BeforeAt
    <3> QED BY <2>2, <3>1, BeforeIs
  <2>5. CASE b[i] < a[i]
    <3>1. BeforeAt(b, a, i)
      BY <1>1, <2>2, <2>3, <2>5 DEF BeforeAt
    <3> QED BY <2>2, <3>1, BeforeIs
  <2> QED BY <1>2, <2>2, <2>4, <2>5
<1> QED BY <1>3, <1>4


IsDict(tags) == tags \subseteq TagPair /\ IsFiniteSet(tags) /\ \A t, u \in tags : t[1] = u[1] => t = u

\* Each place of the sorted tags holds one tag, and each tag has a place.
LEMMA SortedIs ==
    ASSUME NEW tags, IsDict(tags), NEW n, n = Cardinality(tags)
    PROVE  /\ n \in Nat /\ Sorted(tags) \in [1..n -> tags]
           /\ \A t \in tags : \E k \in 1..n : Sorted(tags)[k] = t
<1> DEFINE Earlier(t) == {u \in tags : Before(u[1], t[1])}
           Rank(t) == Cardinality(Earlier(t))
           place == [t \in tags |-> 1 + Rank(t)]
<1>1. /\ IsFiniteSet(tags) /\ n \in Nat
      /\ \A t \in tags : t[1] \in Text
      /\ \A t, u \in tags : t[1] = u[1] => t = u
  <2>1. tags \subseteq TagPair /\ IsFiniteSet(tags) /\ \A t, u \in tags : t[1] = u[1] => t = u
    BY DEF IsDict
  <2>2. n \in Nat
    BY <2>1, FS_CardinalityType
  <2> QED BY <2>1, <2>2 DEF TagPair
<1>2. ASSUME NEW t \in tags
      PROVE  IsFiniteSet(Earlier(t)) /\ Rank(t) \in Nat /\ Rank(t) < n
  <2>1. Earlier(t) \in SUBSET tags /\ t \notin Earlier(t)
    BY <1>1, NotBeforeItself
  <2> HIDE DEF Earlier
  <2>2. IsFiniteSet(Earlier(t)) /\ Earlier(t) # tags
    BY <1>1, <2>1, FS_Subset
  <2>3. Rank(t) \in Nat
    BY <2>2, FS_CardinalityType
  <2>4. Rank(t) =< n /\ (n = Rank(t) => tags = Earlier(t))
    BY <1>1, <2>1, FS_Subset
  <2> QED BY <1>1, <2>2, <2>3, <2>4
<1>3. ASSUME NEW t \in tags, NEW u \in tags, Before(u[1], t[1])
      PROVE  Rank(u) < Rank(t)
  <2>1. u \in Earlier(t) /\ u \notin Earlier(u)
    BY <1>1, <1>3, NotBeforeItself
  <2>2. Earlier(u) \in SUBSET Earlier(t)
    <3> SUFFICES ASSUME NEW v \in tags, Before(v[1], u[1]) PROVE Before(v[1], t[1])
      OBVIOUS
    <3>1. v[1] \in Text /\ u[1] \in Text /\ t[1] \in Text
      BY <1>1
    <3> QED BY <1>3, <3>1, BeforeThrough
  <2> HIDE DEF Earlier
  <2>3. Earlier(u) # Earlier(t)
    BY <2>1
  <2>4. Rank(u) =< Rank(t) /\ (Rank(t) = Rank(u) => Earlier(t) = Earlier(u))
    BY <1>2, <2>2, FS_Subset
  <2> QED BY <1>2, <2>3, <2>4
<1> HIDE DEF Rank, Earlier
<1>4. \A t, u \in tags : Rank(t) = Rank(u) => t = u
  <2> SUFFICES ASSUME NEW t \in tags, NEW u \in tags, Rank(t) = Rank(u) PROVE t = u
    OBVIOUS
  <2>1. ~Before(t[1], u[1]) /\ ~Before(u[1], t[1])
    BY <1>2, <1>3
  <2>2. t[1] \in Text /\ u[1] \in Text
    BY <1>1
  <2>3. t[1] = u[1]
    BY <2>1, <2>2, OneIsBefore
  <2> QED BY <1>1, <2>3
<1>5. IsFiniteSet(1..n) /\ Cardinality(1..n) = n
  <2>1. 1 \in Int /\ n \in Int /\ (IF 1 > n THEN 0 ELSE n - 1 + 1) = n
    BY <1>1
  <2>2. IsFiniteSet(1..n) /\ Cardinality(1..n) = IF 1 > n THEN 0 ELSE n - 1 + 1
    BY <2>1, FS_Interval, Zenon
  <2> QED BY <2>1, <2>2
<1>6. \A t \in tags : 1 + Rank(t) \in 1..n
  BY <1>1, <1>2
<1>7. place \in Injection(tags, 1..n)
  BY <1>2, <1>4, <1>6 DEF Injection, IsInjective
<1>8. place \in Surjection(tags, 1..n)
  <2> HIDE DEF place
  <2> QED BY <1>1, <1>5, <1>7, FS_Injection
<1>9. \A k \in 1..n : \E t \in tags : Rank(t) = k - 1
  <2> SUFFICES ASSUME NEW k \in 1..n PROVE \E t \in tags : Rank(t) = k - 1
    OBVIOUS
  <2>1. PICK t \in tags : place[t] = k
    BY <1>8 DEF Surjection
  <2>2. Rank(t) = k - 1
    BY <1>2, <2>1
  <2> QED BY <2>2
<1> DEFINE sorted == [k \in 1..n |-> CHOOSE t \in tags : Rank(t) = k - 1]
<1>10. Sorted(tags) = sorted
  BY DEF Sorted, Rank, Earlier
<1>11. \A k \in 1..n : sorted[k] \in tags /\ Rank(sorted[k]) = k - 1
  BY <1>9
<1>12. sorted \in [1..n -> tags]
  BY <1>11
<1> HIDE DEF sorted, place
<1>13. \A t \in tags : \E k \in 1..n : sorted[k] = t
  <2> SUFFICES ASSUME NEW t \in tags PROVE \E k \in 1..n : sorted[k] = t
    OBVIOUS
  <2>1. PICK k \in 1..n : k = 1 + Rank(t)
    BY <1>6
  <2>2. Rank(t) = k - 1
    BY <1>2, <2>1
  <2>3. sorted[k] = t
    BY <1>4, <1>11, <2>2
  <2> QED BY <2>3
<1> QED BY <1>1, <1>10, <1>12, <1>13

-----------------------------------------------------------------------------
(* What a key tells                                                        *)

Listed(s, pairs, n) ==
    /\ n \in Nat /\ pairs \in [1..n -> TagPair] /\ s.tags = {pairs[k] : k \in 1..n}
    /\ s.measurement \in Text
    /\ MakeSeriesKey(s) = Escape(s.measurement) \o FlattenSeq([k \in 1..n |-> Piece(pairs[k])])

LEMMA KeyOf ==
    ASSUME NEW s \in Series
    PROVE  \E n : \E pairs : Listed(s, pairs, n)
<1>1. s.measurement \in Text /\ IsDict(s.tags)
  BY SeriesAssumption DEF IsDict, TagPair
<1>2. PICK n : n = Cardinality(s.tags)
  OBVIOUS
<1>3. PICK pairs : pairs = Sorted(s.tags)
  OBVIOUS
<1>4. n \in Nat /\ pairs \in [1..n -> s.tags] /\ \A t \in s.tags : \E k \in 1..n : pairs[k] = t
  BY <1>1, <1>2, <1>3, SortedIs
<1>5. s.tags \subseteq TagPair
  BY <1>1 DEF IsDict
<1>6. pairs \in [1..n -> TagPair] /\ DOMAIN pairs = 1..n
  BY <1>4, <1>5
<1>7. s.tags = {pairs[k] : k \in 1..n}
  BY <1>4
<1>8. MakeSeriesKey(s) = Escape(s.measurement) \o FlattenSeq([k \in 1..n |-> Piece(pairs[k])])
  BY <1>3, <1>6 DEF MakeSeriesKey, Piece
<1> QED BY <1>1, <1>4, <1>6, <1>7, <1>8 DEF Listed


\* The measurement, and the keys and values in turn.
Names(name, pairs, n) ==
    [j \in 1..(2 * n + 1) |->
        IF j = 1 THEN name ELSE IF j % 2 = 0 THEN pairs[j \div 2][1] ELSE pairs[j \div 2][2]]

NamesOf(all, name, pairs, n) ==
    /\ all \in Seq(Text) /\ Len(all) = 2 * n + 1 /\ all[1] = name
    /\ \A k \in 1..n : all[2 * k] = pairs[k][1] /\ all[2 * k + 1] = pairs[k][2]

LEMMA NamesAre ==
    ASSUME NEW name \in Text, NEW n \in Nat, NEW pairs \in [1..n -> TagPair], NEW all, all = Names(name, pairs, n)
    PROVE  NamesOf(all, name, pairs, n)
<1>1. \A k \in 1..n : pairs[k] \in TagPair /\ pairs[k][1] \in Text /\ pairs[k][2] \in Text
  <2>1. \A k \in 1..n : pairs[k] \in TagPair
    OBVIOUS
  <2> QED BY <2>1 DEF TagPair
<1>2. \A k \in 1..n : /\ 2 * k \in 1..(2 * n + 1) /\ 2 * k # 1 /\ (2 * k) % 2 = 0 /\ (2 * k) \div 2 = k
                      /\ 2 * k + 1 \in 1..(2 * n + 1) /\ 2 * k + 1 # 1 /\ (2 * k + 1) % 2 # 0
                      /\ (2 * k + 1) \div 2 = k
  OBVIOUS
<1>3. \A k \in 1..n : all[2 * k] = pairs[k][1] /\ all[2 * k + 1] = pairs[k][2]
  BY <1>2 DEF Names
<1>4. all[1] = name
  BY DEF Names
<1>5. \A j \in 1..(2 * n + 1) : j = 1 \/ \E k \in 1..n : j = 2 * k \/ j = 2 * k + 1
  <2> SUFFICES ASSUME NEW j \in 1..(2 * n + 1), j # 1 PROVE \E k \in 1..n : j = 2 * k \/ j = 2 * k + 1
    OBVIOUS
  <2>1. j \div 2 \in 1..n /\ (j = 2 * (j \div 2) \/ j = 2 * (j \div 2) + 1)
    OBVIOUS
  <2> QED BY <2>1
<1>6. \A j \in 1..(2 * n + 1) : all[j] \in Text
  BY <1>1, <1>3, <1>4, <1>5
<1>7. all \in [1..(2 * n + 1) -> Text]
  BY <1>6 DEF Names
<1>8. all \in Seq(Text) /\ Len(all) = 2 * n + 1
  <2>1. 2 * n + 1 \in Nat
    OBVIOUS
  <2> QED BY <1>7, <2>1
<1> QED BY <1>3, <1>4, <1>8 DEF NamesOf

\* Cut at every comma and equals sign, the key of a series is its names.
LEMMA KeyCut ==
    ASSUME NEW s, NEW n, NEW pairs, Listed(s, pairs, n), NEW all, all = Names(s.measurement, pairs, n)
    PROVE  /\ MakeSeriesKey(s) \in Text
           /\ Leads({Comma, Equals}, Cutting(<<>>, <<>>), MakeSeriesKey(s),
                    Cutting(SubSeq(all, 1, 2 * n), all[2 * n + 1]))
<1>1. PICK name \in Text : name = s.measurement
  BY DEF Listed
<1>2. /\ n \in Nat /\ pairs \in [1..n -> TagPair]
      /\ MakeSeriesKey(s) = Escape(name) \o FlattenSeq([k \in 1..n |-> Piece(pairs[k])])
  BY <1>1 DEF Listed
<1>3. /\ all \in Seq(Text) /\ Len(all) = 2 * n + 1 /\ all[1] = name
      /\ \A k \in 1..n : all[2 * k] = pairs[k][1] /\ all[2 * k + 1] = pairs[k][2]
  <2>1. NamesOf(all, name, pairs, n)
    BY <1>1, <1>2, NamesAre, Zenon
  <2> QED BY <2>1 DEF NamesOf
<1>4. PICK seps : seps = {Comma, Equals}
  OBVIOUS
<1> DEFINE st == [k \in 0..n |-> Cutting(SubSeq(all, 1, 2 * k), all[2 * k + 1])]
<1>5. st[0] = Cutting(<<>>, name)
  <2>1. SubSeq(all, 1, 2 * 0) = <<>> /\ all[2 * 0 + 1] = name
    BY <1>3, SubSeqEmpty
  <2>2. 0 \in 0..n
    BY <1>2
  <2>3. st[0] = Cutting(SubSeq(all, 1, 2 * 0), all[2 * 0 + 1])
    BY <2>2
  <2> HIDE DEF st
  <2> QED BY <2>1, <2>3
<1>6. ASSUME NEW k \in 1..n PROVE Leads(seps, st[k - 1], Piece(pairs[k]), st[k])
  <2>1. PICK before : before = SubSeq(all, 1, 2 * (k - 1))
    OBVIOUS
  <2>2. PICK part \in Text : part = all[2 * (k - 1) + 1]
    <3>1. 2 * (k - 1) + 1 \in 1..(2 * n + 1)
      BY <1>2
    <3> QED BY <1>3, <3>1
  <2>3. PICK t \in TagPair : t = pairs[k]
    BY <1>2
  <2>4. SubSeq(all, 1, 2 * k) = Append(Append(before, part), t[1])
    <3>1. PICK i \in 1..Len(all) : i = 2 * k
      BY <1>2, <1>3
    <3>2. SubSeq(all, 1, i) = SubSeq(all, 1, i - 1) \o <<all[i]>> /\ all[i] = t[1]
      BY <1>2, <1>3, <2>3, <3>1, SubSeqRecursiveSecond
    <3>3. SubSeq(all, 1, i - 1) = SubSeq(all, 1, i - 2) \o <<all[i - 1]>>
      <4>1. i - 1 \in 1..Len(all) /\ 1 \in 1..Len(all) /\ i - 1 \in 1..Len(all) /\ i - 1 - 1 = i - 2
        BY <1>2, <1>3, <3>1
      <4> QED BY <1>3, <4>1, SubSeqRecursiveSecond
    <3>4. i - 2 = 2 * (k - 1) /\ i - 1 = 2 * (k - 1) + 1
      BY <3>1
    <3>5. SubSeq(all, 1, i - 1) = before \o <<part>>
      BY <2>1, <2>2, <3>3, <3>4
    <3>6. before \in Seq(Text) /\ t[1] \in Text
      <4>1. \A j \in 1..(i - 2) : all[j] \in Text
        BY <1>3, <3>1
      <4>2. SubSeq(all, 1, i - 2) \in Seq(Text)
        BY <3>1, <4>1, SubSeqProperties
      <4> QED BY <2>1, <2>3, <3>4, <4>2 DEF TagPair
    <3>7. Append(before, part) = before \o <<part>> /\ Append(before, part) \in Seq(Text)
      BY <3>6, AppendIsConcat, AppendProperties
    <3>8. Append(Append(before, part), t[1]) = Append(before, part) \o <<t[1]>>
      BY <3>6, <3>7, AppendIsConcat
    <3> QED BY <3>1, <3>2, <3>5, <3>7, <3>8
  <2>5. k - 1 \in 0..n /\ k \in 0..n /\ all[2 * k + 1] = t[2]
    BY <1>2, <1>3, <2>3
  <2>6. st[k - 1] = Cutting(before, part) /\ st[k] = Cutting(Append(Append(before, part), t[1]), t[2])
    BY <2>1, <2>2, <2>4, <2>5
  <2> HIDE DEF st
  <2>7. Leads(seps, Cutting(before, part), Piece(t), Cutting(Append(Append(before, part), t[1]), t[2]))
    BY <1>4, PieceCut
  <2> QED BY <2>3, <2>6, <2>7
<1>7. st[n] = Cutting(SubSeq(all, 1, 2 * n), all[2 * n + 1])
  BY <1>2
<1> HIDE DEF st
<1>8. seps \in SUBSET {Comma, Equals}
  BY <1>4
<1>9. \A k \in 1..n : Leads(seps, st[k - 1], Piece(pairs[k]), st[k])
  BY <1>6
<1>10. MakeSeriesKey(s) \in Text /\ Leads(seps, Cutting(<<>>, <<>>), MakeSeriesKey(s), st[n])
  BY <1>2, <1>5, <1>8, <1>9, NamesRead
<1> QED BY <1>4, <1>7, <1>10

\* Two series have different keys, whatever is in their names.
LEMMA KeysTell ==
    ASSUME NEW s \in Series, NEW u \in Series, MakeSeriesKey(s) = MakeSeriesKey(u)
    PROVE  s = u
<1>1. PICK n, p : Listed(s, p, n)
  BY KeyOf
<1>2. PICK m, q : Listed(u, q, m)
  BY KeyOf
<1>3. /\ n \in Nat /\ p \in [1..n -> TagPair] /\ s.measurement \in Text
      /\ m \in Nat /\ q \in [1..m -> TagPair] /\ u.measurement \in Text
  BY <1>1, <1>2 DEF Listed
<1>0. PICK name \in Text, other \in Text : name = s.measurement /\ other = u.measurement
  BY <1>3
<1>4. PICK all : all = Names(name, p, n)
  OBVIOUS
<1>5. PICK any : any = Names(other, q, m)
  OBVIOUS
<1>6. PICK key : key = MakeSeriesKey(s)
  OBVIOUS
<1>7. key \in Text /\ Leads({Comma, Equals}, Cutting(<<>>, <<>>), key, Cutting(SubSeq(all, 1, 2 * n), all[2 * n + 1]))
  BY <1>0, <1>1, <1>4, <1>6, KeyCut, Zenon
<1>8. Leads({Comma, Equals}, Cutting(<<>>, <<>>), key, Cutting(SubSeq(any, 1, 2 * m), any[2 * m + 1]))
  BY <1>0, <1>2, <1>5, <1>6, KeyCut, Zenon
<1>9. Cutting(SubSeq(all, 1, 2 * n), all[2 * n + 1]) = Cutting(SubSeq(any, 1, 2 * m), any[2 * m + 1])
  BY <1>7, <1>8, LeadsOneWay, Zenon
<1>10. SubSeq(all, 1, 2 * n) = SubSeq(any, 1, 2 * m) /\ all[2 * n + 1] = any[2 * m + 1]
  BY <1>9 DEF Cutting
<1>11. /\ all \in Seq(Text) /\ Len(all) = 2 * n + 1 /\ all[1] = name
       /\ \A k \in 1..n : all[2 * k] = p[k][1] /\ all[2 * k + 1] = p[k][2]
  <2>1. NamesOf(all, name, p, n)
    BY <1>3, <1>4, NamesAre, Zenon
  <2> QED BY <2>1 DEF NamesOf
<1>12. /\ any \in Seq(Text) /\ Len(any) = 2 * m + 1 /\ any[1] = other
       /\ \A k \in 1..m : any[2 * k] = q[k][1] /\ any[2 * k + 1] = q[k][2]
  <2>1. NamesOf(any, other, q, m)
    BY <1>3, <1>5, NamesAre, Zenon
  <2> QED BY <2>1 DEF NamesOf
<1>13. Len(SubSeq(all, 1, 2 * n)) = 2 * n /\ \A j \in 1..(2 * n) : SubSeq(all, 1, 2 * n)[j] = all[j]
  BY <1>3, <1>11
<1>14. Len(SubSeq(any, 1, 2 * m)) = 2 * m /\ \A j \in 1..(2 * m) : SubSeq(any, 1, 2 * m)[j] = any[j]
  BY <1>3, <1>12
<1>15. n = m
  BY <1>3, <1>10, <1>13, <1>14
<1>16. \A j \in 1..(2 * n + 1) : all[j] = any[j]
  <2> SUFFICES ASSUME NEW j \in 1..(2 * n + 1) PROVE all[j] = any[j]
    OBVIOUS
  <2>1. j \in 1..(2 * n) \/ j = 2 * n + 1
    BY <1>3
  <2> QED BY <1>10, <1>13, <1>14, <1>15, <2>1
<1>17. s.measurement = u.measurement
  BY <1>0, <1>3, <1>11, <1>12, <1>16
<1>18. \A k \in 1..n : p[k] = q[k]
  <2> SUFFICES ASSUME NEW k \in 1..n PROVE p[k] = q[k]
    OBVIOUS
  <2>1. 2 * k \in 1..(2 * n + 1) /\ 2 * k + 1 \in 1..(2 * n + 1)
    BY <1>3
  <2>2. p[k][1] = q[k][1] /\ p[k][2] = q[k][2]
    BY <1>11, <1>12, <1>15, <1>16, <2>1
  <2>3. p[k] \in TagPair /\ q[k] \in TagPair
    BY <1>3, <1>15
  <2> QED BY <2>2, <2>3 DEF TagPair
<1>19. s.tags = u.tags
  <2>1. s.tags = {p[k] : k \in 1..n} /\ u.tags = {q[k] : k \in 1..m}
    BY <1>1, <1>2 DEF Listed
  <2> QED BY <1>15, <1>18, <2>1
<1>20. /\ s = [measurement |-> s.measurement, tags |-> s.tags]
       /\ u = [measurement |-> u.measurement, tags |-> u.tags]
  BY SeriesAssumption
<1> QED BY <1>17, <1>19, <1>20


-----------------------------------------------------------------------------
(* What parse_series_key reads                                             *)

SplitInto(key, all) == SplitParts(key) = [i \in DOMAIN all |-> Unescape(all[i])]

LEMMA SplitReads ==
    ASSUME NEW key \in Text, NEW parts, NEW part,
           Leads({Comma}, Cutting(<<>>, <<>>), key, Cutting(parts, part))
    PROVE  SplitInto(key, Append(parts, part))
<1>1. PICK n \in Nat : n = Len(key)
  BY DEF Text
<1>2. PICK first : first = Cutting(<<>>, <<>>)
  OBVIOUS
<1>3. PICK f : /\ f[0] = first /\ f[n] = Cutting(parts, part)
               /\ \A k \in 1..n : f[k] = Turn({Comma}, f[k - 1], key[k])
  BY <1>1, <1>2 DEF Leads
<1> DEFINE E(g) == g = [k \in 0..Len(key) |-> IF k = 0 THEN [parts |-> <<>>, part |-> <<>>, open |-> FALSE]
                                             ELSE Split(g[k - 1], key[k])]
           read == CHOOSE g : E(g)
           g == [k \in 0..n |-> f[k]]
<1>4. first = [parts |-> <<>>, part |-> <<>>, open |-> FALSE]
  BY <1>2 DEF Cutting
<1>5. \A k \in 1..n : f[k] = Split(f[k - 1], key[k])
  BY <1>3, SplitIsTurn, Zenon
<1>6. E(g)
  <2>1. \A k \in 0..n : k # 0 => k \in 1..n /\ k - 1 \in 0..n
    OBVIOUS
  <2>2. \A k \in 0..n : g[k] = IF k = 0 THEN first ELSE Split(g[k - 1], key[k])
    BY <1>3, <1>5, <2>1
  <2>3. g = [k \in 0..n |-> g[k]]
    OBVIOUS
  <2> HIDE DEF g
  <2>4. g = [k \in 0..n |-> IF k = 0 THEN first ELSE Split(g[k - 1], key[k])]
    BY <2>2, <2>3
  <2> QED BY <1>1, <1>4, <2>4
<1> HIDE DEF g
<1>7. E(read)
  <2> HIDE DEF E
  <2> QED BY <1>6, Zenon
<1>8. \A k \in 0..n : read[k] = IF k = 0 THEN first ELSE Split(read[k - 1], key[k])
  <2> HIDE DEF read
  <2> QED BY <1>1, <1>4, <1>7
<1>9. SplitParts(key) = [i \in DOMAIN Append(read[n].parts, read[n].part) |->
                            Unescape(Append(read[n].parts, read[n].part)[i])]
  BY <1>1 DEF SplitParts
<1> HIDE DEF read
<1>10. SameTurns(read, f, n)
  <2>1. \A k \in 1..n : k \in 0..n /\ k # 0
    OBVIOUS
  <2>2. 0 \in 0..n
    OBVIOUS
  <2>3. read[0] = f[0]
    BY <1>3, <1>8, <2>2
  <2>4. \A k \in 1..n : read[k] = Split(read[k - 1], key[k])
    BY <1>8, <2>1
  <2>5. \A k \in 1..n : read[k - 1] = f[k - 1] => read[k] = f[k]
    BY <1>5, <2>4, Zenon
  <2> QED BY <2>3, <2>5, Zenon DEF SameTurns
<1>11. read[n] = Cutting(parts, part)
  BY <1>3, <1>10, SameLoops
<1>12. Cutting(parts, part).parts = parts /\ Cutting(parts, part).part = part
  BY DEF Cutting
<1> QED BY <1>9, <1>11, <1>12 DEF SplitInto

\* Without a backslash nothing is taken away.
LEMMA UnescapePlain ==
    ASSUME NEW text \in Text, Backslash \notin ToSet(text)
    PROVE  Unescape(text) = text
<1>1. PICK n \in Nat : n = Len(text) /\ DOMAIN text = 1..n
  BY DEF Text
<1>2. \A k \in 1..n : text[k] # Backslash
  BY <1>1 DEF ToSet
<1> DEFINE Whole(k) == [out |-> SubSeq(text, 1, k), open |-> FALSE]
           E(g) == g = [k \in 0..Len(text) |-> IF k = 0 THEN [out |-> <<>>, open |-> FALSE]
                                              ELSE Unmark(g[k - 1], text[k])]
           read == CHOOSE g : E(g)
           f == [k \in 0..n |-> Whole(k)]
<1>3. Whole(0) = [out |-> <<>>, open |-> FALSE] /\ SubSeq(text, 1, n) = text
  <2>1. SubSeq(text, 1, 0) = <<>>
    BY SubSeqEmpty
  <2>2. SubSeq(text, 1, n) = text
    BY <1>1, SubSeqFull DEF Text
  <2> QED BY <2>1, <2>2
<1>4. \A k \in 1..n : Whole(k) = Unmark(Whole(k - 1), text[k])
  <2> SUFFICES ASSUME NEW k \in 1..n PROVE Whole(k) = Unmark(Whole(k - 1), text[k])
    OBVIOUS
  <2>1. SubSeq(text, 1, k) = Append(SubSeq(text, 1, k - 1), text[k])
    BY <1>1 DEF Text
  <2> QED BY <1>2, <2>1 DEF Unmark
<1> HIDE DEF Whole
<1>5. \A k \in 1..n : k - 1 \in 0..n /\ k \in 0..n /\ k # 0
  OBVIOUS
<1>6. E(f)
  <2>1. \A k \in 0..n : f[k] = IF k = 0 THEN Whole(0) ELSE Unmark(f[k - 1], text[k])
    <3>1. \A k \in 0..n : k # 0 => k \in 1..n
      OBVIOUS
    <3> QED BY <1>4, <1>5, <3>1
  <2>2. f = [k \in 0..n |-> f[k]]
    OBVIOUS
  <2> HIDE DEF f
  <2>3. f = [k \in 0..n |-> IF k = 0 THEN Whole(0) ELSE Unmark(f[k - 1], text[k])]
    BY <2>1, <2>2
  <2> QED BY <1>1, <1>3, <2>3
<1>7. f[0] = Whole(0) /\ f[n] = Whole(n) /\ \A k \in 1..n : f[k] = Unmark(f[k - 1], text[k])
  BY <1>4, <1>5
<1> HIDE DEF f
<1>8. E(read)
  <2> HIDE DEF E
  <2> QED BY <1>6, Zenon
<1>9. \A k \in 0..n : read[k] = IF k = 0 THEN Whole(0) ELSE Unmark(read[k - 1], text[k])
  <2> HIDE DEF read
  <2> QED BY <1>1, <1>3, <1>8
<1>10. Unescape(text) = read[n].out
  BY <1>1 DEF Unescape
<1> HIDE DEF read
<1>11. SameTurns(read, f, n)
  <2>1. 0 \in 0..n
    OBVIOUS
  <2>2. read[0] = f[0]
    BY <1>7, <1>9, <2>1
  <2>3. \A k \in 1..n : read[k] = Unmark(read[k - 1], text[k])
    BY <1>5, <1>9
  <2>4. \A k \in 1..n : read[k - 1] = f[k - 1] => read[k] = f[k]
    BY <1>7, <2>3, Zenon
  <2> QED BY <2>2, <2>4, Zenon DEF SameTurns
<1>12. read[n] = Whole(n)
  BY <1>7, <1>11, SameLoops
<1> QED BY <1>3, <1>10, <1>12 DEF Whole

Joined(t) == Append(t[1], Equals) \o t[2]

JoinedOf(j, t) ==
    /\ j \in Text /\ Len(j) = Len(t[1]) + 1 + Len(t[2])
    /\ \A i \in 1..Len(t[1]) : j[i] = t[1][i]
    /\ j[Len(t[1]) + 1] = Equals
    /\ \A i \in 1..Len(t[2]) : j[Len(t[1]) + 1 + i] = t[2][i]

LEMMA JoinedText == \A t \in TagPair : JoinedOf(Joined(t), t)
<1> SUFFICES ASSUME NEW t \in TagPair PROVE JoinedOf(Joined(t), t)
  OBVIOUS
<1>1. PICK k \in Seq(Int), v \in Seq(Int), n \in Nat, m \in Nat : k = t[1] /\ v = t[2] /\ n = Len(k) /\ m = Len(v)
  BY DEF TagPair, Text
<1>2. Equals \in Int
  BY SeriesAssumption
<1>3. PICK a \in Seq(Int) : a = Append(k, Equals)
  <2>1. Append(k, Equals) \in Seq(Int)
    BY <1>2, AppendProperties
  <2> QED BY <2>1
<1>4. Len(a) = n + 1 /\ a[n + 1] = Equals /\ \A i \in 1..n : a[i] = k[i]
  BY <1>1, <1>2, <1>3
<1>5. PICK j \in Seq(Int) : j = a \o v
  BY ConcatProperties
<1>6. Len(j) = n + 1 + m /\ \A i \in 1..(n + 1 + m) : j[i] = IF i =< n + 1 THEN a[i] ELSE v[i - (n + 1)]
  <2>1. Len(a \o v) = Len(a) + Len(v)
    BY ConcatProperties
  <2>2. \A i \in 1..(Len(a) + Len(v)) : (a \o v)[i] = IF i =< Len(a) THEN a[i] ELSE v[i - Len(a)]
    BY ConcatProperties
  <2>3. Len(a) = n + 1 /\ Len(v) = m
    BY <1>1, <1>4
  <2> QED BY <1>5, <2>1, <2>2, <2>3
<1>7. \A i \in 1..n : j[i] = k[i]
  BY <1>4, <1>6
<1>8. j[n + 1] = Equals
  BY <1>4, <1>6
<1>9. \A i \in 1..m : j[n + 1 + i] = v[i]
  <2> SUFFICES ASSUME NEW i \in 1..m PROVE j[n + 1 + i] = v[i]
    OBVIOUS
  <2>1. n + 1 + i \in 1..(n + 1 + m) /\ ~(n + 1 + i =< n + 1) /\ n + 1 + i - (n + 1) = i
    OBVIOUS
  <2> QED BY <1>6, <2>1
<1>10. Joined(t) = j
  BY <1>1, <1>3, <1>5 DEF Joined
<1> QED BY <1>1, <1>6, <1>7, <1>8, <1>9, <1>10 DEF Text, JoinedOf


\* The measurement, and each tag with its equals sign.
Parts(name, pairs, n) == [j \in 1..(n + 1) |-> IF j = 1 THEN name ELSE Joined(pairs[j - 1])]

PartsOf(all, name, pairs, n) ==
    /\ all \in Seq(Text) /\ Len(all) = n + 1 /\ all[1] = name
    /\ \A k \in 1..n : all[k + 1] = Joined(pairs[k])

LEMMA PartsAre ==
    ASSUME NEW name \in Text, NEW n \in Nat, NEW pairs \in [1..n -> TagPair], NEW all, all = Parts(name, pairs, n)
    PROVE  PartsOf(all, name, pairs, n)
<1>1. \A k \in 1..n : pairs[k] \in TagPair
  OBVIOUS
<1>2. \A k \in 1..n : Joined(pairs[k]) \in Text
  BY <1>1, JoinedText DEF JoinedOf
<1>3. \A j \in 1..(n + 1) : j = 1 \/ j - 1 \in 1..n
  OBVIOUS
<1>4. all = [j \in 1..(n + 1) |-> IF j = 1 THEN name ELSE Joined(pairs[j - 1])]
  BY DEF Parts
<1>5. all \in [1..(n + 1) -> Text]
  BY <1>2, <1>3, <1>4
<1>6. \A k \in 1..n : k + 1 \in 1..(n + 1) /\ k + 1 # 1 /\ (k + 1) - 1 = k
  OBVIOUS
<1>7. all[1] = name /\ \A k \in 1..n : all[k + 1] = Joined(pairs[k])
  BY <1>4, <1>6
<1>8. all \in Seq(Text) /\ Len(all) = n + 1
  <2>1. n + 1 \in Nat
    OBVIOUS
  <2> QED BY <1>5, <2>1
<1> QED BY <1>7, <1>8 DEF PartsOf

\* Cut at its commas, the key of a series is those.
LEMMA KeyKept ==
    ASSUME NEW s, NEW n, NEW pairs, Listed(s, pairs, n), NEW all, all = Parts(s.measurement, pairs, n)
    PROVE  SplitParts(MakeSeriesKey(s)) = [i \in DOMAIN all |-> Unescape(all[i])]
<1>1. PICK name \in Text : name = s.measurement
  BY DEF Listed
<1>2. /\ n \in Nat /\ pairs \in [1..n -> TagPair]
      /\ MakeSeriesKey(s) = Escape(name) \o FlattenSeq([k \in 1..n |-> Piece(pairs[k])])
  BY <1>1 DEF Listed
<1>3. /\ all \in Seq(Text) /\ Len(all) = n + 1 /\ all[1] = name
      /\ \A k \in 1..n : all[k + 1] = Joined(pairs[k])
  <2>1. PartsOf(all, name, pairs, n)
    BY <1>1, <1>2, PartsAre, Zenon
  <2> QED BY <2>1 DEF PartsOf
<1>4. PICK seps : seps = {Comma}
  OBVIOUS
<1> DEFINE st == [k \in 0..n |-> Cutting(SubSeq(all, 1, k), all[k + 1])]
<1>5. st[0] = Cutting(<<>>, name)
  <2>1. SubSeq(all, 1, 0) = <<>> /\ all[0 + 1] = name
    BY <1>3, SubSeqEmpty
  <2>2. 0 \in 0..n
    BY <1>2
  <2>3. st[0] = Cutting(SubSeq(all, 1, 0), all[0 + 1])
    BY <2>2
  <2> HIDE DEF st
  <2> QED BY <2>1, <2>3
<1>6. \A k \in 1..(n + 1) : SubSeq(all, 1, k) = Append(SubSeq(all, 1, k - 1), all[k])
  BY <1>2, <1>3
<1>7. ASSUME NEW k \in 1..n PROVE Leads(seps, st[k - 1], Piece(pairs[k]), st[k])
  <2>1. PICK before : before = SubSeq(all, 1, k - 1)
    OBVIOUS
  <2>2. PICK part \in Text : part = all[k]
    <3>1. k \in 1..(n + 1)
      BY <1>2
    <3> QED BY <1>3, <3>1
  <2>3. PICK t \in TagPair : t = pairs[k]
    BY <1>2
  <2>4. k \in 1..(n + 1) /\ k - 1 \in 0..n /\ k \in 0..n /\ (k - 1) + 1 = k /\ all[k + 1] = Joined(t)
    BY <1>2, <1>3, <2>3
  <2>5. SubSeq(all, 1, k) = Append(before, part)
    BY <1>6, <2>1, <2>2, <2>4
  <2>6. st[k - 1] = Cutting(before, part) /\ st[k] = Cutting(Append(before, part), Joined(t))
    BY <2>1, <2>2, <2>4, <2>5
  <2> HIDE DEF st
  <2>7. Leads(seps, Cutting(before, part), Piece(t), Cutting(Append(before, part), Joined(t)))
    BY <1>4, PieceKept DEF Joined
  <2> QED BY <2>3, <2>6, <2>7
<1>8. st[n] = Cutting(SubSeq(all, 1, n), all[n + 1])
  BY <1>2
<1> HIDE DEF st
<1>9. seps \in SUBSET {Comma, Equals}
  BY <1>4
<1>10. \A k \in 1..n : Leads(seps, st[k - 1], Piece(pairs[k]), st[k])
  BY <1>7
<1>11. MakeSeriesKey(s) \in Text /\ Leads(seps, Cutting(<<>>, <<>>), MakeSeriesKey(s), st[n])
  BY <1>2, <1>5, <1>9, <1>10, NamesRead
<1>12. all = Append(SubSeq(all, 1, n), all[n + 1])
  <2>1. n + 1 \in 1..(n + 1) /\ (n + 1) - 1 = n
    BY <1>2
  <2>2. SubSeq(all, 1, n + 1) = all
    BY <1>3, SubSeqFull
  <2> QED BY <1>6, <2>1, <2>2
<1>13. Leads({Comma}, Cutting(<<>>, <<>>), MakeSeriesKey(s), Cutting(SubSeq(all, 1, n), all[n + 1]))
  BY <1>4, <1>8, <1>11, Zenon
<1>14. PICK parts : parts = SubSeq(all, 1, n)
  OBVIOUS
<1>15. PICK part : part = all[n + 1]
  OBVIOUS
<1>16. PICK key \in Text : key = MakeSeriesKey(s)
  BY <1>11
<1>17. all = Append(parts, part) /\ Leads({Comma}, Cutting(<<>>, <<>>), key, Cutting(parts, part))
  BY <1>12, <1>13, <1>14, <1>15, <1>16, Zenon
<1>18. SplitInto(key, Append(parts, part))
  BY <1>17, SplitReads
<1> QED BY <1>16, <1>17, <1>18 DEF SplitInto

Places(p) == {i \in DOMAIN p : p[i] = Equals}
LeastOf(S) == CHOOSE i \in S : \A j \in S : i =< j

\* The first equals sign is the one between key and value, if the key has none.
LEMMA JoinedCut ==
    ASSUME NEW t \in TagPair, Equals \notin ToSet(t[1]), NEW p, p = Joined(t)
    PROVE  /\ Places(p) # {}
           /\ <<SubSeq(p, 1, LeastOf(Places(p)) - 1), SubSeq(p, LeastOf(Places(p)) + 1, Len(p))>> = t
<1>1. PICK k \in Seq(Int), v \in Seq(Int), n \in Nat, m \in Nat : k = t[1] /\ v = t[2] /\ n = Len(k) /\ m = Len(v)
  BY DEF TagPair, Text
<1>2. /\ p \in Seq(Int) /\ Len(p) = n + 1 + m /\ p[n + 1] = Equals
      /\ \A i \in 1..n : p[i] = k[i]
      /\ \A i \in 1..m : p[n + 1 + i] = v[i]
  <2>1. JoinedOf(p, t)
    BY JoinedText
  <2> QED BY <1>1, <2>1 DEF JoinedOf, Text
<1>3. DOMAIN p = 1..(n + 1 + m) /\ \A i \in 1..n : p[i] # Equals
  <2>1. \A i \in 1..n : k[i] # Equals
    BY <1>1 DEF ToSet
  <2> QED BY <1>2, <2>1
<1>4. n + 1 \in Places(p) /\ \A i \in Places(p) : i \in Nat /\ n + 1 =< i
  BY <1>2, <1>3 DEF Places
<1>5. LeastOf(Places(p)) = n + 1
  <2>1. PICK S : S = Places(p)
    OBVIOUS
  <2>2. n + 1 \in S /\ \A i \in S : i \in Nat /\ n + 1 =< i
    BY <1>4, <2>1
  <2>3. LeastOf(S) \in S /\ \A j \in S : LeastOf(S) =< j
    BY <2>2 DEF LeastOf
  <2>4. LeastOf(S) = n + 1
    BY <2>2, <2>3
  <2> QED BY <2>1, <2>4
<1>6. SubSeq(p, 1, n) = k
  <2>1. SubSeq(p, 1, n) \in Seq(Int) /\ Len(SubSeq(p, 1, n)) = n /\ \A i \in 1..n : SubSeq(p, 1, n)[i] = p[i]
    BY <1>2
  <2>2. PICK x \in Seq(Int) : x = SubSeq(p, 1, n)
    BY <2>1
  <2>3. Len(x) = Len(k) /\ \A i \in 1..Len(x) : x[i] = k[i]
    BY <1>1, <1>2, <2>1, <2>2
  <2> QED BY <2>2, <2>3, SeqEqual
<1>7. SubSeq(p, n + 2, n + 1 + m) = v
  <2>1. PICK from \in Int, upto \in Int : from = n + 2 /\ upto = n + 1 + m
    OBVIOUS
  <2>2. \A i \in from..upto : p[i] \in Int
    BY <1>2, <2>1
  <2>3. PICK x : x = SubSeq(p, from, upto)
    OBVIOUS
  <2>4. /\ x \in Seq(Int) /\ Len(x) = IF from =< upto THEN upto - from + 1 ELSE 0
        /\ \A i \in 1..(upto - from + 1) : x[i] = p[from + i - 1]
    BY <2>2, <2>3, SubSeqProperties
  <2>5. Len(x) = m /\ \A i \in 1..m : x[i] = p[n + 1 + i]
    <3>1. upto - from + 1 = m /\ \A i \in 1..m : from + i - 1 = n + 1 + i
      BY <2>1
    <3>2. (IF from =< upto THEN m ELSE 0) = m
      BY <2>1
    <3> QED BY <2>4, <3>1, <3>2
  <2>6. Len(x) = Len(v) /\ \A i \in 1..Len(x) : x[i] = v[i]
    BY <1>1, <1>2, <2>5
  <2>7. x = v
    BY <2>4, <2>6, SeqEqual
  <2> QED BY <2>1, <2>3, <2>7
<1>8. t = <<k, v>>
  BY <1>1 DEF TagPair
<1>9. (n + 1) - 1 = n /\ (n + 1) + 1 = n + 2
  OBVIOUS
<1> QED BY <1>2, <1>4, <1>5, <1>6, <1>7, <1>8, <1>9

Plain(s) ==
    /\ \A t \in s.tags : Equals \notin ToSet(t[1]) /\ Backslash \notin ToSet(t[1]) \cup ToSet(t[2])
    /\ Backslash \notin ToSet(s.measurement)

LEMMA KeyGivesBack ==
    ASSUME NEW s \in Series, Plain(s)
    PROVE  ParseSeriesKey(MakeSeriesKey(s)) = [ok |-> TRUE, measurement |-> s.measurement, tags |-> s.tags]
<1>1. PICK n, pairs : Listed(s, pairs, n)
  BY KeyOf
<1>2. PICK all : all = Parts(s.measurement, pairs, n)
  OBVIOUS
<1>3. /\ n \in Nat /\ pairs \in [1..n -> TagPair] /\ s.measurement \in Text
      /\ s.tags = {pairs[k] : k \in 1..n}
  BY <1>1 DEF Listed
<1>4. PICK name \in Text : name = s.measurement
  BY <1>3
<1>5. /\ all \in Seq(Text) /\ Len(all) = n + 1 /\ all[1] = name
      /\ \A k \in 1..n : all[k + 1] = Joined(pairs[k])
  <2>1. PartsOf(all, name, pairs, n)
    BY <1>2, <1>3, <1>4, PartsAre, Zenon
  <2> QED BY <2>1 DEF PartsOf
<1>6. \A k \in 1..n : pairs[k] \in TagPair /\ pairs[k] \in s.tags
  BY <1>3
<1>7. \A i \in 1..(n + 1) : i = 1 \/ \E k \in 1..n : i = k + 1
  <2> SUFFICES ASSUME NEW i \in 1..(n + 1), i # 1 PROVE \E k \in 1..n : i = k + 1
    OBVIOUS
  <2>1. i - 1 \in 1..n /\ i = (i - 1) + 1
    BY <1>3
  <2> QED BY <2>1
<1>8. \A k \in 1..n : Backslash \notin ToSet(Joined(pairs[k]))
  <2> SUFFICES ASSUME NEW k \in 1..n PROVE Backslash \notin ToSet(Joined(pairs[k]))
    OBVIOUS
  <2>1. PICK t \in TagPair : t = pairs[k] /\ t \in s.tags
    BY <1>6
  <2>2. PICK a \in Nat, b \in Nat : a = Len(t[1]) /\ b = Len(t[2]) /\ DOMAIN t[1] = 1..a /\ DOMAIN t[2] = 1..b
    BY DEF TagPair, Text
  <2>3. PICK j \in Text : j = Joined(t)
    BY JoinedText DEF JoinedOf
  <2>4. /\ Len(j) = a + 1 + b /\ DOMAIN j = 1..(a + 1 + b)
        /\ \A i \in 1..a : j[i] = t[1][i]
        /\ j[a + 1] = Equals
        /\ \A i \in 1..b : j[a + 1 + i] = t[2][i]
    <3>1. JoinedOf(j, t)
      BY <2>3, JoinedText
    <3>2. DOMAIN j = 1..Len(j)
      BY <2>3 DEF Text
    <3>3. Len(j) = a + 1 + b
      BY <2>2, <3>1 DEF JoinedOf
    <3> QED BY <2>2, <3>1, <3>2, <3>3 DEF JoinedOf
  <2>5. Backslash \notin ToSet(t[1]) \cup ToSet(t[2]) /\ Backslash # Equals
    BY <2>1, SeriesAssumption DEF Plain
  <2>6. (\A i \in 1..a : t[1][i] # Backslash) /\ (\A i \in 1..b : t[2][i] # Backslash)
    BY <2>2, <2>5 DEF ToSet
  <2>7. \A i \in 1..(a + 1 + b) : j[i] # Backslash
    <3> SUFFICES ASSUME NEW i \in 1..(a + 1 + b) PROVE j[i] # Backslash
      OBVIOUS
    <3>1. CASE i =< a
      BY <2>4, <2>6, <3>1
    <3>2. CASE i = a + 1
      BY <2>4, <2>5, <3>2
    <3>3. CASE i > a + 1
      <4>1. i - (a + 1) \in 1..b /\ a + 1 + (i - (a + 1)) = i
        BY <3>3
      <4>2. j[i] = t[2][i - (a + 1)]
        BY <2>4, <4>1
      <4> QED BY <2>6, <4>1, <4>2
    <3> QED BY <3>1, <3>2, <3>3
  <2> QED BY <2>1, <2>3, <2>4, <2>7 DEF ToSet
<1>9. \A i \in 1..(n + 1) : all[i] \in Text /\ Backslash \notin ToSet(all[i])
  <2>1. Backslash \notin ToSet(all[1])
    BY <1>4, <1>5 DEF Plain
  <2>2. \A k \in 1..n : Backslash \notin ToSet(all[k + 1])
    BY <1>5, <1>8
  <2>3. \A i \in 1..(n + 1) : all[i] \in Text
    BY <1>3, <1>5
  <2> QED BY <1>7, <2>1, <2>2, <2>3
<1>10. DOMAIN all = 1..(n + 1) /\ all = [i \in 1..(n + 1) |-> all[i]]
  BY <1>3, <1>5
<1>11. SplitParts(MakeSeriesKey(s)) = all
  <2>1. SplitParts(MakeSeriesKey(s)) = [i \in DOMAIN all |-> Unescape(all[i])]
    BY <1>1, <1>2, KeyKept
  <2>2. \A i \in 1..(n + 1) : Unescape(all[i]) = all[i]
    BY <1>9, UnescapePlain
  <2> QED BY <1>10, <2>1, <2>2
<1> DEFINE CutPair(p) == <<SubSeq(p, 1, LeastOf(Places(p)) - 1), SubSeq(p, LeastOf(Places(p)) + 1, Len(p))>>
<1>12. \A k \in 1..n : Places(all[k + 1]) # {} /\ CutPair(all[k + 1]) = pairs[k]
  <2> SUFFICES ASSUME NEW k \in 1..n PROVE Places(all[k + 1]) # {} /\ CutPair(all[k + 1]) = pairs[k]
    OBVIOUS
  <2>1. PICK t \in TagPair : t = pairs[k] /\ t \in s.tags
    BY <1>6
  <2>2. Equals \notin ToSet(t[1])
    BY <2>1 DEF Plain
  <2>3. PICK p : p = Joined(t)
    OBVIOUS
  <2>4. Places(p) # {} /\ CutPair(p) = t
    BY <2>2, <2>3, JoinedCut
  <2> HIDE DEF CutPair
  <2>5. all[k + 1] = p
    BY <1>5, <2>1, <2>3
  <2> QED BY <2>1, <2>4, <2>5
<1>13. ParseSeriesKey(MakeSeriesKey(s)) =
         IF \E i \in 2..Len(all) : Places(all[i]) = {} THEN [ok |-> FALSE]
         ELSE [ok |-> TRUE, measurement |-> all[1], tags |-> {CutPair(all[i]) : i \in 2..Len(all)}]
  BY <1>11 DEF ParseSeriesKey, Places, LeastOf
<1> HIDE DEF CutPair
<1>14. (\A k \in 1..n : k + 1 \in 2..Len(all)) /\ \A i \in 2..Len(all) : \E k \in 1..n : i = k + 1
  <2>1. \A k \in 1..n : k + 1 \in 2..(n + 1)
    BY <1>3
  <2>2. \A i \in 2..(n + 1) : i - 1 \in 1..n /\ i = (i - 1) + 1
    BY <1>3
  <2> QED BY <1>5, <2>1, <2>2
<1>15. ~\E i \in 2..Len(all) : Places(all[i]) = {}
  BY <1>12, <1>14
<1>16. {CutPair(all[i]) : i \in 2..Len(all)} = s.tags
  <2>1. {CutPair(all[i]) : i \in 2..Len(all)} = {pairs[k] : k \in 1..n}
    BY <1>12, <1>14
  <2> QED BY <1>3, <2>1
<1>17. ParseSeriesKey(MakeSeriesKey(s)) =
         [ok |-> TRUE, measurement |-> all[1], tags |-> {CutPair(all[i]) : i \in 2..Len(all)}]
  BY <1>13, <1>15, Zenon
<1> QED BY <1>4, <1>5, <1>16, <1>17

LEMMA SeriesInvIdentified == SeriesInv => SeriesIdentified
<1> SUFFICES ASSUME SeriesInv PROVE SeriesIdentified
  OBVIOUS
<1> DEFINE met == {s \in Series : given[s] # {}}
<1>1. \A s \in met : s \in Series /\ \E id \in Nat : given[s] = {id} /\ id \in DOMAIN keys /\ keys[id] = MakeSeriesKey(s)
  <2> SUFFICES ASSUME NEW s \in met
               PROVE  \E id \in Nat : given[s] = {id} /\ id \in DOMAIN keys /\ keys[id] = MakeSeriesKey(s)
    OBVIOUS
  <2>1. PICK id \in Nat : given[s] = {id}
    BY SeriesInvIds DEF IdsFollowKeys
  <2> QED BY <2>1 DEF SeriesInv
<1>2. ASSUME NEW s \in met, NEW u \in met, given[s] \cap given[u] # {} PROVE s = u
  <2>1. MakeSeriesKey(s) = MakeSeriesKey(u)
    BY <1>1, <1>2
  <2> QED BY <1>1, <2>1, KeysTell
<1>3. ASSUME NEW s \in met
      PROVE  /\ Cardinality(given[s]) = 1
             /\ Plain(s) => \A id \in given[s] : ParseSeriesKey(keys[id]) =
                               [ok |-> TRUE, measurement |-> s.measurement, tags |-> s.tags]
  <2>1. PICK id \in Nat : given[s] = {id} /\ keys[id] = MakeSeriesKey(s)
    BY <1>1
  <2>2. Cardinality(given[s]) = 1
    BY <2>1, FS_Singleton
  <2>3. Plain(s) => ParseSeriesKey(keys[id]) = [ok |-> TRUE, measurement |-> s.measurement, tags |-> s.tags]
    BY <1>1, <2>1, KeyGivesBack
  <2> QED BY <2>1, <2>2, <2>3
<1> QED BY <1>2, <1>3 DEF SeriesIdentified, Plain

\* get_or_create_id, make_series_key and parse_series_key: a series has one id and
\* another series another one, and its key gives it back, for all names whatever
\* separators and backslashes they hold.
THEOREM Series_identified == SeriesSpec => []SeriesIdentified
BY Series_inductive, SeriesInvIdentified, PTL

-----------------------------------------------------------------------------
(* The algorithms, for every set of inputs *)

\* An input is a list of elements of its subject.
OfSubject == subject \in DOMAIN Inputs /\ input \in Seq(Inputs[subject].of)

LEMMA Inputs_of_subject == InputsSpec => []OfSubject
<1>1. InputsInit => OfSubject
  BY DEF InputsInit, OfSubject
<1>2. OfSubject /\ [Grow]_<<subject, input>> => OfSubject'
  BY DEF Grow, OfSubject
<1> QED BY <1>1, <1>2, PTL DEF InputsSpec

\* WindowAggregator: windows partition the timestamps of every list, for every
\* interval and origin, as long as no step of the arithmetic rounds.
THEOREM Timestamps_tiled == InputsSpec => []WindowsTile
<1>1. OfSubject => WindowsTile
  <2> SUFFICES ASSUME OfSubject, subject = "windows", NEW interval \in Intervals, NEW origin \in Origins
               PROVE  Tiled(input, interval, origin)
    BY DEF WindowsTile
  <2>1. Inputs.windows = Inputs[subject]
    OBVIOUS
  <2>2. interval \in Nat \ {0} /\ origin \in Int /\ Inputs[subject].of \subseteq Int
    BY <2>1, InputsAssumption
  <2>3. input \in Seq(Int)
    BY <2>2 DEF OfSubject
  <2> QED BY <2>2, <2>3, Windows_tile
<1> QED BY <1>1, Inputs_of_subject, PTL

\* TimePartitioner: boundaries, paths, listings and cleanups agree for every two
\* moments of the calendar and every retention.
THEOREM Ranges_agree == InputsSpec => []PartitionsAgree
<1>1. OfSubject => PartitionsAgree
  <2> SUFFICES ASSUME OfSubject, subject = "moments", Len(input) = 2, NEW retention_days \in Retentions
               PROVE  RangeAgrees(input[1], input[2], retention_days)
    BY DEF PartitionsAgree
  <2>1. Inputs.moments = Inputs[subject]
    OBVIOUS
  <2>2. Calendar /\ retention_days \in Nat /\ Inputs[subject].of \subseteq Moments
    BY <2>1, InputsAssumption
  <2>3. input[1] \in Moments /\ input[2] \in Moments
    <3>1. PICK list \in Seq(Inputs[subject].of) : list = input
      BY DEF OfSubject
    <3>2. list[1] \in Inputs[subject].of /\ list[2] \in Inputs[subject].of
      BY <3>1
    <3> QED BY <2>2, <3>1, <3>2
  <2> QED BY <2>2, <2>3, Partitions_agree
<1> QED BY <1>1, Inputs_of_subject, PTL

\* TimeSeriesSerializer: every batch comes back as it was, and with its tags.
THEOREM Batches_read_back == InputsSpec => []BatchReadsBack
<1>1. OfSubject => BatchReadsBack
  <2> SUFFICES ASSUME OfSubject, subject = "batches" PROVE BatchRestored(input) /\ TagsRestored(input)
    BY DEF BatchReadsBack
  <2>1. Inputs.batches = Inputs[subject]
    OBVIOUS
  <2>2. PICK Points : Points = Inputs[subject].of
    OBVIOUS
  <2>3. \A p \in Points : IsDataPoint(p)
    BY <2>1, <2>2, InputsAssumption
  <2>4. PICK points \in Seq(Points) : points = input
    BY <2>2 DEF OfSubject
  <2>5. BatchRestored(points)
    BY <2>3, BatchComesBack
  <2>6. TagsRestored(points)
    BY TagsComeBack
  <2> QED BY <2>4, <2>5, <2>6
<1> QED BY <1>1, Inputs_of_subject, PTL


\* HistogramQuantile and exact_percentile agree to half a bucket and the gap between
\* two neighbours for every list of values, in the range of the histogram or not,
\* whatever its width and number of buckets.
THEOREM Percentiles_agree == InputsSpec => []PercentilesAgree
<1>1. OfSubject => PercentilesAgree
  <2> SUFFICES ASSUME OfSubject, subject = "values" PROVE RanksAgree(input)
    BY DEF PercentilesAgree
  <2>1. Inputs.values = Inputs[subject]
    OBVIOUS
  <2>2. Inputs[subject].of \subseteq Int
    BY <2>1, InputsAssumption
  <2>3. input \in Seq(Int)
    BY <2>2 DEF OfSubject
  <2> QED BY <2>3, Percentiles_near
<1> QED BY <1>1, Inputs_of_subject, PTL


\* rate, total_increase and rate_over_window agree on every counter, however many
\* samples, resets and pairs of one moment there are.
THEOREM Increases_add_up == InputsSpec => []IncreaseAddsUp
<1>1. OfSubject => IncreaseAddsUp
  <2> SUFFICES ASSUME OfSubject, subject = "counters" PROVE IncreaseAddsUp
    BY DEF IncreaseAddsUp
  <2>1. Inputs.counters = Inputs[subject]
    OBVIOUS
  <2>2. PICK Values : Values = Inputs[subject].of
    OBVIOUS
  <2>3. Values \subseteq Nat \X Int
    BY <2>1, <2>2, InputsAssumption
  <2>4. PICK list \in Seq(Nat \X Int) : list = input
    <3>1. input \in Seq(Values)
      BY <2>2 DEF OfSubject
    <3> QED BY <2>3, <3>1, SeqWider
  <2>5. PICK n \in Nat : n = Len(list)
    OBVIOUS
  <2>6. \A i \in 1..n : list[i][1] \in Nat /\ list[i][2] \in Int
    <3>1. \A i \in 1..n : list[i] \in Nat \X Int
      BY <2>5
    <3> QED BY <3>1
  <2> DEFINE gone(i) == [j \in 1..i |-> list[j][1]]
             samples == [i \in DOMAIN list |-> [ts |-> SumOf(gone(i)), value |-> list[i][2]]]
  <2>7. \A i \in 1..n : gone(i) \in Seq(Int)
    <3> SUFFICES ASSUME NEW i \in 1..n PROVE gone(i) \in Seq(Int)
      OBVIOUS
    <3>1. \A j \in 1..i : j \in 1..n
      OBVIOUS
    <3>2. gone(i) \in [1..i -> Int] /\ i \in Nat
      BY <2>6, <3>1
    <3> HIDE DEF gone
    <3> QED BY <3>2
  <2>8. \A i \in 1..(n - 1) : gone(i + 1) = Append(gone(i), list[i + 1][1])
    OBVIOUS
  <2> HIDE DEF gone
  <2>9. \A i \in 1..n : SumOf(gone(i)) \in Int
    <3>1. 0 \in Int
      OBVIOUS
    <3> QED BY <2>7, <3>1, SumGrows
  <2>10. ASSUME NEW i \in 1..(n - 1)
         PROVE  SumOf(gone(i)) =< SumOf(gone(i + 1))
    <3>1. i \in 1..n /\ i + 1 \in 1..n
      OBVIOUS
    <3>2. PICK x \in Nat : x = list[i + 1][1]
      BY <2>6, <3>1
    <3>3. SumOf(gone(i + 1)) = SumOf(gone(i)) + x
      <4>1. gone(i) \in Seq(Int) /\ x \in Int
        BY <2>7, <3>1
      <4>2. SumOf(Append(gone(i), x)) = SumOf(gone(i)) + x
        BY <4>1, SumGrows
      <4> QED BY <2>8, <3>2, <4>2
    <3>4. PICK a \in Int : a = SumOf(gone(i))
      BY <2>9, <3>1
    <3> QED BY <3>3, <3>4
  <2>11. samples \in Seq(Reading) /\ Len(samples) = n
    <3>1. DOMAIN list = 1..n
      BY <2>5
    <3>2. samples \in [1..n -> Reading]
      BY <2>6, <2>9, <3>1 DEF Reading
    <3> HIDE DEF samples
    <3> QED BY <3>2
  <2>12. \A i \in 1..(Len(samples) - 1) : samples[i].ts =< samples[i + 1].ts
    <3> SUFFICES ASSUME NEW i \in 1..(n - 1) PROVE samples[i].ts =< samples[i + 1].ts
      BY <2>11
    <3>1. i \in DOMAIN list /\ i + 1 \in DOMAIN list
      BY <2>5
    <3>2. samples[i].ts = SumOf(gone(i)) /\ samples[i + 1].ts = SumOf(gone(i + 1))
      BY <3>1
    <3> HIDE DEF samples
    <3> QED BY <2>10, <3>2
  <2>13. GapsAddUp(samples)
    <3> HIDE DEF samples
    <3> QED BY <2>11, <2>12, Gaps_add_up
  <2>14. samples = [i \in DOMAIN input |->
                      [ts |-> SumOf([j \in 1..i |-> input[j][1]]), value |-> input[i][2]]]
    BY <2>4 DEF gone
  <2> HIDE DEF samples
  <2> QED BY <2>13, <2>14, Zenon DEF IncreaseAddsUp
<1> QED BY <1>1, Inputs_of_subject, PTL
=============================================================================
