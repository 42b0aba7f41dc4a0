------------------------ MODULE StorageManagerProofs ------------------------
(***************************************************************************)
(* Proofs about StorageManager, for every set of threads, points, files    *)
(* and batches and for every Width, Retention and MaxLag that meet         *)
(* PartitionAssumption.                                                    *)
(***************************************************************************)
EXTENDS StorageManager, JsonLinesProofs

-----------------------------------------------------------------------------
(* The inductive invariant *)

\* manager_lock names the one call that is inside, and only it has a file open.
LockInv ==
    \A t \in Writers :
        /\ w[t].pc = "locked" <=> manager_lock = t
        /\ w[t].open # NoFile => w[t].pc = "locked"

\* A call in progress has an index of its batch in one place only: not reached,
\* in the buffer of the open file, or flushed.
ProgressInv ==
    \A t \in Writers :
        /\ w[t].pc # "idle" => w[t].batch \in Batches
        /\ w[t].rest \subseteq DOMAIN w[t].batch
        /\ w[t].pend \subseteq DOMAIN w[t].batch
        /\ (w[t].pend # {} \/ w[t].doomed) => w[t].open # NoFile
        /\ \A i \in w[t].pend : PartitionOf[w[t].batch[i]] = w[t].open
        /\ (w[t].pc # "idle" /\ ~w[t].doomed) =>
               \A i \in Valid(w[t].batch) :
                   i \in w[t].rest \cup w[t].pend \/ w[t].batch[i] \in ontime \cup late

\* Lines are in files that exist, and in the right one; an open file exists
\* unless a cleanup took its name.
FileInv ==
    /\ \A f \in File : lines[f] # <<>> => f \in files
    /\ \A f \in File : \A i \in DOMAIN lines[f] :
           lines[f][i] \in Point => PartitionOf[lines[f][i]] = f
    /\ \A t \in Writers : (w[t].open # NoFile /\ w[t].linked) => w[t].open \in files

\* A write on time can no longer go to f.
Closed(f) == \A p \in Point : PartitionOf[p] = f => Ts[p] < now - MaxLag

\* The line of p is where a reader finds it, unless p expired or its file has
\* a torn line.
Kept(p) == InFile(p) \/ Corrupt(PartitionOf[p]) \/ Expired(p)

\* Between the scan of a file and its removal: nothing stored on time in it
\* can be younger than the cutoff, and nothing on time can still be added.
CleanupInv ==
    /\ \A t \in Cleaners : c[t].cutoff =< now - Retention \/ c[t].pc = "idle"
    /\ \A t \in Cleaners : c[t].pc = "unlinking" =>
           /\ c[t].target \in File
           /\ Closed(c[t].target)
           /\ \A p \in ontime : PartitionOf[p] = c[t].target => Expired(p)

\* A file whose name was removed under its writer receives late writes only.
OrphanInv ==
    \A t \in Writers : (w[t].open # NoFile /\ ~w[t].linked) => Closed(w[t].open)

StoreInv ==
    /\ acked \subseteq ontime \cup late
    /\ \A p \in ontime : Kept(p)

\* What a reader must return is in its result or in a file it has yet to read.
ReadInv ==
    \A t \in Readers :
        /\ r[t].pc # "idle" => r[t].must \subseteq ontime
        /\ r[t].pc = "done" => r[t].toread = {}
        /\ r[t].pc # "idle" =>
              \A p \in r[t].must :
                  \/ p \in r[t].results
                  \/ PartitionOf[p] \in r[t].toread
                  \/ Corrupt(PartitionOf[p])
                  \/ Expired(p)

IInv ==
    /\ TypeOK
    /\ LockInv /\ ProgressInv /\ FileInv
    /\ CleanupInv /\ OrphanInv /\ StoreInv /\ ReadInv

-----------------------------------------------------------------------------
(* Lines *)

LEMMA LineType == Line = LinesOf(Point)
BY DEF Line, LinesOf

LEMMA AppendLineType ==
    ASSUME NEW ls \in Seq(Line), NEW p \in Point
    PROVE  AppendLine(ls, p) \in Seq(Line)
BY LineType, AppendLineKeeps

LEMMA AppendTornType ==
    ASSUME NEW ls \in Seq(Line)
    PROVE  AppendTorn(ls) \in Seq(Line)
BY LineType, AppendTornKeeps

LEMMA ParsedType ==
    ASSUME NEW ls \in Seq(Line)
    PROVE  Parsed(ls) \subseteq Point
BY DEF Parsed, Line

LEMMA IdleTypes ==
    /\ IdleWriter \in WriterState
    /\ IdleReader \in ReaderState
    /\ IdleCleaner \in CleanerState
BY DEF IdleWriter, WriterState, IdleReader, ReaderState, IdleCleaner, CleanerState

LEMMA BatchType ==
    ASSUME NEW b \in Batches \cup {<<>>}, NEW i \in DOMAIN b
    PROVE  /\ b[i] \in Point
           /\ i \in Nat
BY BatchAssumption

-----------------------------------------------------------------------------
(* Type correctness *)

LEMMA TornTailType ==
    ASSUME TypeOK, NEW t \in Writers, NEW ls \in TornTail(t)
    PROVE  ls \in [File -> Seq(Line)]
<1>1. CASE ls = lines
  BY <1>1 DEF TypeOK
<1>2. CASE ls = [lines EXCEPT ![w[t].open] = AppendTorn(@)]
  <2>1. \A f \in File : AppendTorn(lines[f]) \in Seq(Line)
    BY AppendTornType DEF TypeOK
  <2> QED BY <1>2, <2>1 DEF TypeOK
<1> QED
  BY <1>1, <1>2 DEF TornTail

LEMMA ValidType ==
    ASSUME NEW b \in Batches \cup {<<>>}
    PROVE  /\ Valid(b) \subseteq DOMAIN b
           /\ DOMAIN b \subseteq Nat
BY BatchAssumption DEF Valid

LEMMA TypeInit == Init => TypeOK
<1> SUFFICES ASSUME Init PROVE TypeOK
  OBVIOUS
<1>1. lines \in [File -> Seq(Line)]
  BY DEF Init
<1>2. index \in [measurements : SUBSET Measurement, points : SUBSET Point]
  BY DEF Init, EmptyIndex
<1>3. /\ w \in [Writers -> WriterState]
      /\ r \in [Readers -> ReaderState]
      /\ c \in [Cleaners -> CleanerState]
  BY IdleTypes DEF Init
<1> QED
  BY <1>1, <1>2, <1>3 DEF Init, TypeOK

LEMMA TypeTick == TypeOK /\ Tick => TypeOK'
BY DEF TypeOK, Tick, disk, state, history

LEMMA TypeInitialize == TypeOK /\ Initialize => TypeOK'
BY DEF TypeOK, Initialize, disk, history, EmptyIndex

LEMMA TypeShutdown == TypeOK /\ (ShutdownBegin \/ ShutdownEnd) => TypeOK'
BY DEF TypeOK, ShutdownBegin, ShutdownEnd, disk, state, history

LEMMA TypeCrash == TypeOK /\ Crash => TypeOK'
<1> SUFFICES ASSUME TypeOK, Crash PROVE TypeOK'
  OBVIOUS
<1>1. lines' \in [File -> Seq(Line)]
  <2>1. \A t \in Writers : lines' \in TornTail(t) => lines' \in [File -> Seq(Line)]
    BY TornTailType
  <2> QED BY <2>1 DEF TypeOK, Crash
<1>2. index' \in [measurements : SUBSET Measurement, points : SUBSET Point]
  BY DEF Crash, EmptyIndex
<1>3. /\ w' \in [Writers -> WriterState]
      /\ r' \in [Readers -> ReaderState]
      /\ c' \in [Cleaners -> CleanerState]
  BY IdleTypes DEF Crash
<1>4. /\ UNCHANGED <<now, files, acked, ontime, late, calls>>
      /\ faults' = faults + 1 /\ session' = {} /\ manager_lock' = Free
      /\ initialized' = FALSE /\ running' = FALSE
  BY DEF Crash
<1>5. now' \in Nat /\ calls' \in Nat /\ faults' \in Nat
  BY <1>4 DEF TypeOK
<1>6. files' \in SUBSET File
  BY <1>4 DEF TypeOK
<1>7. initialized' \in BOOLEAN /\ running' \in BOOLEAN /\ manager_lock' \in Writers \cup {Free, Main}
  BY <1>4
<1>8. acked' \in SUBSET Point /\ ontime' \in SUBSET Point /\ late' \in SUBSET Point /\ session' \in SUBSET Point
  BY <1>4 DEF TypeOK
<1> QED
  BY <1>1, <1>2, <1>3, <1>5, <1>6, <1>7, <1>8 DEF TypeOK

LEMMA TypeWriteBegin ==
    ASSUME TypeOK, NEW t \in Writers, NEW b \in Batches, WriteBegin(t, b)
    PROVE  TypeOK'
<1>1. [IdleWriter EXCEPT !.pc = "waiting", !.batch = b, !.rest = Valid(b)] \in WriterState
  BY ValidType DEF IdleWriter, WriterState
<1> QED
  BY <1>1 DEF TypeOK, WriteBegin, disk, state, history

LEMMA TypeWriteLock ==
    ASSUME TypeOK, NEW t \in Writers, WriteLock(t) \/ WriteRaises(t), ProgressInv
    PROVE  TypeOK'
<1>1. index' \in [measurements : SUBSET Measurement, points : SUBSET Point]
  <2>1. \A i \in w[t].rest : w[t].batch[i] \in Point
    BY BatchType DEF TypeOK, WriterState, ProgressInv
  <2>2. {MeasOf[PartitionOf[w[t].batch[i]]] : i \in w[t].rest} \subseteq Measurement
    BY <2>1, PartitionAssumption, NameAssumption
  <2> QED BY <2>2 DEF TypeOK, WriteLock, WriteRaises, IndexMeasurement
<1>2. CASE WriteLock(t)
  <2>1. [w[t] EXCEPT !.pc = "locked"] \in WriterState
    BY DEF TypeOK, WriterState
  <2>2. w' \in [Writers -> WriterState]
    BY <1>2, <2>1 DEF TypeOK, WriteLock
  <2> QED
    BY <1>1, <1>2, <2>2 DEF TypeOK, WriteLock, disk, history
<1>3. CASE WriteRaises(t)
  <2>1. w' \in [Writers -> WriterState]
    BY <1>3, IdleTypes DEF TypeOK, WriteRaises
  <2> QED
    BY <1>1, <1>3, <2>1 DEF TypeOK, WriteRaises, disk, history
<1> QED
  BY <1>2, <1>3 DEF TypeOK, WriteLock, WriteRaises, disk, history

LEMMA OpenedType ==
    ASSUME TypeOK, ProgressInv, NEW t \in Writers, NEW first \in w[t].rest
    PROVE  /\ Opened(w[t], first) \in WriterState
           /\ Opened(w[t], first).pc = w[t].pc
           /\ Opened(w[t], first).batch = w[t].batch
           /\ Opened(w[t], first).rest = w[t].rest \ GroupOf(w[t], first)
           /\ Opened(w[t], first).pend = Serialised(w[t], first)
           /\ Opened(w[t], first).open = PartitionOf[w[t].batch[first]]
           /\ Opened(w[t], first).linked = TRUE
           /\ Opened(w[t], first).doomed = (Serialised(w[t], first) # GroupOf(w[t], first))
           /\ PartitionOf[w[t].batch[first]] \in File
           /\ {w[t].batch[i] : i \in Serialised(w[t], first)} \subseteq Point
<1>1. \A i \in w[t].rest : w[t].batch[i] \in Point
  BY BatchType DEF TypeOK, WriterState, ProgressInv
<1>2. PartitionOf[w[t].batch[first]] \in File
  BY <1>1, PartitionAssumption
<1>3. Serialised(w[t], first) \subseteq GroupOf(w[t], first)
  BY DEF Serialised
<1>4. GroupOf(w[t], first) \subseteq w[t].rest
  BY DEF GroupOf
<1>5. (Serialised(w[t], first) # GroupOf(w[t], first)) \in BOOLEAN
  OBVIOUS
<1> DEFINE f == PartitionOf[w[t].batch[first]]
           g == GroupOf(w[t], first)
           s == Serialised(w[t], first)
           d == (s # g)
           x == [w[t] EXCEPT !.open = f, !.linked = TRUE, !.rest = @ \ g,
                             !.pend = s, !.doomed = d]
<1>6. Opened(w[t], first) = x
  BY DEF Opened
<1>7. w[t] \in WriterState /\ w[t].rest \subseteq Nat
  BY DEF TypeOK, WriterState
<1>8. s \subseteq Nat /\ w[t].rest \ g \subseteq Nat /\ f \in File /\ d \in BOOLEAN
  BY <1>2, <1>3, <1>4, <1>5, <1>7
<1>9. {w[t].batch[i] : i \in s} \subseteq Point
  BY <1>1, <1>3, <1>4
<1> HIDE DEF f, g, s, d
<1>10. /\ x \in WriterState
       /\ x.pc = w[t].pc /\ x.batch = w[t].batch /\ x.rest = w[t].rest \ g
       /\ x.pend = s /\ x.open = f /\ x.linked = TRUE /\ x.doomed = d
  BY <1>7, <1>8 DEF WriterState
<1> QED
  BY <1>6, <1>8, <1>9, <1>10 DEF f, g, s, d

LEMMA TypeOpenPartition ==
    ASSUME TypeOK, NEW t \in Writers, OpenPartition(t), ProgressInv
    PROVE  TypeOK'
<1>1. PICK first \in w[t].rest :
        /\ files' = files \cup {PartitionOf[w[t].batch[first]]}
        /\ index' = [index EXCEPT !.points =
                        @ \cup {w[t].batch[i] : i \in Serialised(w[t], first)}]
        /\ w' = [w EXCEPT ![t] = Opened(w[t], first)]
  BY DEF OpenPartition
<1>2. w' \in [Writers -> WriterState]
  BY <1>1, OpenedType DEF TypeOK
<1>3. index' \in [measurements : SUBSET Measurement, points : SUBSET Point]
  BY <1>1, OpenedType DEF TypeOK
<1>4. files' \in SUBSET File
  BY <1>1, OpenedType DEF TypeOK
<1> QED
  BY <1>2, <1>3, <1>4 DEF TypeOK, OpenPartition, history

LEMMA TypeFlush ==
    ASSUME TypeOK, NEW t \in Writers, Flush(t), ProgressInv
    PROVE  TypeOK'
<1>1. PICK i \in w[t].pend :
        /\ LET p == w[t].batch[i]
           IN /\ lines' = IF w[t].linked
                          THEN [lines EXCEPT ![w[t].open] = AppendLine(@, p)]
                          ELSE lines
              /\ IF Ts[p] < now - MaxLag
                 THEN late' = late \cup {p} /\ UNCHANGED ontime
                 ELSE ontime' = ontime \cup {p} /\ UNCHANGED late
        /\ w' = [w EXCEPT ![t].pend = @ \ {i}]
  BY DEF Flush
<1>2. w[t].batch[i] \in Point
  BY BatchType DEF TypeOK, WriterState, ProgressInv
<1>3. lines' \in [File -> Seq(Line)]
  <2>1. \A f \in File : AppendLine(lines[f], w[t].batch[i]) \in Seq(Line)
    BY <1>2, AppendLineType DEF TypeOK
  <2> QED BY <1>1, <2>1 DEF TypeOK
<1>4. [w[t] EXCEPT !.pend = @ \ {i}] \in WriterState
  BY DEF TypeOK, WriterState
<1>5. w' \in [Writers -> WriterState]
  BY <1>1, <1>4 DEF TypeOK
<1>6. ontime' \in SUBSET Point /\ late' \in SUBSET Point
  BY <1>1, <1>2 DEF TypeOK
<1> QED
  BY <1>3, <1>5, <1>6 DEF TypeOK, Flush, state

LEMMA TypeClosePartition ==
    ASSUME TypeOK, NEW t \in Writers, ClosePartition(t)
    PROVE  TypeOK'
<1>1. [w[t] EXCEPT !.open = NoFile, !.linked = FALSE] \in WriterState
  BY DEF TypeOK, WriterState
<1>2. w' \in [Writers -> WriterState]
  BY <1>1 DEF TypeOK, ClosePartition
<1> QED
  BY <1>2 DEF TypeOK, ClosePartition, disk, state, history

LEMMA TypeFinishWrite ==
    ASSUME TypeOK, NEW t \in Writers, AbortWrite(t) \/ FinishWrite(t)
    PROVE  TypeOK'
<1>1. w' \in [Writers -> WriterState]
  BY IdleTypes DEF TypeOK, AbortWrite, FinishWrite
<1>2. CASE AbortWrite(t)
  BY <1>1, <1>2 DEF TypeOK, AbortWrite, disk, state, history
<1>3. CASE FinishWrite(t)
  <2>1. {w[t].batch[i] : i \in DOMAIN w[t].batch} \subseteq Point
    BY BatchType DEF TypeOK, WriterState
  <2>2. acked' \in SUBSET Point /\ session' \in SUBSET Point
    BY <1>3, <2>1 DEF TypeOK, FinishWrite
  <2> QED
    BY <1>1, <1>3, <2>2 DEF TypeOK, FinishWrite, disk, state
<1> QED BY <1>2, <1>3

LEMMA TypeWriteError ==
    ASSUME TypeOK, NEW t \in Writers, WriteError(t)
    PROVE  TypeOK'
<1>1. lines' \in [File -> Seq(Line)]
  <2>1. lines' = lines \/ lines' \in TornTail(t)
    BY DEF WriteError
  <2> QED BY <2>1, TornTailType DEF TypeOK
<1>2. w' \in [Writers -> WriterState]
  BY IdleTypes DEF TypeOK, WriteError
<1>3. /\ UNCHANGED <<now, files, state, r, c, history, calls>>
      /\ faults' = faults + 1 /\ manager_lock' = Free
  BY DEF WriteError
<1> QED
  BY <1>1, <1>2, <1>3 DEF TypeOK, state, history

LEMMA TypeReadStep ==
    ASSUME TypeOK, NEW t \in Readers,
           (\E m \in Measurement : ReadBegin(t, m)) \/ ReadStep(t)
    PROVE  TypeOK'
<1>1. r' \in [Readers -> ReaderState]
  <2>1. CASE \E m \in Measurement : ReadBegin(t, m)
    BY <2>1 DEF TypeOK, ReadBegin, ReaderState
  <2>2. CASE ReadPartition(t)
    <3>1. PICK f \in r[t].toread :
            r' = [r EXCEPT ![t].toread = @ \ {f}, ![t].results = @ \cup Parsed(lines[f])]
      BY <2>2 DEF ReadPartition
    <3>2. Parsed(lines[f]) \subseteq Point
      BY ParsedType DEF TypeOK, ReaderState
    <3>3. [r[t] EXCEPT !.toread = @ \ {f}, !.results = @ \cup Parsed(lines[f])] \in ReaderState
      BY <3>2 DEF TypeOK, ReaderState
    <3> QED BY <3>1, <3>3 DEF TypeOK
  <2>3. CASE ReadReturn(t)
    <3>1. [r[t] EXCEPT !.pc = "done"] \in ReaderState
      BY DEF TypeOK, ReaderState
    <3> QED BY <2>3, <3>1 DEF TypeOK, ReadReturn
  <2>4. CASE ReadEnd(t)
    BY <2>4, IdleTypes DEF TypeOK, ReadEnd
  <2> QED BY <2>1, <2>2, <2>3, <2>4 DEF ReadStep
<1>2. UNCHANGED <<now, disk, state, manager_lock, w, c, history, calls, faults>>
  BY DEF ReadBegin, ReadStep, ReadPartition, ReadReturn, ReadEnd
<1> QED
  BY <1>1, <1>2 DEF TypeOK, disk, state, history

LEMMA TypeCleanupStep ==
    ASSUME TypeOK, NEW t \in Cleaners, CleanupBegin(t) \/ CleanupStep(t)
    PROVE  TypeOK'
<1>1. CASE CleanupBegin(t)
  <2>1. now - Retention \in Int
    BY PartitionAssumption DEF TypeOK
  <2>2. [IdleCleaner EXCEPT !.pc = "scanning", !.dirs = Measurement,
                                 !.cutoff = now - Retention] \in CleanerState
    BY <2>1 DEF IdleCleaner, CleanerState
  <2> QED
    BY <1>1, <2>2 DEF TypeOK, CleanupBegin, disk, state, history
<1>2. ASSUME NEW f \in File, ScanPartition(t, f) PROVE TypeOK'
  <2>1. CASE NewestBefore(f, c[t].cutoff)
    <3>1. [c[t] EXCEPT !.todo = @ \ {f}, !.pc = "unlinking", !.target = f] \in CleanerState
      BY DEF TypeOK, CleanerState
    <3>2. c' \in [Cleaners -> CleanerState]
      BY <1>2, <2>1, <3>1 DEF TypeOK, ScanPartition
    <3> QED
      BY <1>2, <3>2 DEF TypeOK, ScanPartition, disk, state, history
  <2>2. CASE ~NewestBefore(f, c[t].cutoff)
    <3>1. [c[t] EXCEPT !.todo = @ \ {f}, !.pc = @, !.target = @] \in CleanerState
      BY DEF TypeOK, CleanerState
    <3>2. c' \in [Cleaners -> CleanerState]
      BY <1>2, <2>2, <3>1 DEF TypeOK, ScanPartition
    <3> QED
      BY <1>2, <3>2 DEF TypeOK, ScanPartition, disk, state, history
  <2> QED BY <2>1, <2>2
<1>3. CASE UnlinkPartition(t)
  <2>1. lines' \in [File -> Seq(Line)] /\ files' \in SUBSET File
    BY <1>3 DEF TypeOK, UnlinkPartition
  <2>2. w' \in [Writers -> WriterState]
    <3>1. ASSUME NEW u \in Writers
          PROVE  [w[u] EXCEPT !.linked = @ /\ w[u].open # c[t].target] \in WriterState
      <4>1. (w[u].linked /\ w[u].open # c[t].target) \in BOOLEAN
        OBVIOUS
      <4>2. \A b \in BOOLEAN : [w[u] EXCEPT !.linked = b] \in WriterState
        BY DEF TypeOK, WriterState
      <4> QED BY <4>1, <4>2, Zenon
    <3> QED BY <1>3, <3>1 DEF UnlinkPartition
  <2>3. [c[t] EXCEPT !.pc = "scanning", !.target = NoFile] \in CleanerState
    BY DEF TypeOK, CleanerState
  <2>4. c' \in [Cleaners -> CleanerState]
    BY <1>3, <2>3 DEF TypeOK, UnlinkPartition
  <2> QED
    BY <1>3, <2>1, <2>2, <2>4 DEF TypeOK, UnlinkPartition, state, history
<1>4. CASE CleanupRaises(t) \/ CleanupEnd(t)
  <2>1. c' \in [Cleaners -> CleanerState]
    BY <1>4, IdleTypes DEF TypeOK, CleanupRaises, CleanupEnd
  <2> QED
    BY <1>4, <2>1 DEF TypeOK, CleanupRaises, CleanupEnd, disk, state, history
<1>5. ASSUME NEW m \in Measurement, ListDirectory(t, m) PROVE TypeOK'
  <2>1. [c[t] EXCEPT !.dirs = @ \ {m}, !.todo = {f \in files : MeasOf[f] = m}]
          \in CleanerState
    BY DEF TypeOK, CleanerState
  <2>2. c' \in [Cleaners -> CleanerState]
    BY <1>5, <2>1 DEF TypeOK, ListDirectory
  <2> QED
    BY <1>5, <2>2 DEF TypeOK, ListDirectory, disk, state, history
<1> QED
  BY <1>1, <1>2, <1>3, <1>4, <1>5 DEF CleanupStep

LEMMA TypeNext == TypeOK /\ ProgressInv /\ [Next]_vars => TypeOK'
<1> SUFFICES ASSUME TypeOK, ProgressInv, [Next]_vars PROVE TypeOK'
  OBVIOUS
<1>1. CASE Tick \/ Initialize \/ ShutdownBegin \/ ShutdownEnd \/ Crash
  BY <1>1, TypeTick, TypeInitialize, TypeShutdown, TypeCrash
<1>2. ASSUME NEW t \in Writers,
             (\E b \in Batches : WriteBegin(t, b)) \/ WriteStep(t) \/ WriteError(t)
      PROVE TypeOK'
  BY <1>2, TypeWriteBegin, TypeWriteLock, TypeOpenPartition, TypeFlush,
     TypeClosePartition, TypeFinishWrite, TypeWriteError DEF WriteStep
<1>3. ASSUME NEW t \in Readers, (\E m \in Measurement : ReadBegin(t, m)) \/ ReadStep(t)
      PROVE TypeOK'
  BY <1>3, TypeReadStep
<1>4. ASSUME NEW t \in Cleaners, CleanupBegin(t) \/ CleanupStep(t)
      PROVE TypeOK'
  BY <1>4, TypeCleanupStep
<1>5. CASE UNCHANGED vars
  BY <1>5 DEF TypeOK, vars, disk, state, history
<1> QED
  BY <1>1, <1>2, <1>3, <1>4, <1>5 DEF Next

-----------------------------------------------------------------------------
(* Steps that leave the writers alone *)

OtherStep ==
    \/ Tick \/ Initialize
    \/ \E t \in Readers : (\E m \in Measurement : ReadBegin(t, m)) \/ ReadStep(t)
    \/ \E t \in Cleaners :
          \/ CleanupBegin(t) \/ CleanupRaises(t) \/ CleanupEnd(t)
          \/ \E m \in Measurement : ListDirectory(t, m)
          \/ \E f \in File : ScanPartition(t, f)

LEMMA OtherFrame == OtherStep => UNCHANGED <<files, lines, w, manager_lock, acked, ontime, late>>
BY DEF OtherStep, Tick, Initialize, ReadBegin, ReadStep, ReadPartition, ReadReturn,
       ReadEnd, CleanupBegin, CleanupRaises, CleanupEnd, ListDirectory, ScanPartition, disk, history

LEMMA NextCases ==
    ASSUME [Next]_vars
    PROVE  \/ UNCHANGED vars \/ OtherStep \/ ShutdownBegin \/ ShutdownEnd \/ Crash
           \/ \E t \in Writers :
                 (\E b \in Batches : WriteBegin(t, b)) \/ WriteStep(t) \/ WriteError(t)
           \/ \E t \in Cleaners : UnlinkPartition(t)
BY DEF Next, OtherStep, CleanupStep

-----------------------------------------------------------------------------
(* Mutual exclusion *)

LEMMA LockNext == TypeOK /\ LockInv /\ ProgressInv /\ [Next]_vars => LockInv'
<1> SUFFICES ASSUME TypeOK, LockInv, ProgressInv, [Next]_vars PROVE LockInv'
  OBVIOUS
<1> USE NameAssumption DEF LockInv
<1>1. CASE UNCHANGED vars
  BY <1>1 DEF vars
<1>2. CASE OtherStep
  BY <1>2, OtherFrame
<1>3. CASE ShutdownBegin \/ ShutdownEnd
  BY <1>3 DEF ShutdownBegin, ShutdownEnd
<1>4. CASE Crash
  BY <1>4 DEF Crash, IdleWriter
<1>5. ASSUME NEW t \in Writers, NEW b \in Batches, WriteBegin(t, b) PROVE LockInv'
  BY <1>5 DEF WriteBegin, IdleWriter, TypeOK
<1>6. ASSUME NEW t \in Writers, WriteLock(t) \/ WriteRaises(t) PROVE LockInv'
  <2>1. CASE WriteLock(t)
    BY <2>1 DEF WriteLock, TypeOK, WriterState
  <2>2. CASE WriteRaises(t)
    BY <2>2 DEF WriteRaises, IdleWriter, TypeOK
  <2> QED BY <1>6, <2>1, <2>2
<1>7. ASSUME NEW t \in Writers, OpenPartition(t) PROVE LockInv'
  <2>1. PICK first \in w[t].rest : w' = [w EXCEPT ![t] = Opened(w[t], first)]
    BY <1>7 DEF OpenPartition
  <2>2. w[t].pc = "locked" /\ manager_lock' = manager_lock
    BY <1>7 DEF OpenPartition
  <2>3. \A u \in Writers : w'[u].pc = w[u].pc /\ (u # t => w'[u].open = w[u].open)
    <3>1. Opened(w[t], first).pc = w[t].pc
      BY OpenedType
    <3> QED BY <2>1, <3>1 DEF TypeOK
  <2> QED BY <2>2, <2>3
<1>8. ASSUME NEW t \in Writers, Flush(t) \/ ClosePartition(t) PROVE LockInv'
  <2>1. \A u \in Writers : w'[u].pc = w[u].pc /\ w'[u].open \in {w[u].open, NoFile}
    <3>1. CASE Flush(t)
      <4>1. PICK i : w' = [w EXCEPT ![t].pend = @ \ {i}]
        BY <3>1 DEF Flush
      <4> QED BY <4>1 DEF TypeOK, WriterState
    <3>2. CASE ClosePartition(t)
      BY <3>2 DEF ClosePartition, TypeOK, WriterState
    <3> QED BY <1>8, <3>1, <3>2
  <2>2. manager_lock' = manager_lock
    BY <1>8 DEF Flush, ClosePartition
  <2> QED BY <2>1, <2>2
<1>9. ASSUME NEW t \in Writers, AbortWrite(t) \/ FinishWrite(t) \/ WriteError(t)
      PROVE  LockInv'
  <2>1. w[t].pc = "locked" /\ manager_lock' = Free /\ w' = [w EXCEPT ![t] = IdleWriter]
    BY <1>9 DEF AbortWrite, FinishWrite, WriteError
  <2> QED BY <2>1 DEF IdleWriter, TypeOK
<1>10. ASSUME NEW t \in Cleaners, UnlinkPartition(t) PROVE LockInv'
  BY <1>10 DEF UnlinkPartition, TypeOK, WriterState
<1> QED
  BY <1>1, <1>2, <1>3, <1>4, <1>5, <1>6, <1>7, <1>8, <1>9, <1>10, NextCases DEF WriteStep

-----------------------------------------------------------------------------
(* Where the points of a call are *)

\* ProgressInv of one call, with what is stored as a parameter.
CallOK(x, stored) ==
    /\ x.pc # "idle" => x.batch \in Batches
    /\ x.rest \subseteq DOMAIN x.batch
    /\ x.pend \subseteq DOMAIN x.batch
    /\ (x.pend # {} \/ x.doomed) => x.open # NoFile
    /\ \A i \in x.pend : PartitionOf[x.batch[i]] = x.open
    /\ (x.pc # "idle" /\ ~x.doomed) =>
           \A i \in Valid(x.batch) : i \in x.rest \cup x.pend \/ x.batch[i] \in stored

LEMMA IdleCallOK == \A stored : CallOK(IdleWriter, stored)
BY DEF CallOK, IdleWriter

LEMMA CallOKMonotone ==
    ASSUME NEW x, NEW S, NEW T, S \subseteq T, CallOK(x, S)
    PROVE  CallOK(x, T)
BY DEF CallOK

LEMMA ProgressByCall ==
    ASSUME TypeOK, ProgressInv, NEW t \in Writers, NEW x,
           w' = [w EXCEPT ![t] = x],
           ontime \cup late \subseteq (ontime \cup late)',
           CallOK(x, (ontime \cup late)')
    PROVE  ProgressInv'
<1> SUFFICES ASSUME NEW u \in Writers PROVE CallOK(w'[u], (ontime \cup late)')
  BY DEF ProgressInv, CallOK
<1>1. CASE u = t
  BY <1>1 DEF TypeOK
<1>2. CASE u # t
  <2>1. w'[u] = w[u]
    BY <1>2 DEF TypeOK
  <2>2. CallOK(w[u], ontime \cup late)
    BY DEF ProgressInv, CallOK
  <2> QED BY <2>1, <2>2, CallOKMonotone
<1> QED BY <1>1, <1>2
LEMMA ProgressWriteLock ==
    ASSUME TypeOK, ProgressInv, NEW t \in Writers, WriteLock(t)
    PROVE  ProgressInv'
<1>1. w' = [w EXCEPT ![t] = [w[t] EXCEPT !.pc = "locked"]]
  BY DEF WriteLock, TypeOK
<1>2. ontime' = ontime /\ late' = late
  BY DEF WriteLock, history
<1>3. w[t].pc = "waiting" /\ CallOK(w[t], ontime \cup late)
  BY DEF ProgressInv, CallOK, WriteLock
<1>4. CallOK([w[t] EXCEPT !.pc = "locked"], ontime \cup late)
  BY <1>3 DEF CallOK, TypeOK, WriterState
<1> QED
  BY <1>1, <1>2, <1>4, ProgressByCall

LEMMA ProgressOpenPartition ==
    ASSUME TypeOK, ProgressInv, NEW t \in Writers, OpenPartition(t)
    PROVE  ProgressInv'
<1>1. PICK first \in w[t].rest : w' = [w EXCEPT ![t] = Opened(w[t], first)]
  BY DEF OpenPartition
<1> DEFINE x == Opened(w[t], first)
<1>2. /\ Serialised(w[t], first) \subseteq GroupOf(w[t], first)
      /\ GroupOf(w[t], first) \subseteq w[t].rest
      /\ \A i \in GroupOf(w[t], first) :
             PartitionOf[w[t].batch[i]] = PartitionOf[w[t].batch[first]]
  BY DEF Serialised, GroupOf
<1>3. CallOK(w[t], ontime \cup late) /\ w[t].pc = "locked" /\ w[t].open = NoFile
  BY DEF ProgressInv, CallOK, OpenPartition
<1>4. w[t].doomed = FALSE /\ w[t].pend = {}
  BY <1>3 DEF CallOK, TypeOK, WriterState
<1>5. PartitionOf[w[t].batch[first]] \in File
  BY OpenedType
<1>6. /\ x.pc = w[t].pc /\ x.batch = w[t].batch
      /\ x.rest = w[t].rest \ GroupOf(w[t], first) /\ x.pend = Serialised(w[t], first)
      /\ x.open = PartitionOf[w[t].batch[first]]
      /\ x.doomed = (Serialised(w[t], first) # GroupOf(w[t], first))
  BY OpenedType
<1> HIDE DEF x
<1>8. CallOK(x, ontime \cup late)
  BY <1>2, <1>3, <1>4, <1>5, <1>6, NameAssumption DEF CallOK
<1>7. ontime' = ontime /\ late' = late
  BY DEF OpenPartition, history
<1> QED
  BY <1>1, <1>7, <1>8, ProgressByCall DEF x

LEMMA ProgressFlush ==
    ASSUME TypeOK, ProgressInv, NEW t \in Writers, Flush(t)
    PROVE  ProgressInv'
<1>1. PICK i \in w[t].pend :
        /\ IF Ts[w[t].batch[i]] < now - MaxLag
           THEN late' = late \cup {w[t].batch[i]} /\ UNCHANGED ontime
           ELSE ontime' = ontime \cup {w[t].batch[i]} /\ UNCHANGED late
        /\ w' = [w EXCEPT ![t].pend = @ \ {i}]
  BY DEF Flush
<1> DEFINE x == [w[t] EXCEPT !.pend = w[t].pend \ {i}]
<1>2. w' = [w EXCEPT ![t] = x]
  BY <1>1 DEF TypeOK
<1>3. (ontime \cup late)' = ontime \cup late \cup {w[t].batch[i]}
  BY <1>1
<1>4. /\ x.pc = w[t].pc /\ x.batch = w[t].batch /\ x.rest = w[t].rest
      /\ x.pend = w[t].pend \ {i} /\ x.open = w[t].open /\ x.doomed = w[t].doomed
  BY DEF TypeOK, WriterState
<1>5. CallOK(w[t], ontime \cup late)
  BY DEF ProgressInv, CallOK
<1> HIDE DEF x
<1>6. CallOK(x, (ontime \cup late)')
  BY <1>3, <1>4, <1>5 DEF CallOK
<1>7. ontime \cup late \subseteq (ontime \cup late)'
  BY <1>3
<1> QED
  BY <1>2, <1>6, <1>7, ProgressByCall

LEMMA ProgressClosePartition ==
    ASSUME TypeOK, ProgressInv, NEW t \in Writers, ClosePartition(t)
    PROVE  ProgressInv'
<1> DEFINE x == [w[t] EXCEPT !.open = NoFile, !.linked = FALSE]
<1>1. w' = [w EXCEPT ![t] = x]
  BY DEF ClosePartition, TypeOK
<1>2. UNCHANGED <<ontime, late>>
  BY DEF ClosePartition, history
<1>3. CallOK(w[t], ontime \cup late) /\ w[t].pend = {} /\ ~w[t].doomed
  BY DEF ProgressInv, CallOK, ClosePartition
<1>4. CallOK(x, ontime \cup late)
  BY <1>3 DEF CallOK, TypeOK, WriterState
<1> QED
  BY <1>1, <1>2, <1>4, ProgressByCall

LEMMA ProgressNext == TypeOK /\ ProgressInv /\ [Next]_vars => ProgressInv'
<1> SUFFICES ASSUME TypeOK, ProgressInv, [Next]_vars PROVE ProgressInv'
  OBVIOUS
<1>1. CASE UNCHANGED vars \/ OtherStep \/ ShutdownBegin \/ ShutdownEnd
  <2>1. UNCHANGED <<w, ontime, late>>
    BY <1>1, OtherFrame DEF vars, history, ShutdownBegin, ShutdownEnd
  <2> QED BY <2>1 DEF ProgressInv
<1>2. CASE Crash
  <2>1. \A t \in Writers : w'[t] = IdleWriter
    BY <1>2 DEF Crash
  <2>2. \A t \in Writers : CallOK(w'[t], (ontime \cup late)')
    BY <2>1, IdleCallOK
  <2> QED BY <2>2 DEF ProgressInv, CallOK
<1>3. ASSUME NEW t \in Writers, NEW b \in Batches, WriteBegin(t, b) PROVE ProgressInv'
  <2> DEFINE x == [IdleWriter EXCEPT !.pc = "waiting", !.batch = b, !.rest = Valid(b)]
  <2>1. w' = [w EXCEPT ![t] = x] /\ UNCHANGED <<ontime, late>>
    BY <1>3 DEF WriteBegin, history
  <2>2. CallOK(x, ontime \cup late)
    BY ValidType DEF CallOK, IdleWriter
  <2> QED BY <2>1, <2>2, ProgressByCall
<1>4. ASSUME NEW t \in Writers,
             WriteRaises(t) \/ AbortWrite(t) \/ FinishWrite(t) \/ WriteError(t)
      PROVE  ProgressInv'
  <2>1. w' = [w EXCEPT ![t] = IdleWriter] /\ UNCHANGED <<ontime, late>>
    BY <1>4 DEF WriteRaises, AbortWrite, FinishWrite, WriteError, history
  <2> QED BY <2>1, IdleCallOK, ProgressByCall
<1>5. ASSUME NEW t \in Cleaners, UnlinkPartition(t) PROVE ProgressInv'
  <2>1. UNCHANGED <<ontime, late>>
    BY <1>5 DEF UnlinkPartition, history
  <2>2. ASSUME NEW u \in Writers
        PROVE  /\ w'[u].pc = w[u].pc /\ w'[u].batch = w[u].batch /\ w'[u].rest = w[u].rest
               /\ w'[u].pend = w[u].pend /\ w'[u].open = w[u].open
               /\ w'[u].doomed = w[u].doomed
    BY <1>5 DEF UnlinkPartition, TypeOK, WriterState
  <2> QED BY <2>1, <2>2 DEF ProgressInv
<1> QED
  BY <1>1, <1>2, <1>3, <1>4, <1>5, NextCases, ProgressWriteLock, ProgressOpenPartition,
     ProgressFlush, ProgressClosePartition DEF WriteStep

-----------------------------------------------------------------------------
(* What a step can do to the files and to the clock *)

\* No line goes; a torn one may become a bad one.
Grows ==
    \A f \in File : \A i \in DOMAIN lines[f] :
        /\ i \in DOMAIN lines'[f]
        /\ \/ lines'[f][i] = lines[f][i]
           \/ lines[f][i] = Torn /\ lines'[f][i] = Bad

LEMMA AppendLineGrows ==
    ASSUME NEW ls \in Seq(Line), NEW p \in Point
    PROVE  /\ \A i \in DOMAIN ls :
                 /\ i \in DOMAIN AppendLine(ls, p)
                 /\ \/ AppendLine(ls, p)[i] = ls[i]
                    \/ ls[i] = Torn /\ AppendLine(ls, p)[i] = Bad
           /\ \E i \in DOMAIN AppendLine(ls, p) : AppendLine(ls, p)[i] \in {p, Bad}
BY LineType, AppendLineKeeps

LEMMA TornTailGrows ==
    ASSUME TypeOK, NEW t \in Writers, lines' \in TornTail(t)
    PROVE  Grows
<1>1. CASE lines' = lines
  BY <1>1 DEF Grows
<1>2. CASE lines' = [lines EXCEPT ![w[t].open] = AppendTorn(@)]
  <2>1. ASSUME NEW ls \in Seq(Line), NEW i \in DOMAIN ls
        PROVE  i \in DOMAIN AppendTorn(ls) /\ AppendTorn(ls)[i] = ls[i]
    BY LineType, AppendTornKeeps
  <2>2. ASSUME NEW f \in File
        PROVE  lines[f] \in Seq(Line) /\ lines'[f] \in {lines[f], AppendTorn(lines[f])}
    BY <1>2 DEF TypeOK
  <2> QED BY <2>1, <2>2 DEF Grows
<1> QED
  BY <1>1, <1>2 DEF TornTail

LEMMA FlushGrows ==
    ASSUME TypeOK, ProgressInv, NEW t \in Writers, Flush(t)
    PROVE  Grows
<1>1. PICK i \in w[t].pend :
        lines' = IF w[t].linked
                 THEN [lines EXCEPT ![w[t].open] = AppendLine(@, w[t].batch[i])]
                 ELSE lines
  BY DEF Flush
<1>2. w[t].batch[i] \in Point
  BY BatchType DEF TypeOK, WriterState, ProgressInv
<1>3. ASSUME NEW f \in File
      PROVE  /\ lines[f] \in Seq(Line)
             /\ lines'[f] \in {lines[f], AppendLine(lines[f], w[t].batch[i])}
  BY <1>1 DEF TypeOK
<1> QED
  BY <1>2, <1>3, AppendLineGrows DEF Grows

LEMMA StepGrows ==
    ASSUME TypeOK, ProgressInv, [Next]_vars
    PROVE  /\ Grows \/ \E t \in Cleaners : UnlinkPartition(t)
           /\ now' \in Nat /\ now =< now'
<1>1. now' \in Nat /\ now =< now'
  <2>1. now' = now + 1 \/ now' = now
    BY DEF Next, vars, Tick, Initialize, ShutdownBegin, ShutdownEnd, Crash, WriteBegin,
           WriteStep, WriteLock, WriteRaises, OpenPartition, Flush, ClosePartition,
           AbortWrite, FinishWrite, WriteError, ReadBegin, ReadStep, ReadPartition,
           ReadReturn, ReadEnd, CleanupBegin, CleanupStep, ListDirectory, ScanPartition,
           UnlinkPartition, CleanupRaises, CleanupEnd
  <2> QED BY <2>1 DEF TypeOK
<1>2. UNCHANGED lines => Grows
  BY DEF Grows
<1>3. CASE UNCHANGED vars \/ OtherStep \/ ShutdownBegin \/ ShutdownEnd
  <2>1. UNCHANGED lines
    BY <1>3, OtherFrame DEF vars, disk, ShutdownBegin, ShutdownEnd
  <2> QED BY <1>1, <1>2, <2>1
<1>4. CASE Crash
  <2>1. UNCHANGED lines \/ \E t \in Writers : lines' \in TornTail(t)
    BY <1>4 DEF Crash
  <2> QED BY <1>1, <1>2, <2>1, TornTailGrows
<1>5. ASSUME NEW t \in Writers,
             (\E b \in Batches : WriteBegin(t, b)) \/ WriteStep(t) \/ WriteError(t)
      PROVE  Grows
  <2>1. CASE Flush(t)
    BY <2>1, FlushGrows
  <2>2. CASE WriteError(t)
    <3>1. UNCHANGED lines \/ lines' \in TornTail(t)
      BY <2>2 DEF WriteError
    <3> QED BY <1>2, <3>1, TornTailGrows
  <2>3. CASE ~Flush(t) /\ ~WriteError(t)
    <3>1. UNCHANGED lines
      BY <1>5, <2>3 DEF WriteBegin, WriteStep, WriteLock, WriteRaises, OpenPartition,
                        ClosePartition, AbortWrite, FinishWrite, disk
    <3> QED BY <1>2, <3>1
  <2> QED BY <2>1, <2>2, <2>3
<1> QED
  BY <1>1, <1>3, <1>4, <1>5, NextCases

LEMMA KeptGrows ==
    ASSUME TypeOK, Grows, now' \in Nat, now =< now'
    PROVE  /\ \A p \in Point : InFile(p) => InFile(p)'
           /\ \A f \in File : Corrupt(f) => Corrupt(f)'
           /\ \A p \in Point : Kept(p) => Kept(p)'
<1>1. ASSUME NEW p \in Point, InFile(p) PROVE InFile(p)'
  <2>1. PartitionOf[p] \in File /\ p # Torn
    BY PartitionAssumption, NameAssumption
  <2> QED BY <1>1, <2>1 DEF InFile, Grows
<1>2. ASSUME NEW f \in File, Corrupt(f) PROVE Corrupt(f)'
  BY <1>2 DEF Corrupt, Grows
<1>3. \A p \in Point : Expired(p) => Expired(p)'
  BY PartitionAssumption DEF Expired, TypeOK
<1>4. \A p \in Point : PartitionOf[p] \in File
  BY PartitionAssumption
<1> QED
  BY <1>1, <1>2, <1>3, <1>4 DEF Kept

LEMMA TimePasses ==
    ASSUME TypeOK, now' \in Nat, now =< now'
    PROVE  /\ \A p \in Point : Expired(p) => Expired(p)'
           /\ \A f \in File : Closed(f) => Closed(f)'
BY PartitionAssumption DEF TypeOK, Expired, Closed

-----------------------------------------------------------------------------
(* Files *)

LEMMA AppendLineElements ==
    ASSUME NEW ls \in Seq(Line), NEW p \in Point, NEW i \in DOMAIN AppendLine(ls, p)
    PROVE  \/ AppendLine(ls, p)[i] \in {p, Bad}
           \/ i \in DOMAIN ls /\ AppendLine(ls, p)[i] = ls[i]
BY LineType, AppendLineKeeps

LEMMA AppendTornElements ==
    ASSUME NEW ls \in Seq(Line), NEW i \in DOMAIN AppendTorn(ls)
    PROVE  \/ AppendTorn(ls)[i] = Torn
           \/ i \in DOMAIN ls /\ AppendTorn(ls)[i] = ls[i]
BY LineType, AppendTornKeeps

\* The first two conjuncts of FileInv, and the third for one call.
LinesOK ==
    /\ \A f \in File : lines[f] # <<>> => f \in files
    /\ \A f \in File : \A i \in DOMAIN lines[f] :
           lines[f][i] \in Point => PartitionOf[lines[f][i]] = f
HandleOK(x, names) == (x.open # NoFile /\ x.linked) => x.open \in names

LEMMA LinesByTornTail ==
    ASSUME TypeOK, FileInv, ProgressInv, NEW t \in Writers, lines' \in TornTail(t),
           files' = files
    PROVE  LinesOK'
<1>1. CASE lines' = lines
  BY <1>1 DEF FileInv, LinesOK
<1>2. CASE lines' # lines
  <2>1. /\ lines' = [lines EXCEPT ![w[t].open] = AppendTorn(@)]
        /\ w[t].linked /\ w[t].pend # {}
    BY <1>2 DEF TornTail
  <2>2. w[t].open \in files /\ w[t].open \in File
    BY <2>1, NameAssumption DEF FileInv, ProgressInv, TypeOK, WriterState
  <2>3. ASSUME NEW f \in File
        PROVE  /\ lines'[f] # <<>> => f \in files
               /\ \A i \in DOMAIN lines'[f] :
                      lines'[f][i] \in Point => PartitionOf[lines'[f][i]] = f
    <3>1. CASE f # w[t].open
      BY <2>1, <3>1 DEF FileInv, TypeOK
    <3>2. CASE f = w[t].open
      <4>1. lines'[f] = AppendTorn(lines[f]) /\ lines[f] \in Seq(Line)
        BY <2>1, <3>2 DEF TypeOK
      <4>2. ASSUME NEW i \in DOMAIN lines'[f], lines'[f][i] \in Point
            PROVE  PartitionOf[lines'[f][i]] = f
        <5>1. i \in DOMAIN lines[f] /\ lines'[f][i] = lines[f][i]
          BY <4>1, <4>2, AppendTornElements, NameAssumption
        <5> QED BY <4>2, <5>1 DEF FileInv
      <4> QED BY <2>2, <3>2, <4>2
    <3> QED BY <3>1, <3>2
  <2> QED BY <2>3 DEF LinesOK
<1> QED BY <1>1, <1>2

LEMMA LinesByFlush ==
    ASSUME TypeOK, FileInv, ProgressInv, NEW t \in Writers, Flush(t)
    PROVE  LinesOK'
<1>1. PICK i \in w[t].pend :
        lines' = IF w[t].linked
                 THEN [lines EXCEPT ![w[t].open] = AppendLine(@, w[t].batch[i])]
                 ELSE lines
  BY DEF Flush
<1> DEFINE p == w[t].batch[i]
<1>2. p \in Point /\ PartitionOf[p] = w[t].open /\ w[t].open # NoFile
  BY BatchType DEF TypeOK, WriterState, ProgressInv, Flush
<1> HIDE DEF p
<1>3. files' = files
  BY DEF Flush
<1>4. CASE ~w[t].linked
  BY <1>1, <1>3, <1>4 DEF FileInv, LinesOK
<1>5. CASE w[t].linked
  <2>1. w[t].open \in files
    BY <1>2, <1>5 DEF FileInv
  <2>2. ASSUME NEW f \in File
        PROVE  /\ lines'[f] # <<>> => f \in files
               /\ \A k \in DOMAIN lines'[f] :
                      lines'[f][k] \in Point => PartitionOf[lines'[f][k]] = f
    <3>1. CASE f # w[t].open
      BY <1>1, <1>5, <3>1 DEF FileInv, TypeOK
    <3>2. CASE f = w[t].open
      <4>1. lines'[f] = AppendLine(lines[f], p) /\ lines[f] \in Seq(Line)
        BY <1>1, <1>5, <3>2 DEF TypeOK, p
      <4>2. ASSUME NEW k \in DOMAIN lines'[f], lines'[f][k] \in Point
            PROVE  PartitionOf[lines'[f][k]] = f
        <5>1. lines'[f][k] = p \/ (k \in DOMAIN lines[f] /\ lines'[f][k] = lines[f][k])
          BY <1>2, <4>1, <4>2, AppendLineElements, NameAssumption
        <5> QED BY <1>2, <3>2, <4>2, <5>1 DEF FileInv
      <4> QED BY <2>1, <3>2, <4>2
    <3> QED BY <3>1, <3>2
  <2> QED BY <1>3, <2>2 DEF LinesOK
<1> QED BY <1>4, <1>5

LEMMA FileByParts ==
    ASSUME LinesOK', \A u \in Writers : HandleOK(w'[u], files')
    PROVE  FileInv'
BY DEF FileInv, LinesOK, HandleOK

LEMMA FileByCall ==
    ASSUME TypeOK, FileInv, LinesOK', NEW t \in Writers, NEW x,
           w' = [w EXCEPT ![t] = x], files \subseteq files', HandleOK(x, files')
    PROVE  FileInv'
<1>1. \A u \in Writers : w'[u] = x \/ w'[u] = w[u]
  BY DEF TypeOK
<1>2. \A u \in Writers : HandleOK(w[u], files')
  BY DEF FileInv, HandleOK
<1> QED BY <1>1, <1>2, FileByParts

LEMMA FileNext == TypeOK /\ ProgressInv /\ FileInv /\ [Next]_vars => FileInv'
<1> SUFFICES ASSUME TypeOK, ProgressInv, FileInv, [Next]_vars PROVE FileInv'
  OBVIOUS
<1>1. (UNCHANGED <<files, lines>>) => LinesOK'
  BY DEF FileInv, LinesOK
<1>2. \A names : HandleOK(IdleWriter, names)
  BY DEF HandleOK, IdleWriter
<1>3. CASE UNCHANGED vars \/ OtherStep \/ ShutdownBegin \/ ShutdownEnd
  <2>1. UNCHANGED <<files, lines, w>>
    BY <1>3, OtherFrame DEF vars, disk, ShutdownBegin, ShutdownEnd
  <2> QED BY <2>1 DEF FileInv
<1>4. CASE Crash
  <2>1. /\ UNCHANGED lines \/ \E t \in Writers : lines' \in TornTail(t)
        /\ files' = files /\ \A t \in Writers : w'[t] = IdleWriter
    BY <1>4 DEF Crash
  <2> QED BY <1>1, <1>2, <2>1, LinesByTornTail, FileByParts
<1>5. ASSUME NEW t \in Writers, NEW b \in Batches, WriteBegin(t, b) PROVE FileInv'
  <2> DEFINE x == [IdleWriter EXCEPT !.pc = "waiting", !.batch = b, !.rest = Valid(b)]
  <2>1. w' = [w EXCEPT ![t] = x] /\ UNCHANGED <<files, lines>>
    BY <1>5 DEF WriteBegin, disk
  <2>2. HandleOK(x, files')
    BY DEF HandleOK, IdleWriter
  <2> QED BY <1>1, <2>1, <2>2, FileByCall
<1>6. ASSUME NEW t \in Writers, WriteLock(t) \/ ClosePartition(t) PROVE FileInv'
  <2>1. UNCHANGED <<files, lines>>
    BY <1>6 DEF WriteLock, ClosePartition, disk
  <2>2. CASE WriteLock(t)
    <3>1. \A u \in Writers : w'[u].open = w[u].open /\ w'[u].linked = w[u].linked
      BY <2>2 DEF WriteLock, TypeOK, WriterState
    <3> QED BY <2>1, <3>1 DEF FileInv
  <2>3. CASE ClosePartition(t)
    <3>1. \A u \in Writers : w'[u] = w[u] \/ w'[u].open = NoFile
      BY <2>3 DEF ClosePartition, TypeOK, WriterState
    <3> QED BY <2>1, <3>1 DEF FileInv
  <2> QED BY <1>6, <2>2, <2>3
<1>7. ASSUME NEW t \in Writers, OpenPartition(t) PROVE FileInv'
  <2>1. PICK first \in w[t].rest :
          /\ files' = files \cup {PartitionOf[w[t].batch[first]]}
          /\ w' = [w EXCEPT ![t] = Opened(w[t], first)]
    BY <1>7 DEF OpenPartition
  <2>2. lines' = lines
    BY <1>7 DEF OpenPartition
  <2>3. LinesOK'
    BY <2>1, <2>2 DEF LinesOK, FileInv
  <2>4. Opened(w[t], first).open = PartitionOf[w[t].batch[first]]
    BY OpenedType
  <2>5. HandleOK(Opened(w[t], first), files')
    BY <2>1, <2>4 DEF HandleOK
  <2>6. files \subseteq files'
    BY <2>1
  <2> QED BY <2>1, <2>3, <2>5, <2>6, FileByCall
<1>8. ASSUME NEW t \in Writers, Flush(t) PROVE FileInv'
  <2>1. PICK i : w' = [w EXCEPT ![t].pend = @ \ {i}]
    BY <1>8 DEF Flush
  <2>2. \A u \in Writers : w'[u].open = w[u].open /\ w'[u].linked = w[u].linked
    BY <2>1 DEF TypeOK, WriterState
  <2>3. files' = files
    BY <1>8 DEF Flush
  <2>4. \A u \in Writers : HandleOK(w'[u], files')
    BY <2>2, <2>3 DEF FileInv, HandleOK
  <2> QED BY <1>8, <2>4, LinesByFlush, FileByParts
<1>9. ASSUME NEW t \in Writers,
             WriteRaises(t) \/ AbortWrite(t) \/ FinishWrite(t) \/ WriteError(t)
      PROVE  FileInv'
  <2>1. w' = [w EXCEPT ![t] = IdleWriter] /\ files' = files
    BY <1>9 DEF WriteRaises, AbortWrite, FinishWrite, WriteError, disk
  <2>2. UNCHANGED lines \/ lines' \in TornTail(t)
    BY <1>9 DEF WriteRaises, AbortWrite, FinishWrite, WriteError, disk
  <2>3. LinesOK'
    BY <1>1, <2>1, <2>2, LinesByTornTail
  <2> QED BY <1>2, <2>1, <2>3, FileByCall
<1>10. ASSUME NEW t \in Cleaners, UnlinkPartition(t) PROVE FileInv'
  <2>1. /\ files' = files \ {c[t].target}
        /\ lines' = [lines EXCEPT ![c[t].target] = <<>>]
        /\ w' = [u \in Writers |-> [w[u] EXCEPT !.linked = @ /\ w[u].open # c[t].target]]
    BY <1>10 DEF UnlinkPartition
  <2>2. LinesOK'
    <3>1. \A f \in File : lines'[f] = IF f = c[t].target THEN <<>> ELSE lines[f]
      BY <2>1 DEF TypeOK
    <3> QED BY <2>1, <3>1 DEF LinesOK, FileInv
  <2>3. \A u \in Writers :
           /\ w'[u].open = w[u].open
           /\ w'[u].linked = (w[u].linked /\ w[u].open # c[t].target)
    BY <2>1 DEF TypeOK, WriterState
  <2>4. \A u \in Writers : w'[u].linked => (w[u].linked /\ w[u].open # c[t].target)
    BY <2>3, Zenon
  <2>5. \A u \in Writers : HandleOK(w'[u], files')
    BY <2>1, <2>3, <2>4 DEF FileInv, HandleOK
  <2> QED BY <2>2, <2>5, FileByParts
<1> QED
  BY <1>3, <1>4, <1>5, <1>6, <1>7, <1>8, <1>9, <1>10, NextCases DEF WriteStep

-----------------------------------------------------------------------------
(* What is stored, and by which calls *)

LEMMA FlushedPoint ==
    ASSUME TypeOK, ProgressInv, NEW t \in Writers, Flush(t)
    PROVE  \E p \in Point :
             /\ PartitionOf[p] = w[t].open /\ w[t].open \in File
             /\ lines' = IF w[t].linked
                         THEN [lines EXCEPT ![w[t].open] = AppendLine(@, p)]
                         ELSE lines
             /\ IF Ts[p] < now - MaxLag
                THEN late' = late \cup {p} /\ ontime' = ontime
                ELSE ontime' = ontime \cup {p} /\ late' = late
<1>1. PICK i \in w[t].pend :
        /\ lines' = IF w[t].linked
                    THEN [lines EXCEPT ![w[t].open] = AppendLine(@, w[t].batch[i])]
                    ELSE lines
        /\ IF Ts[w[t].batch[i]] < now - MaxLag
           THEN late' = late \cup {w[t].batch[i]} /\ UNCHANGED ontime
           ELSE ontime' = ontime \cup {w[t].batch[i]} /\ UNCHANGED late
  BY DEF Flush
<1>2. w[t].batch[i] \in Point
  BY BatchType DEF TypeOK, WriterState, ProgressInv
<1>3. PartitionOf[w[t].batch[i]] = w[t].open
  BY DEF ProgressInv
<1>4. w[t].open \in File
  BY <1>2, <1>3, PartitionAssumption
<1> QED BY <1>1, <1>2, <1>3, <1>4

LEMMA StoredByFlush ==
    ASSUME [Next]_vars
    PROVE  \/ UNCHANGED <<ontime, late>>
           \/ \E t \in Writers : Flush(t)
BY OtherFrame, NextCases DEF vars, history, ShutdownBegin, ShutdownEnd, Crash,
   WriteBegin, WriteStep, WriteLock, WriteRaises, OpenPartition, ClosePartition,
   AbortWrite, FinishWrite, WriteError, UnlinkPartition

LEMMA NewOnTime ==
    ASSUME TypeOK, ProgressInv, [Next]_vars
    PROVE  /\ ontime \cup late \subseteq ontime' \cup late'
           /\ ontime' \in SUBSET Point
           /\ \A p \in ontime' \ ontime : ~(Ts[p] < now - MaxLag)
<1>1. CASE UNCHANGED <<ontime, late>>
  BY <1>1 DEF TypeOK
<1>2. ASSUME NEW t \in Writers, Flush(t)
      PROVE  \E p \in Point :
                IF Ts[p] < now - MaxLag
                THEN late' = late \cup {p} /\ ontime' = ontime
                ELSE ontime' = ontime \cup {p} /\ late' = late
  BY <1>2, FlushedPoint
<1> QED BY <1>1, <1>2, StoredByFlush DEF TypeOK

-----------------------------------------------------------------------------
(* Cleanups *)

\* CleanupInv of one call, with the clock and what is stored as parameters.
CleanerOK(x, clock, stored) ==
    /\ x.pc = "idle" \/ x.cutoff =< clock - Retention
    /\ x.pc = "unlinking" =>
          /\ x.target \in File
          /\ \A p \in Point : PartitionOf[p] = x.target => Ts[p] < clock - MaxLag
          /\ \A p \in stored : PartitionOf[p] = x.target => Ts[p] < clock - Retention

LEMMA CleanerLater ==
    ASSUME NEW x \in CleanerState, NEW clock \in Nat, NEW then \in Nat, clock =< then,
           NEW S \in SUBSET Point, NEW T \in SUBSET Point,
           \A p \in T \ S : ~(Ts[p] < clock - MaxLag),
           CleanerOK(x, clock, S)
    PROVE  CleanerOK(x, then, T)
<1>1. x.cutoff \in Int
  BY DEF CleanerState
<1>2. x.pc = "idle" \/ x.cutoff =< then - Retention
  BY <1>1, PartitionAssumption DEF CleanerOK
<1>3. ASSUME x.pc = "unlinking", NEW p \in Point, PartitionOf[p] = x.target
      PROVE  Ts[p] < clock - MaxLag /\ Ts[p] < then - MaxLag
  BY <1>3, PartitionAssumption DEF CleanerOK
<1>4. ASSUME x.pc = "unlinking", NEW p \in T, PartitionOf[p] = x.target
      PROVE  Ts[p] < then - Retention
  <2>1. p \in S
    BY <1>3, <1>4
  <2> QED BY <1>4, <2>1, PartitionAssumption DEF CleanerOK
<1> QED BY <1>2, <1>3, <1>4 DEF CleanerOK

LEMMA ScanFindsClosed ==
    ASSUME TypeOK, FileInv, StoreInv, NEW f \in File, NEW cutoff \in Int,
           cutoff =< now - Retention, NewestBefore(f, cutoff)
    PROVE  /\ \A p \in Point : PartitionOf[p] = f => Ts[p] < now - MaxLag
           /\ \A p \in ontime : PartitionOf[p] = f => Ts[p] < now - Retention
<1>1. lines[f] \in Seq(Line) /\ 1 \in DOMAIN lines[f]
  BY DEF TypeOK, NewestBefore
<1>2. \A i \in DOMAIN lines[f] : lines[f][i] \in Point /\ Ts[lines[f][i]] < cutoff
  BY DEF NewestBefore
<1>3. PICK q \in Point : PartitionOf[q] = f /\ Ts[q] < cutoff
  BY <1>1, <1>2 DEF FileInv
<1>4. ASSUME NEW p \in Point, PartitionOf[p] = f PROVE Ts[p] < now - MaxLag
  <2>1. Ts[p] < Ts[q] + Width
    BY <1>3, <1>4, PartitionAssumption
  <2> QED BY <1>3, <2>1, PartitionAssumption DEF TypeOK
<1>5. ASSUME NEW p \in ontime, PartitionOf[p] = f PROVE Ts[p] < now - Retention
  <2>1. p \in Point
    BY DEF TypeOK
  <2>2. ~Corrupt(f)
    BY <1>2, NameAssumption DEF Corrupt
  <2>3. InFile(p) \/ Expired(p)
    BY <1>5, <2>2 DEF StoreInv, Kept
  <2>4. InFile(p) => Ts[p] < cutoff
    BY <1>2, <1>5 DEF InFile
  <2> QED BY <2>1, <2>3, <2>4, PartitionAssumption DEF Expired, TypeOK
<1> QED BY <1>4, <1>5

LEMMA CleanersStep ==
    ASSUME TypeOK, FileInv, StoreInv, CleanupInv, [Next]_vars, NEW t \in Cleaners
    PROVE  CleanerOK(c'[t], now, ontime)
<1>1. \A u \in Cleaners : CleanerOK(c[u], now, ontime)
  BY DEF CleanupInv, CleanerOK, Closed, Expired
<1>2. CleanerOK(IdleCleaner, now, ontime)
  BY DEF CleanerOK, IdleCleaner
<1>3. c' = c \/ Crash \/ \E u \in Cleaners : CleanupBegin(u) \/ CleanupStep(u)
  BY DEF Next, vars, Tick, Initialize, ShutdownBegin, ShutdownEnd, WriteBegin, WriteStep,
     WriteLock, WriteRaises, OpenPartition, Flush, ClosePartition, AbortWrite,
     FinishWrite, WriteError, ReadBegin, ReadStep, ReadPartition, ReadReturn, ReadEnd
<1>4. CASE Crash
  BY <1>2, <1>4 DEF Crash
<1>5. ASSUME NEW u \in Cleaners, CleanupBegin(u) PROVE CleanerOK(c'[t], now, ontime)
  <2> DEFINE x == [IdleCleaner EXCEPT !.pc = "scanning", !.dirs = Measurement,
                                 !.cutoff = now - Retention]
  <2>1. c'[t] = c[t] \/ c'[t] = x
    BY <1>5 DEF CleanupBegin, TypeOK
  <2>2. x.pc = "scanning" /\ x.cutoff = now - Retention
    BY DEF IdleCleaner
  <2>3. CleanerOK(x, now, ontime)
    <3>1. now - Retention \in Int
      BY PartitionAssumption DEF TypeOK
    <3> HIDE DEF x
    <3> QED BY <2>2, <3>1 DEF CleanerOK
  <2> QED BY <1>1, <2>1, <2>3
<1>6. ASSUME NEW u \in Cleaners, NEW f \in File, ScanPartition(u, f)
      PROVE  CleanerOK(c'[t], now, ontime)
  <2>1. c[u].pc = "scanning" /\ c[u].cutoff =< now - Retention /\ c[u].cutoff \in Int
    BY <1>6 DEF ScanPartition, CleanupInv, TypeOK, CleanerState
  <2>2. c'[u].cutoff = c[u].cutoff /\ (t # u => c'[t] = c[t])
    BY <1>6 DEF ScanPartition, TypeOK, CleanerState
  <2>3. CASE NewestBefore(f, c[u].cutoff)
    <3>1. c'[u].pc = "unlinking" /\ c'[u].target = f
      BY <1>6, <2>3 DEF ScanPartition, TypeOK, CleanerState
    <3>2. CleanerOK(c'[u], now, ontime)
      BY <2>1, <2>2, <2>3, <3>1, ScanFindsClosed DEF CleanerOK
    <3> QED BY <1>1, <2>2, <3>2
  <2>4. CASE ~NewestBefore(f, c[u].cutoff)
    <3>1. c'[u].pc = "scanning"
      BY <1>6, <2>1, <2>4 DEF ScanPartition, TypeOK, CleanerState
    <3>2. CleanerOK(c'[u], now, ontime)
      BY <2>1, <2>2, <3>1 DEF CleanerOK
    <3> QED BY <1>1, <2>2, <3>2
  <2> QED BY <2>3, <2>4
<1>7. ASSUME NEW u \in Cleaners, UnlinkPartition(u) \/ CleanupRaises(u) \/ CleanupEnd(u)
      PROVE  CleanerOK(c'[t], now, ontime)
  <2>1. c'[t] = c[t] \/ c'[t] = IdleCleaner
          \/ (c'[t].pc = "scanning" /\ c'[t].cutoff = c[t].cutoff /\ c[t].pc # "idle")
    BY <1>7 DEF UnlinkPartition, CleanupRaises, CleanupEnd, TypeOK, CleanerState
  <2> QED BY <1>1, <1>2, <2>1 DEF CleanerOK
<1>8. ASSUME NEW u \in Cleaners, NEW m \in Measurement, ListDirectory(u, m)
      PROVE  CleanerOK(c'[t], now, ontime)
  <2>1. c'[t].pc = c[t].pc /\ c'[t].cutoff = c[t].cutoff /\ c'[t].target = c[t].target
    BY <1>8 DEF ListDirectory, TypeOK, CleanerState
  <2> QED BY <1>1, <2>1 DEF CleanerOK
<1> QED
  BY <1>1, <1>3, <1>4, <1>5, <1>6, <1>7, <1>8 DEF CleanupStep

LEMMA CleanupNext ==
    ASSUME TypeOK, TypeOK', ProgressInv, FileInv, StoreInv, CleanupInv, [Next]_vars
    PROVE  CleanupInv'
<1>1. now \in Nat /\ now' \in Nat /\ now =< now' /\ ontime \in SUBSET Point
  BY StepGrows DEF TypeOK
<1>2. /\ ontime' \in SUBSET Point
      /\ \A p \in ontime' \ ontime : ~(Ts[p] < now - MaxLag)
  BY NewOnTime
<1>3. \A t \in Cleaners : c'[t] \in CleanerState
  BY DEF TypeOK
<1>4. \A t \in Cleaners : CleanerOK(c'[t], now', ontime')
  BY <1>1, <1>2, <1>3, CleanersStep, CleanerLater
<1> QED
  BY <1>4 DEF CleanerOK, CleanupInv, Closed, Expired

-----------------------------------------------------------------------------
(* Writers whose file lost its name *)

\* What a step makes of the open file of a call.
LEMMA HandleSteps ==
    ASSUME TypeOK, ProgressInv, [Next]_vars, NEW u \in Writers
    PROVE  \/ w'[u].open = NoFile
           \/ w'[u].linked
           \/ w'[u].open = w[u].open /\ ~w[u].linked
           \/ \E t \in Cleaners :
                 UnlinkPartition(t) /\ w'[u].open = w[u].open /\ w[u].open = c[t].target
<1>1. w' = w => w'[u].open = w[u].open /\ (w[u].linked => w'[u].linked)
  OBVIOUS
<1>2. CASE UNCHANGED vars \/ OtherStep \/ ShutdownBegin \/ ShutdownEnd
  <2>1. w' = w
    BY <1>2, OtherFrame DEF vars, ShutdownBegin, ShutdownEnd
  <2> QED BY <1>1, <2>1
<1>3. CASE Crash
  BY <1>3 DEF Crash, IdleWriter
<1>4. ASSUME NEW t \in Writers, NEW b \in Batches, WriteBegin(t, b)
      PROVE  w'[u] = w[u] \/ w'[u].open = NoFile
  BY <1>4 DEF WriteBegin, IdleWriter, TypeOK
<1>5. ASSUME NEW t \in Writers, WriteLock(t)
      PROVE  w'[u].open = w[u].open /\ w'[u].linked = w[u].linked
  BY <1>5 DEF WriteLock, TypeOK, WriterState
<1>6. ASSUME NEW t \in Writers, OpenPartition(t)
      PROVE  w'[u] = w[u] \/ w'[u].linked
  <2>1. PICK first \in w[t].rest : w' = [w EXCEPT ![t] = Opened(w[t], first)]
    BY <1>6 DEF OpenPartition
  <2>2. Opened(w[t], first).linked = TRUE
    BY OpenedType
  <2> QED BY <2>1, <2>2 DEF TypeOK
<1>7. ASSUME NEW t \in Writers, Flush(t)
      PROVE  w'[u].open = w[u].open /\ w'[u].linked = w[u].linked
  <2>1. PICK i : w' = [w EXCEPT ![t].pend = @ \ {i}]
    BY <1>7 DEF Flush
  <2> QED BY <2>1 DEF TypeOK, WriterState
<1>8. ASSUME NEW t \in Writers, ClosePartition(t)
      PROVE  w'[u] = w[u] \/ w'[u].open = NoFile
  BY <1>8 DEF ClosePartition, TypeOK, WriterState
<1>9. ASSUME NEW t \in Writers,
             WriteRaises(t) \/ AbortWrite(t) \/ FinishWrite(t) \/ WriteError(t)
      PROVE  w'[u] = w[u] \/ w'[u].open = NoFile
  <2>1. w' = [w EXCEPT ![t] = IdleWriter]
    BY <1>9 DEF WriteRaises, AbortWrite, FinishWrite, WriteError
  <2> QED BY <2>1 DEF IdleWriter, TypeOK
<1>10. ASSUME NEW t \in Cleaners, UnlinkPartition(t)
       PROVE  /\ w'[u].open = w[u].open
              /\ w[u].linked => (w'[u].linked \/ w[u].open = c[t].target)
  <2>1. w' = [v \in Writers |-> [w[v] EXCEPT !.linked = @ /\ w[v].open # c[t].target]]
    BY <1>10 DEF UnlinkPartition
  <2>2. /\ w'[u].open = w[u].open
        /\ w'[u].linked = (w[u].linked /\ w[u].open # c[t].target)
    BY <2>1 DEF TypeOK, WriterState
  <2> QED BY <2>2, Zenon
<1> QED
  BY <1>2, <1>3, <1>4, <1>5, <1>6, <1>7, <1>8, <1>9, <1>10, NextCases DEF WriteStep

LEMMA OrphanNext ==
    ASSUME TypeOK, ProgressInv, CleanupInv, OrphanInv, [Next]_vars
    PROVE  OrphanInv'
<1> SUFFICES ASSUME NEW u \in Writers, w'[u].open # NoFile, ~w'[u].linked
             PROVE  \A p \in Point : PartitionOf[p] = w'[u].open => Ts[p] < now' - MaxLag
  BY DEF OrphanInv, Closed
<1>1. now \in Nat /\ now' \in Nat /\ now =< now'
  BY StepGrows DEF TypeOK
<1>2. \A p \in Point : PartitionOf[p] = w'[u].open => Ts[p] < now - MaxLag
  <2>1. CASE w'[u].open = w[u].open /\ ~w[u].linked
    BY <2>1 DEF OrphanInv, Closed
  <2>2. ASSUME NEW t \in Cleaners, UnlinkPartition(t), w'[u].open = w[u].open,
               w[u].open = c[t].target
        PROVE  \A p \in Point : PartitionOf[p] = w'[u].open => Ts[p] < now - MaxLag
    BY <2>2 DEF CleanupInv, Closed, UnlinkPartition
  <2> QED BY <2>1, <2>2, HandleSteps
<1> QED BY <1>1, <1>2, PartitionAssumption

-----------------------------------------------------------------------------
(* What is stored stays *)

\* What a removal takes with it had expired.
LEMMA UnlinkKeeps ==
    ASSUME TypeOK, ProgressInv, CleanupInv, NEW t \in Cleaners, UnlinkPartition(t)
    PROVE  /\ now' = now
           /\ \A f \in File : f # c[t].target => lines'[f] = lines[f]
           /\ \A p \in ontime : PartitionOf[p] = c[t].target => Expired(p)'
<1>1. now' = now /\ lines' = [lines EXCEPT ![c[t].target] = <<>>] /\ c[t].pc = "unlinking"
  BY DEF UnlinkPartition
<1>2. \A p \in ontime : PartitionOf[p] = c[t].target => Expired(p)
  BY <1>1 DEF CleanupInv
<1> QED BY <1>1, <1>2 DEF Expired, TypeOK

LEMMA FlushStores ==
    ASSUME TypeOK, ProgressInv, OrphanInv, NEW t \in Writers, Flush(t),
           NEW q \in ontime' \ ontime
    PROVE  InFile(q)' \/ Corrupt(PartitionOf[q])'
<1>1. PICK p \in Point :
        /\ PartitionOf[p] = w[t].open /\ w[t].open \in File
        /\ lines' = IF w[t].linked
                    THEN [lines EXCEPT ![w[t].open] = AppendLine(@, p)]
                    ELSE lines
        /\ IF Ts[p] < now - MaxLag
           THEN late' = late \cup {p} /\ ontime' = ontime
           ELSE ontime' = ontime \cup {p} /\ late' = late
  BY FlushedPoint
<1>2. q = p /\ ~(Ts[p] < now - MaxLag)
  BY <1>1
<1>3. w[t].linked
  BY <1>1, <1>2, NameAssumption DEF OrphanInv, Closed
<1>4. lines'[PartitionOf[p]] = AppendLine(lines[PartitionOf[p]], p)
      /\ lines[PartitionOf[p]] \in Seq(Line)
  BY <1>1, <1>3 DEF TypeOK
<1>5. \E i \in DOMAIN lines'[PartitionOf[p]] : lines'[PartitionOf[p]][i] \in {p, Bad}
  BY <1>4, AppendLineGrows
<1> QED BY <1>2, <1>5 DEF InFile, Corrupt

LEMMA AckedNext ==
    ASSUME TypeOK, ProgressInv, StoreInv, [Next]_vars
    PROVE  acked' \subseteq ontime' \cup late'
<1>1. ontime \cup late \subseteq ontime' \cup late'
  BY NewOnTime
<1>2. acked' = acked \/ \E t \in Writers : FinishWrite(t)
  BY OtherFrame, NextCases DEF vars, history, ShutdownBegin, ShutdownEnd, Crash,
     WriteBegin, WriteStep, WriteLock, WriteRaises, OpenPartition, Flush,
     ClosePartition, AbortWrite, WriteError, UnlinkPartition
<1>3. ASSUME NEW t \in Writers, FinishWrite(t)
      PROVE  acked' \subseteq ontime \cup late
  <2>1. w[t].pc = "locked" /\ w[t].open = NoFile /\ w[t].rest = {}
    BY <1>3 DEF FinishWrite
  <2>2. w[t].pend = {} /\ ~w[t].doomed
    BY <2>1 DEF ProgressInv
  <2>3. \A i \in Valid(w[t].batch) : w[t].batch[i] \in ontime \cup late
    BY <2>1, <2>2 DEF ProgressInv
  <2>4. acked' = acked \/
          (Valid(w[t].batch) = DOMAIN w[t].batch
            /\ acked' = acked \cup {w[t].batch[i] : i \in DOMAIN w[t].batch})
    BY <1>3 DEF FinishWrite
  <2> QED BY <2>3, <2>4 DEF StoreInv
<1> QED BY <1>1, <1>2, <1>3 DEF StoreInv

LEMMA StoreNext ==
    ASSUME TypeOK, ProgressInv, CleanupInv, OrphanInv, StoreInv, [Next]_vars
    PROVE  StoreInv'
<1>1. now' \in Nat /\ now =< now' /\ ontime \subseteq Point
  BY StepGrows DEF TypeOK
<1>2. ASSUME NEW p \in ontime PROVE Kept(p)'
  <2>1. CASE Grows
    BY <1>1, <2>1, KeptGrows DEF StoreInv
  <2>2. ASSUME NEW t \in Cleaners, UnlinkPartition(t) PROVE Kept(p)'
    <3>1. CASE PartitionOf[p] = c[t].target
      BY <2>2, <3>1, UnlinkKeeps DEF Kept
    <3>2. CASE PartitionOf[p] # c[t].target
      <4>1. lines'[PartitionOf[p]] = lines[PartitionOf[p]] /\ now' = now
        BY <1>1, <2>2, <3>2, UnlinkKeeps, PartitionAssumption
      <4> QED BY <4>1 DEF StoreInv, Kept, InFile, Corrupt, Expired
    <3> QED BY <3>1, <3>2
  <2> QED BY <2>1, <2>2, StepGrows
<1>3. ASSUME NEW p \in ontime' \ ontime PROVE Kept(p)'
  BY <1>3, StoredByFlush, FlushStores DEF Kept
<1> QED BY <1>2, <1>3, AckedNext DEF StoreInv

-----------------------------------------------------------------------------
(* Readers *)

LEMMA ParsedHolds ==
    ASSUME TypeOK, NEW p \in Point, InFile(p), ~Corrupt(PartitionOf[p])
    PROVE  p \in Parsed(lines[PartitionOf[p]])
<1> DEFINE ls == lines[PartitionOf[p]]
<1>1. ls \in Seq(Line)
  BY PartitionAssumption DEF TypeOK
<1>2. \A j \in DOMAIN ls : ls[j] \in Point
  <2>1. \A j \in DOMAIN ls : ls[j] \in Line
    BY <1>1
  <2> QED BY <2>1 DEF Corrupt, Line
<1>3. PICK i \in DOMAIN ls : ls[i] = p
  BY DEF InFile
<1>4. \A j \in 1..i : j \in DOMAIN ls
  BY <1>1, <1>3
<1> HIDE DEF ls
<1>5. i \in {k \in DOMAIN ls : \A j \in 1..k : ls[j] \in Point}
  BY <1>2, <1>3, <1>4
<1>6. p \in Parsed(ls)
  BY <1>3, <1>5 DEF Parsed
<1> QED BY <1>6 DEF ls

\* ReadInv of one call: what p needs.
Found(x, p) == p \in x.results \/ PartitionOf[p] \in x.toread
ReaderOK(x, stored) ==
    /\ x.pc # "idle" => x.must \subseteq stored
    /\ x.pc = "done" => x.toread = {}

LEMMA ReadByReader ==
    ASSUME TypeOK, ProgressInv, FileInv, StoreInv, ReadInv, NEW t \in Readers,
           (\E m \in Measurement : ReadBegin(t, m)) \/ ReadStep(t)
    PROVE  /\ UNCHANGED <<now, files, lines, ontime>>
           /\ ReadInv'
<1>1. UNCHANGED <<now, files, lines, ontime>>
  BY DEF ReadBegin, ReadStep, ReadPartition, ReadReturn, ReadEnd, disk, history
<1>2. \A p \in Point : /\ Corrupt(PartitionOf[p])' <=> Corrupt(PartitionOf[p])
                       /\ Expired(p)' <=> Expired(p)
  BY <1>1 DEF Corrupt, Expired
<1>3. \A u \in Readers : r[u].must \subseteq Point
  BY DEF TypeOK, ReaderState
<1>4. SUFFICES ASSUME NEW u \in Readers
      PROVE  /\ ReaderOK(r'[u], ontime)
             /\ r'[u].pc # "idle" =>
                   \A p \in r'[u].must :
                       Found(r'[u], p) \/ Corrupt(PartitionOf[p]) \/ Expired(p)
  <2>1. \A u \in Readers : r'[u].pc # "idle" => r'[u].must \subseteq Point
    BY <1>4 DEF ReaderOK, TypeOK
  <2> QED BY <1>1, <1>2, <1>4, <2>1 DEF ReadInv, ReaderOK, Found
<1>5. /\ ReaderOK(r[u], ontime)
      /\ r[u].pc # "idle" =>
            \A p \in r[u].must : Found(r[u], p) \/ Corrupt(PartitionOf[p]) \/ Expired(p)
  BY DEF ReadInv, ReaderOK, Found
<1>6. \A p \in ontime : Kept(p) /\ p \in Point
  BY DEF StoreInv, TypeOK
<1>7. CASE u # t
  <2>1. r'[u] = r[u]
    BY <1>7 DEF TypeOK, ReadBegin, ReadStep, ReadPartition, ReadReturn, ReadEnd
  <2> QED BY <1>5, <2>1
<1>8. ASSUME u = t, NEW m \in Measurement, ReadBegin(t, m)
      PROVE  /\ ReaderOK(r'[u], ontime)
             /\ \A p \in r'[u].must :
                    Found(r'[u], p) \/ Corrupt(PartitionOf[p]) \/ Expired(p)
  <2>1. r'[u] = [pc |-> "reading", results |-> {},
                 toread |-> {f \in files : MeasOf[f] = m},
                 must |-> {p \in acked \ late : MeasOf[PartitionOf[p]] = m}]
    BY <1>8 DEF ReadBegin, TypeOK
  <2>2. r'[u].must \subseteq ontime
    BY <2>1 DEF StoreInv
  <2>3. ASSUME NEW p \in r'[u].must, InFile(p) PROVE PartitionOf[p] \in r'[u].toread
    <3>1. p \in Point /\ PartitionOf[p] \in File
      BY <1>6, <2>2, PartitionAssumption
    <3>2. lines[PartitionOf[p]] # <<>>
      BY <2>3 DEF InFile
    <3>3. PartitionOf[p] \in files
      BY <3>1, <3>2 DEF FileInv
    <3> QED BY <2>1, <3>3
  <2> QED BY <1>6, <2>1, <2>2, <2>3 DEF Kept, Found, ReaderOK
<1>9. ASSUME u = t, ReadPartition(t)
      PROVE  /\ ReaderOK(r'[u], ontime)
             /\ \A p \in r'[u].must :
                    Found(r'[u], p) \/ Corrupt(PartitionOf[p]) \/ Expired(p)
  <2>1. PICK f \in r[t].toread :
          r' = [r EXCEPT ![t].toread = @ \ {f}, ![t].results = @ \cup Parsed(lines[f])]
    BY <1>9 DEF ReadPartition
  <2>2. /\ r'[u].toread = r[u].toread \ {f}
        /\ r'[u].results = r[u].results \cup Parsed(lines[f])
        /\ r'[u].must = r[u].must /\ r'[u].pc = r[u].pc
    BY <1>9, <2>1 DEF TypeOK, ReaderState
  <2>3. r[u].pc = "reading" /\ r[u].must \subseteq ontime
    BY <1>5, <1>9 DEF ReadPartition, ReaderOK
  <2>4. ASSUME NEW p \in r[u].must, PartitionOf[p] = f
        PROVE  p \in Parsed(lines[f]) \/ Corrupt(PartitionOf[p]) \/ Expired(p)
    BY <1>6, <2>3, <2>4, ParsedHolds DEF Kept
  <2> QED BY <1>5, <2>2, <2>3, <2>4 DEF Found, ReaderOK
<1>10. ASSUME u = t, ReadReturn(t)
       PROVE  /\ ReaderOK(r'[u], ontime)
              /\ \A p \in r'[u].must :
                     Found(r'[u], p) \/ Corrupt(PartitionOf[p]) \/ Expired(p)
  <2>1. /\ r'[u].toread = r[u].toread /\ r'[u].results = r[u].results
        /\ r'[u].must = r[u].must /\ r[u].pc = "reading" /\ r[u].toread = {}
    BY <1>10 DEF TypeOK, ReaderState, ReadReturn
  <2> QED BY <1>5, <2>1 DEF Found, ReaderOK
<1>11. ASSUME u = t, ReadEnd(t) PROVE r'[u].pc = "idle"
  BY <1>11 DEF ReadEnd, TypeOK, IdleReader
<1> QED
  BY <1>7, <1>8, <1>9, <1>10, <1>11 DEF ReadStep, ReaderOK

LEMMA ReadNext ==
    ASSUME TypeOK, ProgressInv, FileInv, CleanupInv, StoreInv, ReadInv, [Next]_vars
    PROVE  ReadInv'
<1>1. now' \in Nat /\ now =< now' /\ ontime \subseteq Point
  BY StepGrows DEF TypeOK
<1>2. \A t \in Readers : r[t].pc # "idle" => r[t].must \subseteq ontime
  BY DEF ReadInv
<1>3. CASE \E t \in Readers : (\E m \in Measurement : ReadBegin(t, m)) \/ ReadStep(t)
  BY <1>3, ReadByReader
<1>4. CASE Crash
  BY <1>4 DEF Crash, IdleReader, ReadInv
<1>5. CASE UNCHANGED r
  <2>1. ontime \subseteq ontime'
    <3>1. UNCHANGED <<ontime, late>> => ontime \subseteq ontime'
      OBVIOUS
    <3>2. (\E t \in Writers : Flush(t)) => ontime \subseteq ontime'
      BY FlushedPoint
    <3> QED BY <3>1, <3>2, StoredByFlush
  <2>2. ASSUME NEW p \in ontime PROVE Expired(p) => Expired(p)'
    BY <1>1, TimePasses
  <2>3. ASSUME NEW p \in ontime, Corrupt(PartitionOf[p])
        PROVE  Corrupt(PartitionOf[p])' \/ Expired(p)'
    <3>1. PartitionOf[p] \in File
      BY <1>1, PartitionAssumption
    <3>2. CASE Grows
      BY <1>1, <2>3, <3>1, <3>2, KeptGrows
    <3>3. ASSUME NEW t \in Cleaners, UnlinkPartition(t)
          PROVE  Corrupt(PartitionOf[p])' \/ Expired(p)'
      <4>1. CASE PartitionOf[p] = c[t].target
        BY <3>3, <4>1, UnlinkKeeps
      <4>2. CASE PartitionOf[p] # c[t].target
        BY <2>3, <3>1, <3>3, <4>2, UnlinkKeeps DEF Corrupt
      <4> QED BY <4>1, <4>2
    <3> QED BY <3>2, <3>3, StepGrows
  <2> QED BY <1>2, <1>5, <2>1, <2>2, <2>3 DEF ReadInv
<1>6. \/ UNCHANGED r \/ Crash
      \/ \E t \in Readers : (\E m \in Measurement : ReadBegin(t, m)) \/ ReadStep(t)
  BY DEF Next, vars, Tick, Initialize, ShutdownBegin, ShutdownEnd, WriteBegin, WriteStep,
     WriteLock, WriteRaises, OpenPartition, Flush, ClosePartition, AbortWrite,
     FinishWrite, WriteError, CleanupBegin, CleanupStep, ListDirectory, ScanPartition,
     UnlinkPartition,
     CleanupRaises, CleanupEnd
<1> QED BY <1>3, <1>4, <1>5, <1>6

-----------------------------------------------------------------------------
(* The theorems *)

LEMMA InitInv == Init => IInv
<1> SUFFICES ASSUME Init PROVE IInv
  OBVIOUS
<1>1. TypeOK
  BY TypeInit
<1>2. LockInv /\ OrphanInv
  BY NameAssumption DEF Init, IdleWriter, LockInv, OrphanInv
<1>3. ProgressInv
  BY IdleCallOK DEF Init, ProgressInv, CallOK
<1>4. FileInv
  BY DEF Init, IdleWriter, FileInv
<1>5. CleanupInv
  BY DEF Init, IdleCleaner, CleanupInv
<1>6. StoreInv
  BY DEF Init, StoreInv
<1>7. ReadInv
  BY DEF Init, IdleReader, ReadInv
<1> QED BY <1>1, <1>2, <1>3, <1>4, <1>5, <1>6, <1>7 DEF IInv

LEMMA NextInv == IInv /\ [Next]_vars => IInv'
<1> SUFFICES ASSUME IInv, [Next]_vars PROVE IInv'
  OBVIOUS
<1>1. /\ TypeOK /\ LockInv /\ ProgressInv /\ FileInv
      /\ CleanupInv /\ OrphanInv /\ StoreInv /\ ReadInv
  BY DEF IInv
<1>2. TypeOK'
  BY <1>1, TypeNext
<1> QED
  BY <1>1, <1>2, LockNext, ProgressNext, FileNext, CleanupNext, OrphanNext, StoreNext,
     ReadNext DEF IInv

\* The strengthened invariant holds in every reachable state.
THEOREM Inductive == Spec => []IInv
<1>1. UNCHANGED vars => [Next]_vars
  OBVIOUS
<1> QED BY InitInv, NextInv, PTL DEF Spec

\* Every variable keeps its type, for any number of threads and any batches.
THEOREM TypeCorrect == Spec => []TypeOK
<1>1. IInv => TypeOK
  BY DEF IInv
<1> QED BY <1>1, Inductive, PTL

\* No interleaving of writers, cleanups, shutdowns, failed flushes and crashes
\* loses a point that was acknowledged and stored on time before it expires,
\* as long as the partition interval plus the allowed lag fits in the retention.
THEOREM Retention_of_acknowledged == Spec => []AckedRetained
<1>1. IInv => AckedRetained
  <2> SUFFICES ASSUME IInv, NEW p \in acked \ late PROVE Kept(p)
    BY DEF AckedRetained, Kept
  <2> QED BY DEF IInv, StoreInv
<1> QED BY <1>1, Inductive, PTL

\* A read_points that returns has every point that was acknowledged before it
\* began, however its file by file scan interleaves with writers and cleanups.
THEOREM Complete_reads == Spec => []ReadComplete
<1>1. IInv => ReadComplete
  BY DEF IInv, ReadInv, ReadComplete
<1> QED BY <1>1, Inductive, PTL

-----------------------------------------------------------------------------
(* The index: what was acknowledged since the manager came up is in it, although a  *)
(* call let in before a shutdown can end after the next initialize has emptied it.  *)

\* A call owes the index every point it has left behind; it enters nothing before
\* it holds the lock.
ListedBy(x, ix) ==
    /\ x.pc = "waiting" => x.rest = Valid(x.batch)
    /\ x.pc = "locked" => \A i \in Valid(x.batch) :
           /\ MeasOf[PartitionOf[x.batch[i]]] \in ix.measurements
           /\ i \in x.rest \/ x.doomed \/ x.batch[i] \in ix.points

CallsListed == \A t \in Writers : ListedBy(w[t], index)

ListInv ==
    /\ CallsListed
    /\ SessionListed
    /\ ~initialized => session = {}

\* The index of ix is in that of iy.
Within(ix, iy) == ix.measurements \subseteq iy.measurements /\ ix.points \subseteq iy.points

-----------------------------------------------------------------------------
LEMMA ListedMonotone ==
    ASSUME NEW x, NEW ix, NEW iy, Within(ix, iy), ListedBy(x, ix)
    PROVE  ListedBy(x, iy)
BY DEF ListedBy, Within

LEMMA IdleListed == \A ix : ListedBy(IdleWriter, ix)
BY DEF ListedBy, IdleWriter

\* One call moves on, and the index only grows.
LEMMA ListedByCall ==
    ASSUME TypeOK, CallsListed, NEW t \in Writers, NEW x, w' = [w EXCEPT ![t] = x],
           Within(index, index'), ListedBy(x, index')
    PROVE  CallsListed'
<1> SUFFICES ASSUME NEW u \in Writers PROVE ListedBy(w'[u], index')
  BY DEF CallsListed
<1>1. CASE u = t
  BY <1>1 DEF TypeOK
<1>2. CASE u # t
  <2>1. w'[u] = w[u] /\ ListedBy(w[u], index)
    BY <1>2 DEF TypeOK, CallsListed
  <2> QED BY <2>1, ListedMonotone
<1> QED BY <1>1, <1>2

LEMMA SessionKept ==
    ASSUME ListInv, Within(index, index'), session' = session, initialized' = initialized
    PROVE  SessionListed' /\ (~initialized => session = {})'
BY DEF ListInv, SessionListed, Within

-----------------------------------------------------------------------------
(* The steps of a call *)

LEMMA ListWriteLock ==
    ASSUME IInv, ListInv, NEW t \in Writers, WriteLock(t) \/ WriteRaises(t)
    PROVE  ListInv'
<1>1. /\ index \in [measurements : SUBSET Measurement, points : SUBSET Point]
      /\ w[t] \in WriterState /\ w \in [Writers -> WriterState]
  BY DEF IInv, TypeOK
<1> DEFINE ms == {MeasOf[PartitionOf[w[t].batch[i]]] : i \in w[t].rest}
<1>2. index' = [index EXCEPT !.measurements = index.measurements \cup ms]
  BY DEF WriteLock, WriteRaises, IndexMeasurement
<1>3. Within(index, index') /\ ms \subseteq index'.measurements
  <2> HIDE DEF ms
  <2> QED BY <1>1, <1>2 DEF Within
<1>4. UNCHANGED <<session, initialized>>
  BY DEF WriteLock, WriteRaises, history
<1>5. SessionListed' /\ (~initialized => session = {})'
  BY <1>3, <1>4, SessionKept
<1>6. CASE WriteLock(t)
  <2> DEFINE x == [w[t] EXCEPT !.pc = "locked"]
  <2>1. w' = [w EXCEPT ![t] = x]
    BY <1>1, <1>6 DEF WriteLock
  <2>2. x.pc = "locked" /\ x.batch = w[t].batch /\ x.rest = w[t].rest
    BY <1>1 DEF WriterState
  <2>3. w[t].rest = Valid(w[t].batch)
    BY <1>6 DEF ListInv, CallsListed, ListedBy, WriteLock
  <2>4. \A i \in Valid(w[t].batch) : MeasOf[PartitionOf[w[t].batch[i]]] \in index'.measurements
    BY <1>3, <2>3
  <2> HIDE DEF x
  <2>5. ListedBy(x, index')
    BY <2>2, <2>3, <2>4 DEF ListedBy
  <2>6. CallsListed'
    BY <1>3, <2>1, <2>5, ListedByCall DEF IInv, ListInv
  <2> QED BY <1>5, <2>6 DEF ListInv
<1>7. CASE WriteRaises(t)
  <2>1. w' = [w EXCEPT ![t] = IdleWriter]
    BY <1>7 DEF WriteRaises
  <2>2. CallsListed'
    BY <1>3, <2>1, IdleListed, ListedByCall DEF IInv, ListInv
  <2> QED BY <1>5, <2>2 DEF ListInv
<1> QED BY <1>6, <1>7

\* What is serialised enters the index with the opening of its file; what is not
\* dooms the call.
LEMMA ListOpenPartition ==
    ASSUME IInv, ListInv, NEW t \in Writers, OpenPartition(t)
    PROVE  ListInv'
<1>1. /\ index \in [measurements : SUBSET Measurement, points : SUBSET Point]
      /\ TypeOK /\ ProgressInv
  BY DEF IInv, TypeOK
<1>2. PICK first \in w[t].rest :
        /\ index' = [index EXCEPT !.points =
                        @ \cup {w[t].batch[i] : i \in Serialised(w[t], first)}]
        /\ w' = [w EXCEPT ![t] = Opened(w[t], first)]
  BY DEF OpenPartition
<1> DEFINE x == Opened(w[t], first)
           g == GroupOf(w[t], first)
           s == Serialised(w[t], first)
           ps == {w[t].batch[i] : i \in s}
<1>3. /\ x.pc = w[t].pc /\ x.batch = w[t].batch /\ x.rest = w[t].rest \ g
      /\ x.doomed = (s # g)
  BY <1>1, OpenedType
<1>4. Within(index, index') /\ ps \subseteq index'.points
  <2>1. index' = [index EXCEPT !.points = index.points \cup ps]
    BY <1>2
  <2> HIDE DEF ps
  <2> QED BY <1>1, <2>1 DEF Within
<1>5. w[t].pc = "locked" /\ w[t].open = NoFile
  BY DEF OpenPartition
<1>6. w[t].doomed = FALSE
  BY <1>1, <1>5 DEF ProgressInv, TypeOK, WriterState
<1>7. ListedBy(w[t], index')
  BY <1>4, ListedMonotone DEF ListInv, CallsListed
<1>8. \A i \in s : w[t].batch[i] \in index'.points
  BY <1>4
<1> HIDE DEF x, g, s, ps
<1>9. ListedBy(x, index')
  <2> SUFFICES ASSUME NEW i \in Valid(w[t].batch)
               PROVE  /\ MeasOf[PartitionOf[w[t].batch[i]]] \in index'.measurements
                      /\ i \in x.rest \/ x.doomed \/ w[t].batch[i] \in index'.points
    BY <1>3, <1>5 DEF ListedBy
  <2>1. /\ MeasOf[PartitionOf[w[t].batch[i]]] \in index'.measurements
        /\ i \in w[t].rest \/ w[t].batch[i] \in index'.points
    BY <1>5, <1>6, <1>7 DEF ListedBy
  <2>2. i \in w[t].rest => i \in x.rest \/ i \in g
    BY <1>3
  <2>3. i \in g => i \in s \/ x.doomed
    BY <1>3
  <2> QED BY <1>8, <2>1, <2>2, <2>3
<1>10. CallsListed'
  BY <1>1, <1>2, <1>4, <1>9, ListedByCall DEF ListInv, x
<1>11. UNCHANGED <<session, initialized>>
  BY DEF OpenPartition, history
<1> QED BY <1>4, <1>10, <1>11, SessionKept DEF ListInv

\* Lines reach the file or it is closed: nothing the index is about.
LEMMA ListFlush ==
    ASSUME IInv, ListInv, NEW t \in Writers, Flush(t) \/ ClosePartition(t)
    PROVE  ListInv'
<1>1. UNCHANGED <<index, session, initialized>>
  BY DEF Flush, ClosePartition, state, history
<1>2. w[t] \in WriterState /\ w \in [Writers -> WriterState]
  BY DEF IInv, TypeOK
<1>3. \A u \in Writers : /\ w'[u].pc = w[u].pc /\ w'[u].batch = w[u].batch
                         /\ w'[u].rest = w[u].rest /\ w'[u].doomed = w[u].doomed
  <2>1. CASE Flush(t)
    <3>1. PICK i : w' = [w EXCEPT ![t].pend = @ \ {i}]
      BY <2>1 DEF Flush
    <3> QED BY <1>2, <3>1 DEF WriterState
  <2>2. CASE ClosePartition(t)
    BY <1>2, <2>2 DEF ClosePartition, WriterState
  <2> QED BY <2>1, <2>2
<1>4. CallsListed'
  BY <1>1, <1>3 DEF ListInv, CallsListed, ListedBy
<1> QED BY <1>1, <1>4 DEF ListInv, SessionListed

\* The call ends: what it acknowledges is all in the index.
LEMMA ListFinish ==
    ASSUME IInv, ListInv, NEW t \in Writers,
           AbortWrite(t) \/ FinishWrite(t) \/ WriteError(t)
    PROVE  ListInv'
<1>1. w' = [w EXCEPT ![t] = IdleWriter] /\ UNCHANGED <<index, initialized>>
  BY DEF AbortWrite, FinishWrite, WriteError, state
<1>2. Within(index, index')
  BY <1>1 DEF Within
<1>3. CallsListed'
  BY <1>1, <1>2, IdleListed, ListedByCall DEF IInv, ListInv
<1>4. CASE session' = session
  BY <1>1, <1>2, <1>3, <1>4, SessionKept DEF ListInv
<1>5. CASE FinishWrite(t)
  <2> DEFINE b == w[t].batch
             ok == IF Valid(b) = DOMAIN b THEN {b[i] : i \in DOMAIN b} ELSE {}
  <2>1. session' = (IF initialized THEN session \cup ok ELSE session)
    BY <1>5 DEF FinishWrite
  <2>2. w[t].pc = "locked" /\ w[t].open = NoFile /\ w[t].rest = {}
    BY <1>5 DEF FinishWrite
  <2>3. w[t].doomed = FALSE
    BY <2>2 DEF IInv, ProgressInv, TypeOK, WriterState
  <2>4. \A i \in Valid(b) : /\ MeasOf[PartitionOf[b[i]]] \in index.measurements
                            /\ b[i] \in index.points
    BY <2>2, <2>3 DEF ListInv, CallsListed, ListedBy
  <2>5. \A p \in ok : p \in index.points /\ MeasOf[PartitionOf[p]] \in index.measurements
    BY <2>4
  <2> HIDE DEF ok, b
  <2>6. SessionListed'
    BY <1>1, <2>1, <2>5 DEF ListInv, SessionListed
  <2>7. (~initialized => session = {})'
    BY <1>1, <2>1 DEF ListInv
  <2> QED BY <1>3, <2>6, <2>7 DEF ListInv
<1>6. FinishWrite(t) \/ session' = session
  BY DEF AbortWrite, WriteError, history
<1> QED BY <1>4, <1>5, <1>6

-----------------------------------------------------------------------------
\* initialize empties the index while nobody is inside, and before it there was no
\* session.
LEMMA ListInitialize ==
    ASSUME IInv, ListInv, Initialize
    PROVE  ListInv'
<1>1. \A t \in Writers : w[t].pc # "locked"
  BY NameAssumption DEF Initialize, IInv, LockInv
<1>2. UNCHANGED w /\ session' = {} /\ initialized'
  BY DEF Initialize, ListInv, history
<1>3. CallsListed'
  BY <1>1, <1>2 DEF ListInv, CallsListed, ListedBy
<1> QED BY <1>2, <1>3 DEF ListInv, SessionListed

LEMMA ListNext ==
    ASSUME IInv, ListInv, [Next]_vars
    PROVE  ListInv'
<1>1. CASE UNCHANGED <<w, index, initialized, session>>
  BY <1>1 DEF ListInv, CallsListed, SessionListed
<1>2. CASE UNCHANGED vars
  BY <1>1, <1>2 DEF vars, state, history
<1>3. CASE OtherStep /\ ~Initialize
  BY <1>1, <1>3
     DEF OtherStep, Tick, ReadBegin, ReadStep, ReadPartition, ReadReturn, ReadEnd,
         CleanupBegin, CleanupRaises, CleanupEnd, ListDirectory, ScanPartition, state, history
<1>4. CASE ShutdownBegin
  BY <1>1, <1>4 DEF ShutdownBegin, history
<1>5. CASE ShutdownEnd
  <2>1. UNCHANGED <<w, index>> /\ session' = {}
    BY <1>5 DEF ShutdownEnd
  <2> QED BY <2>1 DEF ListInv, CallsListed, SessionListed
<1>6. CASE Crash
  <2>1. session' = {} /\ \A t \in Writers : w'[t] = IdleWriter
    BY <1>6 DEF Crash
  <2> QED BY <2>1, IdleListed DEF ListInv, CallsListed, SessionListed
<1>7. ASSUME NEW t \in Writers, NEW b \in Batches, WriteBegin(t, b) PROVE ListInv'
  <2> DEFINE x == [IdleWriter EXCEPT !.pc = "waiting", !.batch = b, !.rest = Valid(b)]
  <2>1. w' = [w EXCEPT ![t] = x] /\ UNCHANGED <<index, initialized, session>>
    BY <1>7 DEF WriteBegin, state, history
  <2>2. x.pc = "waiting" /\ x.rest = Valid(b) /\ x.batch = b
    BY DEF IdleWriter
  <2> HIDE DEF x
  <2>3. ListedBy(x, index')
    BY <2>2 DEF ListedBy
  <2>4. Within(index, index')
    BY <2>1 DEF Within
  <2>5. CallsListed'
    BY <2>1, <2>3, <2>4, ListedByCall DEF IInv, ListInv
  <2> QED BY <2>1, <2>4, <2>5, SessionKept DEF ListInv
<1>8. ASSUME NEW t \in Cleaners, UnlinkPartition(t) PROVE ListInv'
  <2>1. UNCHANGED <<index, initialized, session>>
    BY <1>8 DEF UnlinkPartition, state, history
  <2>2. \A u \in Writers : /\ w'[u].pc = w[u].pc /\ w'[u].batch = w[u].batch
                           /\ w'[u].rest = w[u].rest /\ w'[u].doomed = w[u].doomed
    BY <1>8 DEF UnlinkPartition, IInv, TypeOK, WriterState
  <2> QED BY <2>1, <2>2 DEF ListInv, CallsListed, ListedBy, SessionListed
<1> QED
  BY <1>2, <1>3, <1>4, <1>5, <1>6, <1>7, <1>8, NextCases, ListInitialize, ListWriteLock,
     ListOpenPartition, ListFlush, ListFinish DEF WriteStep

\* Whatever write_points acknowledged since initialize is in the index, whichever
\* calls a shutdown and another initialize came between.
THEOREM Session_is_listed == Spec => []SessionListed
<1>1. Init => ListInv
  BY IdleListed DEF Init, ListInv, CallsListed, SessionListed
<1>2. IInv /\ ListInv /\ [Next]_vars => ListInv'
  BY ListNext
<1>3. ListInv => SessionListed
  BY DEF ListInv
<1> QED BY <1>1, <1>2, <1>3, Inductive, PTL DEF Spec
=============================================================================
