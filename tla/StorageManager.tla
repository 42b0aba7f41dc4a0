--------------------------- MODULE StorageManager ---------------------------
(***************************************************************************)
(* The live storage path of the database: StorageManager of                *)
(* src/tsdb/storage/storage_manager.py, used by any number of threads.     *)
(*                                                                         *)
(* write_points takes manager_lock and appends one JSON line per point to  *)
(* the file of the point's time partition.  read_points and                *)
(* cleanup_old_data take no lock at all: they work on the files while a    *)
(* writer appends to them.  initialize and shutdown take manager_lock, but *)
(* write_points tests `initialized' and `running' before it takes it.      *)
(*                                                                         *)
(* A partition file is a sequence of lines, points or the Torn and Bad of  *)
(* JsonLines.                                                              *)
(***************************************************************************)
EXTENDS Integers, JsonLines

CONSTANTS
    Writers, Readers, Cleaners, \* threads, by the operation they call
    Free, Main,                 \* manager_lock: nobody, initialize/shutdown
    Measurement,
    File,         \* partition files, one per measurement and partition key
    NoFile,
    MeasOf,       \* File -> Measurement: the directory the file is in
    FileKey,      \* File -> Nat: its place in the sorted listing
    Point,        \* elements of the list given to write_points
    Ts,           \* Point -> Nat: its timestamp
    PartitionOf,  \* Point -> File: the partition key of its timestamp
    Kind,         \* Point -> PointKinds: what write_points makes of it
    Batches,      \* the calls of write_points: sequences of points
    Width,        \* length of a partition interval
    Retention,    \* retention_days
    MaxLag,       \* a write is on time when it is at most MaxLag behind now
    MaxNow, MaxCalls, MaxFaults   \* bounds on the clock, the calls, the faults

PointKinds == {"ok", "invalid", "range", "unserialisable"}

\* The partition interval is shorter than the retention by at least the lag
\* a writer is allowed, so a partition that a write on time goes to cannot
\* hold a point old enough for the cleanup.
ASSUME PartitionAssumption ==
    /\ Width \in Nat /\ Retention \in Nat /\ MaxLag \in Nat
    /\ MaxLag + Width =< Retention
    /\ Ts \in [Point -> Nat]
    /\ PartitionOf \in [Point -> File]
    /\ \A p, q \in Point : PartitionOf[p] = PartitionOf[q] => Ts[p] < Ts[q] + Width

ASSUME NameAssumption ==
    /\ NoFile \notin File
    /\ Torn \notin Point /\ Bad \notin Point
    /\ Free # Main /\ Free \notin Writers /\ Main \notin Writers
    /\ MeasOf \in [File -> Measurement]
    /\ FileKey \in [File -> Nat]
    /\ Kind \in [Point -> PointKinds]

ASSUME BatchAssumption ==
    /\ Batches \subseteq Seq(Point)
    /\ MaxNow \in Nat /\ MaxCalls \in Nat /\ MaxFaults \in Nat
    /\ \A b \in Batches : \A i, j \in DOMAIN b :
          MeasOf[PartitionOf[b[i]]] = MeasOf[PartitionOf[b[j]]]

VARIABLES
    now,           \* time.time()
    files,         \* the partition files in the directory
    lines,         \* File -> what it holds; empty when it is not there
    index,         \* self.index: measurements, and points whose tags and fields it lists
    initialized, running, manager_lock,
    w,             \* the calls of write_points in progress
    r,             \* the calls of read_points
    c,             \* the calls of cleanup_old_data
    acked,         \* points of the calls that returned True (history)
    ontime,        \* points a flush stored at most MaxLag behind the clock (history)
    late,          \* points a flush stored later than that (history)
    session,       \* points acknowledged while the manager is up (history)
    calls, faults

disk == <<files, lines>>
state == <<index, initialized, running>>
history == <<acked, ontime, late, session>>
vars == <<now, disk, state, manager_lock, w, r, c, history, calls, faults>>

Line == Point \cup {Torn, Bad}

IdleWriter == [pc |-> "idle", batch |-> <<>>, rest |-> {}, pend |-> {},
               open |-> NoFile, linked |-> FALSE, doomed |-> FALSE]
IdleReader == [pc |-> "idle", toread |-> {}, results |-> {}, must |-> {}]
IdleCleaner == [pc |-> "idle", cutoff |-> 0, dirs |-> {}, todo |-> {},
                target |-> NoFile]
EmptyIndex == [measurements |-> {}, points |-> {}]

-----------------------------------------------------------------------------
(* Files and lines *)

Corrupt(f) == \E i \in DOMAIN lines[f] : lines[f][i] \in {Torn, Bad}

InFile(p) == \E i \in DOMAIN lines[PartitionOf[p]] : lines[PartitionOf[p]][i] = p

\* Mutant of Parsed: a line that does not parse is passed on as it is.
ParsedUnchecked(ls) == {ls[i] : i \in DOMAIN ls}

\* The scan of a file stops at the first line json.loads rejects.
Parsed(ls) ==
    {ls[i] : i \in {k \in DOMAIN ls : \A j \in 1..k : ls[j] \in Point}}

\* Mutant of NewestBefore: the minimum is compared with the cutoff.
OldestBefore(f, cutoff) ==
    /\ \A i \in DOMAIN lines[f] : lines[f][i] \in Point
    /\ \E i \in DOMAIN lines[f] : Ts[lines[f][i]] < cutoff

\* max_ts is not None and below the cutoff
NewestBefore(f, cutoff) ==
    /\ lines[f] # <<>>
    /\ \A i \in DOMAIN lines[f] : lines[f][i] \in Point /\ Ts[lines[f][i]] < cutoff

Valid(b) == {i \in DOMAIN b : Kind[b[i]] # "invalid"}

-----------------------------------------------------------------------------
Init ==
    /\ now = 0
    /\ files = {} /\ lines = [f \in File |-> <<>>]
    /\ index = EmptyIndex /\ initialized = FALSE /\ running = FALSE
    /\ manager_lock = Free
    /\ w = [t \in Writers |-> IdleWriter]
    /\ r = [t \in Readers |-> IdleReader]
    /\ c = [t \in Cleaners |-> IdleCleaner]
    /\ acked = {} /\ ontime = {} /\ late = {} /\ session = {}
    /\ calls = 0 /\ faults = 0

Tick ==
    /\ now < MaxNow
    /\ now' = now + 1
    /\ UNCHANGED <<disk, state, manager_lock, w, r, c, history, calls, faults>>

-----------------------------------------------------------------------------
(* initialize and shutdown *)

\* Mutant of Initialize: without the test of initialized.
InitializeAgain ==
    /\ manager_lock = Free
    /\ index' = EmptyIndex
    /\ initialized' = TRUE /\ running' = TRUE
    /\ UNCHANGED <<now, disk, manager_lock, w, r, c, history, calls, faults>>

\* Directories are made and the index starts empty whatever the disk holds.
Initialize ==
    /\ manager_lock = Free /\ ~initialized
    /\ index' = EmptyIndex
    /\ initialized' = TRUE /\ running' = TRUE
    /\ UNCHANGED <<now, disk, manager_lock, w, r, c, history, calls, faults>>

ShutdownBegin ==
    /\ manager_lock = Free /\ initialized
    /\ manager_lock' = Main
    /\ running' = FALSE
    /\ UNCHANGED <<now, disk, index, initialized, w, r, c, history, calls, faults>>

ShutdownEnd ==
    /\ manager_lock = Main
    /\ initialized' = FALSE
    /\ manager_lock' = Free
    /\ session' = {}
    /\ UNCHANGED <<now, disk, index, running, w, r, c, acked, ontime, late, calls,
                   faults>>

-----------------------------------------------------------------------------
(* write_points *)

\* The test of initialized and running and the validation, outside the lock.
\* A call that fails either returns at once and changes nothing.
WriteBegin(t, b) ==
    /\ w[t].pc = "idle" /\ calls < MaxCalls
    /\ initialized /\ running
    /\ Valid(b) # {}
    /\ w' = [w EXCEPT ![t] = [IdleWriter EXCEPT !.pc = "waiting", !.batch = b,
                                                !.rest = Valid(b)]]
    /\ calls' = calls + 1
    /\ UNCHANGED <<now, disk, state, manager_lock, r, c, history, faults>>

\* with manager_lock: the measurement enters the index before anything is stored.
IndexMeasurement(t) ==
    index' = [index EXCEPT !.measurements =
                 @ \cup {MeasOf[PartitionOf[w[t].batch[i]]] : i \in w[t].rest}]

WriteLock(t) ==
    /\ w[t].pc = "waiting" /\ manager_lock = Free
    /\ \A i \in w[t].rest : Kind[w[t].batch[i]] # "range"
    /\ manager_lock' = t
    /\ IndexMeasurement(t)
    /\ w' = [w EXCEPT ![t].pc = "locked"]
    /\ UNCHANGED <<now, disk, initialized, running, r, c, history, calls, faults>>

\* fromtimestamp rejects a timestamp: the exception leaves the function and
\* the lock, the index keeps the measurement.
WriteRaises(t) ==
    /\ w[t].pc = "waiting" /\ manager_lock = Free
    /\ \E i \in w[t].rest : Kind[w[t].batch[i]] = "range"
    /\ IndexMeasurement(t)
    /\ w' = [w EXCEPT ![t] = IdleWriter]
    /\ UNCHANGED <<now, disk, initialized, running, manager_lock, r, c, history,
                   calls, faults>>

\* The points of partition_groups that share the partition of the first one.
GroupOf(x, first) ==
    {i \in x.rest : PartitionOf[x.batch[i]] = PartitionOf[x.batch[first]]}

\* Those of them that are serialised: all before the first json.dumps rejects.
Serialised(x, first) ==
    {i \in GroupOf(x, first) :
        \A j \in GroupOf(x, first) : Kind[x.batch[j]] = "unserialisable" => i < j}

Opened(x, first) ==
    [x EXCEPT !.open = PartitionOf[x.batch[first]], !.linked = TRUE,
              !.rest = @ \ GroupOf(x, first), !.pend = Serialised(x, first),
              !.doomed = Serialised(x, first) # GroupOf(x, first)]

\* The next partition, in the order of first appearance in the batch, is opened
\* for append and its points are serialised into the file's buffer.
OpenPartition(t) ==
    /\ w[t].pc = "locked" /\ w[t].open = NoFile
    /\ \E first \in w[t].rest :
         /\ \A i \in w[t].rest : first =< i
         /\ files' = files \cup {PartitionOf[w[t].batch[first]]}
         /\ index' = [index EXCEPT !.points =
                         @ \cup {w[t].batch[i] : i \in Serialised(w[t], first)}]
         /\ w' = [w EXCEPT ![t] = Opened(@, first)]
    /\ UNCHANGED <<now, lines, initialized, running, manager_lock, r, c, history,
                   calls, faults>>

\* The buffer reaches the file line by line, when it fills up or at close.  A
\* file that a cleanup removed meanwhile takes its lines with it.
Flush(t) ==
    /\ w[t].open # NoFile
    /\ \E i \in w[t].pend :
         /\ \A j \in w[t].pend : i =< j
         /\ LET p == w[t].batch[i]
            IN /\ lines' = IF w[t].linked
                           THEN [lines EXCEPT ![w[t].open] = AppendLine(@, p)]
                           ELSE lines
               /\ IF Ts[p] < now - MaxLag
                  THEN late' = late \cup {p} /\ UNCHANGED ontime
                  ELSE ontime' = ontime \cup {p} /\ UNCHANGED late
         /\ w' = [w EXCEPT ![t].pend = @ \ {i}]
    /\ UNCHANGED <<now, files, state, manager_lock, r, c, acked, session, calls, faults>>

ClosePartition(t) ==
    /\ w[t].open # NoFile /\ w[t].pend = {} /\ ~w[t].doomed
    /\ w' = [w EXCEPT ![t].open = NoFile, ![t].linked = FALSE]
    /\ UNCHANGED <<now, disk, state, manager_lock, r, c, history, calls, faults>>

\* Mutant of AbortWrite: the early return keeps the lock.
AbortHoldingLock(t) ==
    /\ w[t].open # NoFile /\ w[t].pend = {} /\ w[t].doomed
    /\ w' = [w EXCEPT ![t] = IdleWriter]
    /\ UNCHANGED <<now, disk, state, manager_lock, r, c, history, calls, faults>>

\* The handler of the loop: the call returns False and the lines written so
\* far, in this partition and in earlier ones, stay.
AbortWrite(t) ==
    /\ w[t].open # NoFile /\ w[t].pend = {} /\ w[t].doomed
    /\ w' = [w EXCEPT ![t] = IdleWriter]
    /\ manager_lock' = Free
    /\ UNCHANGED <<now, disk, state, r, c, history, calls, faults>>

\* return invalid_points == 0
FinishWrite(t) ==
    /\ w[t].pc = "locked" /\ w[t].open = NoFile /\ w[t].rest = {}
    /\ LET ok == IF Valid(w[t].batch) = DOMAIN w[t].batch
                 THEN {w[t].batch[i] : i \in DOMAIN w[t].batch}
                 ELSE {}
       IN /\ acked' = acked \cup ok
          /\ session' = IF initialized THEN session \cup ok ELSE session
    /\ manager_lock' = Free
    /\ w' = [w EXCEPT ![t] = IdleWriter]
    /\ UNCHANGED <<now, disk, state, r, c, ontime, late, calls, faults>>

-----------------------------------------------------------------------------
(* Faults: a disk that refuses a write, a process that is killed *)

\* What a flush cut short may leave of the first line it did not finish.
TornTail(t) ==
    IF w[t].linked /\ w[t].pend # {}
    THEN {lines, [lines EXCEPT ![w[t].open] = AppendTorn(@)]}
    ELSE {lines}

\* The open or the flush raises OSError; the loop's handler returns False.
WriteError(t) ==
    /\ w[t].pc = "locked" /\ faults < MaxFaults
    /\ \/ w[t].open = NoFile /\ w[t].rest # {} /\ UNCHANGED lines
       \/ w[t].open # NoFile /\ lines' \in TornTail(t)
    /\ faults' = faults + 1
    /\ manager_lock' = Free
    /\ w' = [w EXCEPT ![t] = IdleWriter]
    /\ UNCHANGED <<now, files, state, r, c, history, calls>>

\* The process is killed and a new StorageManager is built: everything but the
\* files is lost.  The page cache survives, so what was flushed is there.
Crash ==
    /\ faults < MaxFaults
    /\ faults' = faults + 1
    /\ IF manager_lock \in Writers /\ w[manager_lock].open # NoFile
       THEN lines' \in TornTail(manager_lock)
       ELSE lines' = lines
    /\ index' = EmptyIndex /\ initialized' = FALSE /\ running' = FALSE
    /\ manager_lock' = Free /\ session' = {}
    /\ w' = [t \in Writers |-> IdleWriter]
    /\ r' = [t \in Readers |-> IdleReader]
    /\ c' = [t \in Cleaners |-> IdleCleaner]
    /\ UNCHANGED <<now, files, acked, ontime, late, calls>>

-----------------------------------------------------------------------------
(* read_points: no lock; the files are listed, then read one by one *)

ReadBegin(t, m) ==
    /\ r[t].pc = "idle" /\ initialized
    /\ r' = [r EXCEPT ![t] = [pc |-> "reading", results |-> {},
                              toread |-> {f \in files : MeasOf[f] = m},
                              must |-> {p \in acked \ late : MeasOf[PartitionOf[p]] = m}]]
    /\ UNCHANGED <<now, disk, state, manager_lock, w, c, history, calls, faults>>

\* Mutant of ReadPartition: the scan returns after the first file.
ReadFirstOnly(t) ==
    /\ r[t].pc = "reading"
    /\ \E f \in r[t].toread :
         r' = [r EXCEPT ![t].toread = {}, ![t].results = @ \cup Parsed(lines[f])]
    /\ UNCHANGED <<now, disk, state, manager_lock, w, c, history, calls, faults>>

\* A file that is gone by now is an exception, and skipped.
ReadPartition(t) ==
    /\ r[t].pc = "reading"
    /\ \E f \in r[t].toread :
         /\ \A g \in r[t].toread : FileKey[f] =< FileKey[g]
         /\ r' = [r EXCEPT ![t].toread = @ \ {f},
                           ![t].results = @ \cup Parsed(lines[f])]
    /\ UNCHANGED <<now, disk, state, manager_lock, w, c, history, calls, faults>>

ReadReturn(t) ==
    /\ r[t].pc = "reading" /\ r[t].toread = {}
    /\ r' = [r EXCEPT ![t].pc = "done"]
    /\ UNCHANGED <<now, disk, state, manager_lock, w, c, history, calls, faults>>

\* The caller has its rows.
ReadEnd(t) ==
    /\ r[t].pc = "done"
    /\ r' = [r EXCEPT ![t] = IdleReader]
    /\ UNCHANGED <<now, disk, state, manager_lock, w, c, history, calls, faults>>

-----------------------------------------------------------------------------
(* cleanup_old_data: no lock; the scan of a file and its removal are apart *)

CleanupBegin(t) ==
    /\ c[t].pc = "idle"
    /\ c' = [c EXCEPT ![t] = [IdleCleaner EXCEPT !.pc = "scanning", !.dirs = Measurement,
                                                 !.cutoff = now - Retention]]
    /\ UNCHANGED <<now, disk, state, manager_lock, w, r, history, calls, faults>>

\* A directory is listed when the one before it is done with.
ListDirectory(t, m) ==
    /\ c[t].pc = "scanning" /\ c[t].todo = {} /\ m \in c[t].dirs
    /\ c' = [c EXCEPT ![t].dirs = @ \ {m},
                      ![t].todo = {f \in files : MeasOf[f] = m}]
    /\ UNCHANGED <<now, disk, state, manager_lock, w, r, history, calls, faults>>

\* Only a file that is there, is not empty and parses to its end can be dropped.
ScanPartition(t, f) ==
    /\ c[t].pc = "scanning" /\ f \in c[t].todo
    /\ c' = [c EXCEPT ![t].todo = @ \ {f},
                      ![t].pc = IF NewestBefore(f, c[t].cutoff) THEN "unlinking" ELSE @,
                      ![t].target = IF NewestBefore(f, c[t].cutoff) THEN f ELSE @]
    /\ UNCHANGED <<now, disk, state, manager_lock, w, r, history, calls, faults>>

\* The name goes; a writer that has the file open keeps appending to nothing.
UnlinkPartition(t) ==
    /\ c[t].pc = "unlinking" /\ c[t].target \in files
    /\ files' = files \ {c[t].target}
    /\ lines' = [lines EXCEPT ![c[t].target] = <<>>]
    /\ w' = [u \in Writers |-> [w[u] EXCEPT !.linked = @ /\ w[u].open # c[t].target]]
    /\ c' = [c EXCEPT ![t].pc = "scanning", ![t].target = NoFile]
    /\ UNCHANGED <<now, state, manager_lock, r, history, calls, faults>>

\* Another cleanup was first: stat or unlink raises out of the function.
CleanupRaises(t) ==
    /\ c[t].pc = "unlinking" /\ c[t].target \notin files
    /\ c' = [c EXCEPT ![t] = IdleCleaner]
    /\ UNCHANGED <<now, disk, state, manager_lock, w, r, history, calls, faults>>

CleanupEnd(t) ==
    /\ c[t].pc = "scanning" /\ c[t].todo = {} /\ c[t].dirs = {}
    /\ c' = [c EXCEPT ![t] = IdleCleaner]
    /\ UNCHANGED <<now, disk, state, manager_lock, w, r, history, calls, faults>>

-----------------------------------------------------------------------------
WriteStep(t) ==
    \/ WriteLock(t) \/ WriteRaises(t) \/ OpenPartition(t) \/ Flush(t)
    \/ ClosePartition(t) \/ AbortWrite(t) \/ FinishWrite(t)

ReadStep(t) == ReadPartition(t) \/ ReadReturn(t) \/ ReadEnd(t)

CleanupStep(t) ==
    \/ \E m \in Measurement : ListDirectory(t, m)
    \/ \E f \in File : ScanPartition(t, f)
    \/ UnlinkPartition(t) \/ CleanupRaises(t) \/ CleanupEnd(t)

Next ==
    \/ Tick \/ Initialize \/ ShutdownBegin \/ ShutdownEnd \/ Crash
    \/ \E t \in Writers :
          (\E b \in Batches : WriteBegin(t, b)) \/ WriteStep(t) \/ WriteError(t)
    \/ \E t \in Readers : (\E m \in Measurement : ReadBegin(t, m)) \/ ReadStep(t)
    \/ \E t \in Cleaners : CleanupBegin(t) \/ CleanupStep(t)

Spec == Init /\ [][Next]_vars

\* The operating system runs every thread that can run, and a free lock is
\* given to some waiter; nobody is obliged to call anything.
Fairness ==
    /\ WF_vars(ShutdownEnd)
    /\ \A t \in Writers : WF_vars(WriteStep(t)) /\ SF_vars(WriteLock(t) \/ WriteRaises(t))

FairSpec == Spec /\ Fairness
-----------------------------------------------------------------------------
(* Properties *)

WriterState ==
    [pc : {"idle", "waiting", "locked"}, batch : Batches \cup {<<>>},
     rest : SUBSET Nat, pend : SUBSET Nat, open : File \cup {NoFile},
     linked : BOOLEAN, doomed : BOOLEAN]
ReaderState ==
    [pc : {"idle", "reading", "done"}, toread : SUBSET File,
     results : SUBSET Point, must : SUBSET Point]
CleanerState ==
    [pc : {"idle", "scanning", "unlinking"}, cutoff : Int,
     dirs : SUBSET Measurement, todo : SUBSET File, target : File \cup {NoFile}]

\* Every variable has its type.
TypeOK ==
    /\ now \in Nat /\ calls \in Nat /\ faults \in Nat
    /\ files \in SUBSET File /\ lines \in [File -> Seq(Line)]
    /\ index \in [measurements : SUBSET Measurement, points : SUBSET Point]
    /\ initialized \in BOOLEAN /\ running \in BOOLEAN
    /\ manager_lock \in Writers \cup {Free, Main}
    /\ w \in [Writers -> WriterState]
    /\ r \in [Readers -> ReaderState]
    /\ c \in [Cleaners -> CleanerState]
    /\ acked \in SUBSET Point /\ ontime \in SUBSET Point
    /\ late \in SUBSET Point /\ session \in SUBSET Point

Expired(p) == Ts[p] < now - Retention

\* A point of a call that returned True, stored on time, is in its partition
\* file until it expires, whatever cleanups, other writers, shutdowns and
\* crashes do meanwhile; only a torn line in the same file can spoil it.
AckedRetained ==
    \A p \in acked \ late :
        \/ InFile(p)
        \/ Corrupt(PartitionOf[p])
        \/ Expired(p)

\* What read_points returns holds every point that was acknowledged before the
\* read began and has not expired, although the files are listed and read one
\* by one while writers append to them and cleanups remove them.
ReadComplete ==
    \A t \in Readers : r[t].pc = "done" =>
        \A p \in r[t].must :
            \/ p \in r[t].results
            \/ Corrupt(PartitionOf[p])
            \/ Expired(p)

\* Whatever was acknowledged since the manager came up is in the index that
\* list_measurements, list_tag_keys and list_tag_values answer from.
SessionListed ==
    \A p \in session :
        p \in index.points /\ MeasOf[PartitionOf[p]] \in index.measurements

\* A call of write_points that was let in returns: no path through it keeps
\* manager_lock, and a killed process keeps nobody waiting.
WritesReturn == \A t \in Writers : w[t].pc # "idle" ~> w[t].pc = "idle"
=============================================================================
