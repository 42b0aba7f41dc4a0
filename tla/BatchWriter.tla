----------------------------- MODULE BatchWriter -----------------------------
(***************************************************************************)
(* BatchWriter of src/tsdb/storage/write_ops.py: batches grouped by        *)
(* partition, each group logged in the write-ahead log and then appended   *)
(* to its partition file under the lock of that partition, by any number   *)
(* of threads; rotation of the log, its replay, and the retry loop.        *)
(***************************************************************************)
EXTENDS Integers, FiniteSets, JsonLines

CONSTANTS
    Writers,      \* threads that call write_batch and write_with_retry
    Replayer,     \* the thread that calls replay_wal
    Free,
    Point,
    Partition,    \* partition files, one per measurement and hour
    NoPart,
    PartitionOf,  \* Point -> Partition
    Kind,         \* Point -> PointKinds
    Batches,      \* sequences of points
    Modes,        \* the ways a batch is written, a subset of CallModes
    EnableWal,
    SegmentMax,   \* entries in current.wal beyond which it is rotated
    MaxRetries,
    MaxCalls, MaxFaults, MaxReplays   \* bounds

PointKinds == {"ok", "invalid", "unserialisable"}

\* write_batch, write_batch(atomic=True), write_with_retry,
\* write_batch(skip_wal=True), and the same as replay_wal calls it
CallModes == {"plain", "atomic", "retry", "skip", "replay"}

ASSUME WriterAssumption ==
    /\ Free \notin Writers \cup {Replayer} /\ Replayer \notin Writers
    /\ NoPart \notin Partition
    /\ Torn \notin Point /\ Bad \notin Point
    /\ PartitionOf \in [Point -> Partition]
    /\ Kind \in [Point -> PointKinds]
    /\ Batches \subseteq Seq(Point)
    /\ Modes \subseteq CallModes \ {"replay"}
    /\ EnableWal \in BOOLEAN
    /\ SegmentMax \in Nat \ {0} /\ MaxRetries \in Nat
    /\ MaxCalls \in Nat /\ MaxFaults \in Nat /\ MaxReplays \in Nat

Threads == Writers \cup {Replayer}

VARIABLES
    part,       \* Partition -> lines of its file; empty when it does not exist
    partition_locks,
    wal,        \* the lines of current.wal
    segments,   \* the files wal_N.wal that exist: N -> their lines
    names,      \* every N there has been (history)
    wal_lock,
    u,          \* the calls of write_batch in progress
    rep,        \* the call of replay_wal
    acked,      \* points of the calls that returned SUCCESS (history)
    unlogged,   \* points with no log entry, by choice or by an error, or with one that was
                \* removed (history)
    glued,      \* points whose line was appended behind a torn one (history)
    calls, faults, replays

store == <<part, partition_locks, glued>>
log == <<wal, segments, names, wal_lock, unlogged>>
counters == <<calls, faults, replays>>
vars == <<store, log, u, rep, acked, counters>>

IdleCall == [pc |-> "idle", batch |-> <<>>, mode |-> "plain", valid |-> {},
             rest |-> {}, at |-> NoPart, pend |-> {}, ok |-> {}, bad |-> {},
             tries |-> 0, last |-> 0]
IdleReplay == [pc |-> "idle", todo |-> {}, pos |-> 0, done |-> {}]

-----------------------------------------------------------------------------
(* Log entries and the files of the log *)

\* sha256, as an injective function of everything in the entry.
Digest(e) == <<e.batch, e.rows, e.checksum>>

\* Mutant of Entry: the digest is never stored.
EntryPlaceholder(x) == [batch |-> x.batch, rows |-> x.pend, checksum |-> <<>>]

\* The digest is taken while the checksum field is empty, and then stored in it.
Entry(x) ==
    LET e == [batch |-> x.batch, rows |-> x.pend, checksum |-> <<>>]
    IN [e EXCEPT !.checksum = Digest(e)]

\* replay_wal takes the digest of the entry with its checksum in place.
Verified(e) == e.checksum = Digest(e)

EntryPoints(e) == {e.batch[i] : i \in e.rows}

\* The names wal_N.wal in the order of their characters, for N below 100.
NameOrder(n) == IF n < 10 THEN 100 * n ELSE 100 * (n \div 10) + 1 + (n % 10)

IsLastSegment(n) ==
    IF DOMAIN segments = {} THEN n = 0
    ELSE n \in DOMAIN segments /\ \A k \in DOMAIN segments : NameOrder(k) =< NameOrder(n)

\* The points of the entries of a file that are whole.
PointsIn(ls) == UNION {EntryPoints(ls[i]) : i \in {k \in DOMAIN ls : ls[k] \notin {Torn, Bad}}}

Logged == PointsIn(wal) \cup UNION {PointsIn(segments[n]) : n \in DOMAIN segments}

-----------------------------------------------------------------------------
Init ==
    /\ part = [q \in Partition |-> <<>>]
    /\ partition_locks = [q \in Partition |-> Free]
    /\ wal = <<>> /\ segments = <<>> /\ names = {} /\ wal_lock = Free
    /\ u = [t \in Threads |-> IdleCall]
    /\ rep = IdleReplay
    /\ acked = {} /\ unlogged = {} /\ glued = {}
    /\ calls = 0 /\ faults = 0 /\ replays = 0

-----------------------------------------------------------------------------
(* write_batch *)

Valid(b) == {i \in DOMAIN b : Kind[b[i]] # "invalid"}

\* An atomic call with a point that fails validation returns at once.
BatchBegin(t, b, mode) ==
    /\ u[t].pc = "idle" /\ calls < MaxCalls
    /\ mode = "atomic" => Valid(b) = DOMAIN b
    /\ u' = [u EXCEPT ![t] = [IdleCall EXCEPT !.pc = "next", !.batch = b, !.mode = mode,
                                              !.valid = Valid(b), !.rest = Valid(b)]]
    /\ calls' = calls + 1
    /\ unlogged' = IF mode = "skip" THEN unlogged \cup {b[i] : i \in Valid(b)} ELSE unlogged
    /\ UNCHANGED <<store, wal, segments, names, wal_lock, rep, acked, faults, replays>>

\* The points of the batch that go to partition q.
Group(x, q) == {i \in x.valid : PartitionOf[x.batch[i]] = q}

UsesWal(x) == EnableWal /\ x.mode \notin {"replay", "skip"}

\* write_points_to_partition for the next group, in order of first appearance.
NextPartition(t) ==
    /\ u[t].pc = "next"
    /\ \E first \in u[t].rest :
         /\ \A i \in u[t].rest : first =< i
         /\ LET q == PartitionOf[u[t].batch[first]]
            IN u' = [u EXCEPT ![t].pc = IF UsesWal(u[t]) THEN "log" ELSE "locking",
                              ![t].at = q,
                              ![t].pend = Group(u[t], q),
                              ![t].rest = @ \ Group(u[t], q)]
    /\ UNCHANGED <<store, log, rep, acked, counters>>

Serialisable(x) == \A i \in x.pend : Kind[x.batch[i]] # "unserialisable"

\* json.dumps of the entry raises out of write_batch and of the retry loop.
LogRaises(t) ==
    /\ u[t].pc = "log" /\ ~Serialisable(u[t])
    /\ u' = [u EXCEPT ![t] = IdleCall]
    /\ UNCHANGED <<store, log, rep, acked, counters>>

\* Mutant of TakeWalLock: the section is not exclusive.
EnterWalSection(t) ==
    /\ u[t].pc = "log" /\ Serialisable(u[t])
    /\ wal_lock' = t
    /\ \E n \in DOMAIN segments \cup {0} :
         /\ IsLastSegment(n)
         /\ u' = [u EXCEPT ![t].pc = "logging", ![t].last = n]
    /\ UNCHANGED <<store, wal, segments, names, unlogged, rep, acked, counters>>

\* with wal_lock: the last rotated file is looked up by its name.
TakeWalLock(t) ==
    /\ u[t].pc = "log" /\ Serialisable(u[t])
    /\ wal_lock = Free /\ wal_lock' = t
    /\ \E n \in DOMAIN segments \cup {0} :
         /\ IsLastSegment(n)
         /\ u' = [u EXCEPT ![t].pc = "logging", ![t].last = n]
    /\ UNCHANGED <<store, wal, segments, names, unlogged, rep, acked, counters>>

\* current.wal is too large: os.rename, over whatever has that name.
RotateWal(t) ==
    /\ u[t].pc = "logging" /\ Len(wal) >= SegmentMax
    /\ segments' = [n \in DOMAIN segments \cup {u[t].last + 1} |->
                       IF n = u[t].last + 1 THEN wal ELSE segments[n]]
    /\ names' = names \cup {u[t].last + 1}
    /\ wal' = <<>>
    /\ UNCHANGED <<store, wal_lock, unlogged, u, rep, acked, counters>>

\* os.rename raises, out of write_batch and of the retry loop.
RotateError(t) ==
    /\ u[t].pc = "logging" /\ Len(wal) >= SegmentMax /\ faults < MaxFaults
    /\ u' = [u EXCEPT ![t] = IdleCall]
    /\ wal_lock' = Free
    /\ faults' = faults + 1
    /\ UNCHANGED <<store, wal, segments, names, unlogged, rep, acked, calls, replays>>

Pending(x) == {x.batch[i] : i \in x.pend}

\* The entry is appended and synced.
AppendEntry(t) ==
    /\ u[t].pc = "logging" /\ Len(wal) < SegmentMax
    /\ wal' = AppendLine(wal, Entry(u[t]))
    /\ unlogged' = IF Endless(wal) THEN unlogged \cup Pending(u[t]) ELSE unlogged
    /\ wal_lock' = Free
    /\ u' = [u EXCEPT ![t].pc = "locking"]
    /\ UNCHANGED <<store, segments, names, rep, acked, counters>>

\* The append fails, or only its sync: write_wal_entry returns False and nobody
\* looks.
LogError(t) ==
    /\ u[t].pc = "logging" /\ Len(wal) < SegmentMax /\ faults < MaxFaults
    /\ wal' \in {wal, AppendTorn(wal), AppendLine(wal, Entry(u[t]))}
    /\ unlogged' = unlogged \cup Pending(u[t])
    /\ wal_lock' = Free
    /\ u' = [u EXCEPT ![t].pc = "locking"]
    /\ faults' = faults + 1
    /\ UNCHANGED <<store, segments, names, rep, acked, calls, replays>>

\* Mutant of TakePartitionLock: the lock is not one for all threads.
TakeOwnLock(t) ==
    /\ u[t].pc = "locking"
    /\ partition_locks' = [partition_locks EXCEPT ![u[t].at] = t]
    /\ u' = [u EXCEPT ![t].pc = "storing"]
    /\ UNCHANGED <<part, glued, log, rep, acked, counters>>

TakePartitionLock(t) ==
    /\ u[t].pc = "locking" /\ partition_locks[u[t].at] = Free
    /\ partition_locks' = [partition_locks EXCEPT ![u[t].at] = t]
    /\ u' = [u EXCEPT ![t].pc = "storing"]
    /\ UNCHANGED <<part, glued, log, rep, acked, counters>>

\* The next line of the group reaches the file; behind a torn one it is glued to it.
StorePoint(t) ==
    /\ u[t].pc = "storing"
    /\ \E i \in u[t].pend :
         /\ \A j \in u[t].pend : i =< j
         /\ Kind[u[t].batch[i]] # "unserialisable"
         /\ part' = [part EXCEPT ![u[t].at] = AppendLine(@, u[t].batch[i])]
         /\ glued' = IF Endless(part[u[t].at]) THEN glued \cup {u[t].batch[i]} ELSE glued
         /\ u' = [u EXCEPT ![t].pend = @ \ {i}]
    /\ UNCHANGED <<partition_locks, log, rep, acked, counters>>

\* The group is done, with result True or False.
Stored(x) == [x EXCEPT !.pc = "next", !.at = NoPart, !.ok = @ \cup Group(x, x.at)]
Failed(x) == [x EXCEPT !.pc = "next", !.at = NoPart, !.pend = {},
                       !.bad = @ \cup Group(x, x.at)]

CloseFile(t) ==
    /\ u[t].pc = "storing" /\ u[t].pend = {}
    /\ u' = [u EXCEPT ![t] = Stored(@)]
    /\ partition_locks' = [partition_locks EXCEPT ![u[t].at] = Free]
    /\ UNCHANGED <<part, glued, log, rep, acked, counters>>

\* json.dumps of a point raises: what came before it in the group stays.
StoreRaises(t) ==
    /\ u[t].pc = "storing"
    /\ \E i \in u[t].pend : /\ \A j \in u[t].pend : i =< j
                            /\ Kind[u[t].batch[i]] = "unserialisable"
    /\ u' = [u EXCEPT ![t] = Failed(@)]
    /\ partition_locks' = [partition_locks EXCEPT ![u[t].at] = Free]
    /\ UNCHANGED <<part, glued, log, rep, acked, counters>>

\* Mutants of StoreError: the handler does not return False; the lock stays taken.
StoreErrorIgnored(t) ==
    /\ u[t].pc = "storing" /\ faults < MaxFaults
    /\ UNCHANGED part
    /\ u' = [u EXCEPT ![t] = [Stored(@) EXCEPT !.pend = {}]]
    /\ partition_locks' = [partition_locks EXCEPT ![u[t].at] = Free]
    /\ faults' = faults + 1
    /\ UNCHANGED <<glued, log, rep, acked, calls, replays>>

StoreErrorLocked(t) ==
    /\ u[t].pc = "storing" /\ faults < MaxFaults
    /\ u' = [u EXCEPT ![t] = Failed(@)]
    /\ faults' = faults + 1
    /\ UNCHANGED <<store, log, rep, acked, calls, replays>>

\* The open, a write or the sync raises OSError.
StoreError(t) ==
    /\ u[t].pc = "storing" /\ faults < MaxFaults
    /\ \/ UNCHANGED part
       \/ u[t].pend # {} /\ part' = [part EXCEPT ![u[t].at] = AppendTorn(@)]
    /\ u' = [u EXCEPT ![t] = Failed(@)]
    /\ partition_locks' = [partition_locks EXCEPT ![u[t].at] = Free]
    /\ faults' = faults + 1
    /\ UNCHANGED <<glued, log, rep, acked, calls, replays>>

\* points_failed = 0
Succeeded(x) == x.bad = {} /\ (x.mode = "replay" \/ x.valid = DOMAIN x.batch)

Return(t) ==
    /\ u[t].pc = "next" /\ u[t].rest = {}
    /\ Succeeded(u[t]) \/ u[t].mode # "retry" \/ u[t].tries = MaxRetries
    /\ acked' = IF Succeeded(u[t])
                THEN acked \cup {u[t].batch[i] : i \in u[t].valid} ELSE acked
    /\ u' = [u EXCEPT ![t] = IdleCall]
    /\ UNCHANGED <<store, log, rep, counters>>

\* Any other result, and the whole batch is written again.
Retry(t) ==
    /\ u[t].pc = "next" /\ u[t].rest = {}
    /\ ~Succeeded(u[t]) /\ u[t].mode = "retry" /\ u[t].tries < MaxRetries
    /\ u' = [u EXCEPT ![t].rest = u[t].valid, ![t].ok = {}, ![t].bad = {},
                      ![t].tries = @ + 1]
    /\ UNCHANGED <<store, log, rep, acked, counters>>

-----------------------------------------------------------------------------
(* replay_wal *)

\* The rotated files; current.wal does not match the pattern.
ReplayBegin ==
    /\ EnableWal /\ rep.pc = "idle" /\ replays < MaxReplays
    /\ rep' = [IdleReplay EXCEPT !.pc = "reading", !.todo = DOMAIN segments]
    /\ replays' = replays + 1
    /\ UNCHANGED <<store, log, u, acked, calls, faults>>

FirstOf(n, N) == \A k \in N : NameOrder(n) =< NameOrder(k)

\* One line: an entry whose digest agrees is written again, the rest is skipped.
ReplayLine ==
    /\ rep.pc = "reading" /\ u[Replayer].pc = "idle"
    /\ \E n \in rep.todo :
         /\ FirstOf(n, rep.todo) /\ rep.pos < Len(segments[n])
         /\ LET e == segments[n][rep.pos + 1]
            IN u' = IF e \notin {Torn, Bad} /\ Verified(e)
                    THEN [u EXCEPT ![Replayer] =
                             [IdleCall EXCEPT !.pc = "next", !.batch = e.batch,
                                              !.mode = "replay", !.valid = e.rows,
                                              !.rest = e.rows]]
                    ELSE u
    /\ rep' = [rep EXCEPT !.pos = @ + 1]
    /\ UNCHANGED <<store, log, acked, counters>>

ReplayEndOfFile ==
    /\ rep.pc = "reading" /\ u[Replayer].pc = "idle"
    /\ \E n \in rep.todo :
         /\ FirstOf(n, rep.todo) /\ rep.pos = Len(segments[n])
         /\ rep' = [rep EXCEPT !.pos = 0, !.todo = @ \ {n}, !.done = @ \cup {n}]
    /\ UNCHANGED <<store, log, u, acked, counters>>

\* All files have been read: they are removed one by one.
ReplayRemove ==
    /\ rep.pc = "reading" /\ rep.todo = {} /\ u[Replayer].pc = "idle"
    /\ \E n \in rep.done :
         /\ FirstOf(n, rep.done)
         /\ segments' = [k \in DOMAIN segments \ {n} |-> segments[k]]
         /\ unlogged' = unlogged \cup PointsIn(segments[n])
         /\ rep' = [rep EXCEPT !.done = @ \ {n}]
    /\ UNCHANGED <<store, wal, names, wal_lock, u, acked, counters>>

ReplayEnd ==
    /\ rep.pc = "reading" /\ rep.todo = {} /\ rep.done = {} /\ u[Replayer].pc = "idle"
    /\ rep' = IdleReplay
    /\ UNCHANGED <<store, log, u, acked, counters>>

-----------------------------------------------------------------------------
\* The process is killed: what was being appended may be torn, the rest of the
\* memory is gone.
Crash ==
    /\ faults < MaxFaults
    /\ faults' = faults + 1
    /\ IF \E t \in Threads : u[t].pc = "logging"
       THEN wal' \in {wal, AppendTorn(wal)} ELSE wal' = wal
    /\ \E Q \in SUBSET {q \in Partition :
                           partition_locks[q] # Free /\ u[partition_locks[q]].pend # {}} :
         part' = [q \in Partition |-> IF q \in Q THEN AppendTorn(part[q]) ELSE part[q]]
    /\ partition_locks' = [q \in Partition |-> Free] /\ wal_lock' = Free
    /\ u' = [t \in Threads |-> IdleCall] /\ rep' = IdleReplay
    /\ UNCHANGED <<segments, names, acked, unlogged, glued, calls, replays>>

-----------------------------------------------------------------------------
LogStep(t) ==
    LogRaises(t) \/ TakeWalLock(t) \/ RotateWal(t) \/ AppendEntry(t)

StoreStep(t) ==
    TakePartitionLock(t) \/ StorePoint(t) \/ CloseFile(t) \/ StoreRaises(t)

CallStep(t) ==
    NextPartition(t) \/ LogStep(t) \/ StoreStep(t) \/ Return(t) \/ Retry(t)

ErrorStep(t) == RotateError(t) \/ LogError(t) \/ StoreError(t)

ReplayStep ==
    ReplayLine \/ ReplayEndOfFile \/ ReplayRemove \/ ReplayEnd

Next ==
    \/ \E t \in Writers, b \in Batches, mode \in Modes : BatchBegin(t, b, mode)
    \/ \E t \in Threads : CallStep(t) \/ ErrorStep(t)
    \/ ReplayBegin \/ ReplayStep \/ Crash

Spec == Init /\ [][Next]_vars

\* Threads are scheduled and a lock does not starve a waiter for ever.
Fairness ==
    \A t \in Threads : /\ WF_vars(CallStep(t))
                       /\ SF_vars(TakeWalLock(t)) /\ SF_vars(TakePartitionLock(t))

FairSpec == Spec /\ Fairness
-----------------------------------------------------------------------------
(* Properties *)

EntryType ==
    {e \in [batch : Batches, rows : SUBSET Nat, checksum : Batches \X (SUBSET Nat) \X {<<>>}] :
        e.rows \subseteq DOMAIN e.batch}

\* A line that is not whole is no entry.
ASSUME EntryAssumption == Torn \notin EntryType /\ Bad \notin EntryType

CallType ==
    [pc : {"idle", "next", "log", "logging", "locking", "storing"},
     batch : Batches \cup {<<>>}, mode : CallModes, valid : SUBSET Nat,
     rest : SUBSET Nat, at : Partition \cup {NoPart}, pend : SUBSET Nat,
     ok : SUBSET Nat, bad : SUBSET Nat, tries : Nat, last : Nat]

\* Every variable has its type.
TypeOK ==
    /\ part \in [Partition -> Seq(Point \cup {Torn, Bad})]
    /\ partition_locks \in [Partition -> Threads \cup {Free}]
    /\ wal \in Seq(EntryType \cup {Torn, Bad})
    /\ DOMAIN segments \in SUBSET Nat /\ names \in SUBSET Nat
    /\ \A n \in DOMAIN segments : segments[n] \in Seq(EntryType \cup {Torn, Bad})
    /\ wal_lock \in Threads \cup {Free}
    /\ u \in [Threads -> CallType]
    /\ rep \in [pc : {"idle", "reading"}, todo : SUBSET Nat, pos : Nat, done : SUBSET Nat]
    /\ acked \in SUBSET Point /\ unlogged \in SUBSET Point /\ glued \in SUBSET Point
    /\ calls \in Nat /\ faults \in Nat /\ replays \in Nat

InPartition(p) ==
    \E i \in DOMAIN part[PartitionOf[p]] : part[PartitionOf[p]][i] = p

\* Every point of a batch reported SUCCESS is on a line of its own in its
\* partition file for good: a failed group, a retry, other threads and a kill do
\* not change that.  One point may be missing for each line an earlier failure or
\* kill left torn: the first that was written behind it, which is glued to it and
\* reported SUCCESS all the same.
AckedStored == \A p \in acked : InPartition(p) \/ p \in glued

\* Every stored point has a whole entry in the log, in current.wal or in a
\* rotated file, unless it was written with skip_wal, the append of that entry
\* failed or a replay removed it: the rotation, by one thread while others log,
\* loses nothing.  That holds until there has been a wal_10.wal: in the order of
\* names it comes before wal_2.wal, and later rotations rename over it.
LoggedFirst ==
    (EnableWal /\ 10 \notin names) => \A q \in Partition : \A i \in DOMAIN part[q] :
        part[q][i] \in Point => part[q][i] \in Logged \cup unlogged

\* What a thread has stored of its group so far is the end of the file, in the
\* order of the batch: no other thread's lines get between.
GroupTogether ==
    \A t \in Threads : u[t].pc = "storing" =>
        LET x == u[t]
            stored == Group(x, x.at) \ x.pend
            Behind(i) == Cardinality({j \in stored : i < j})
            ls == part[x.at]
        IN \A i \in stored :
              /\ Len(ls) - Behind(i) \in DOMAIN ls
              /\ ls[Len(ls) - Behind(i)] \in {x.batch[i], Bad}

\* Every call ends: with wal_lock and the partition locks taken one after the
\* other, and left on every path, nobody waits for ever.
CallsReturn == \A t \in Threads : u[t].pc # "idle" ~> u[t].pc = "idle"
=============================================================================
