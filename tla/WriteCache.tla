----------------------------- MODULE WriteCache -----------------------------
(***************************************************************************)
(* WriteCache of src/tsdb/storage/write_ops.py: callers add points and     *)
(* flush, a background thread flushes after an interval without a flush.   *)
(* write_batch, modelled in BatchWriter, is here a step with a result.     *)
(***************************************************************************)
EXTENDS Integers

CONSTANTS
    Callers,      \* threads that call add_points and flush_cache
    Background,   \* the thread of _background_flush
    Free,
    Point,        \* each is added once
    Batches,      \* the sets of points that a call adds
    MaxFlushes    \* bound

ASSUME CacheAssumption ==
    /\ Background \notin Callers /\ Free \notin Callers \cup {Background}
    /\ Batches \subseteq SUBSET Point
    /\ MaxFlushes \in Nat

Threads == Callers \cup {Background}

VARIABLES
    cache,
    lock,
    due,       \* flush_interval_seconds have passed since last_flush_time
    th,        \* what each thread is doing
    added,     \* points that add_points was given (history)
    handed,    \* Point -> how often it was given to write_batch (history)
    stored,    \* points that write_batch stored
    flushes

cacheVars == <<cache, lock, due, th, added, handed, stored, flushes>>

IdleThread == [pc |-> "idle", points |-> {}]

CacheInit ==
    /\ cache = {} /\ lock = Free /\ due = FALSE
    /\ th = [t \in Threads |-> IdleThread]
    /\ added = {} /\ handed = [p \in Point |-> 0] /\ stored = {}
    /\ flushes = 0

-----------------------------------------------------------------------------
(* add_points *)

AddBegin(t, b) ==
    /\ th[t].pc = "idle" /\ b \cap added = {}
    /\ added' = added \cup b
    /\ th' = [th EXCEPT ![t] = [pc |-> "adding", points |-> b]]
    /\ UNCHANGED <<cache, lock, due, handed, stored, flushes>>

\* with self.lock: extend; the size and the age only decide the result.
AddPoints(t) ==
    /\ th[t].pc = "adding" /\ lock = Free
    /\ cache' = cache \cup th[t].points
    /\ th' = [th EXCEPT ![t] = IdleThread]
    /\ UNCHANGED <<lock, due, added, handed, stored, flushes>>

-----------------------------------------------------------------------------
(* flush_cache *)

FlushBegin(t) ==
    /\ th[t].pc = "idle" /\ flushes < MaxFlushes
    /\ th' = [th EXCEPT ![t].pc = "flushing"]
    /\ flushes' = flushes + 1
    /\ UNCHANGED <<cache, lock, due, added, handed, stored>>

FlushNothing(t) ==
    /\ th[t].pc = "flushing" /\ lock = Free /\ cache = {}
    /\ th' = [th EXCEPT ![t] = IdleThread]
    /\ UNCHANGED <<cache, lock, due, added, handed, stored, flushes>>

\* Mutant of TakeCache: the cache is cleared by the last line only.
CopyCache(t) ==
    /\ th[t].pc = "flushing" /\ lock = Free /\ cache # {}
    /\ th' = [th EXCEPT ![t] = [pc |-> "writing", points |-> cache]]
    /\ due' = FALSE
    /\ UNCHANGED <<cache, lock, added, handed, stored, flushes>>

\* with self.lock: copy, clear, and the time of the flush.
TakeCache(t) ==
    /\ th[t].pc = "flushing" /\ lock = Free /\ cache # {}
    /\ th' = [th EXCEPT ![t] = [pc |-> "writing", points |-> cache]]
    /\ cache' = {} /\ due' = FALSE
    /\ UNCHANGED <<lock, added, handed, stored, flushes>>

\* write_batch, with no lock held; it stores all, some or none of the points,
\* and the statistics that say so are only returned.
WriteCached(t) ==
    /\ th[t].pc = "writing"
    /\ handed' = [p \in Point |-> IF p \in th[t].points THEN handed[p] + 1 ELSE handed[p]]
    /\ \E S \in SUBSET th[t].points : stored' = stored \cup S
    /\ th' = [th EXCEPT ![t] = [pc |-> "clearing", points |-> {}]]
    /\ UNCHANGED <<cache, lock, due, added, flushes>>

\* write_batch raises (its log entry has no JSON form), out of flush_cache.
WriteRaises(t) ==
    /\ th[t].pc = "writing"
    /\ handed' = [p \in Point |-> IF p \in th[t].points THEN handed[p] + 1 ELSE handed[p]]
    /\ \E S \in SUBSET th[t].points : stored' = stored \cup S
    /\ th' = [th EXCEPT ![t] = IdleThread]
    /\ UNCHANGED <<cache, lock, due, added, flushes>>

\* self.cache = [], with no lock.
ClearCache(t) ==
    /\ th[t].pc = "clearing"
    /\ cache' = {}
    /\ th' = [th EXCEPT ![t] = IdleThread]
    /\ UNCHANGED <<lock, due, added, handed, stored, flushes>>

-----------------------------------------------------------------------------
(* _background_flush *)

\* The interval is over: with self.lock, flush_cache is called when it is due.
\* That call takes self.lock again, which is not reentrant.
Wake ==
    /\ th[Background].pc = "idle" /\ lock = Free /\ cache # {} /\ due
    /\ lock' = Background
    /\ th' = [th EXCEPT ![Background].pc = "flushing"]
    /\ UNCHANGED <<cache, due, added, handed, stored, flushes>>

\* flush_interval_seconds go by.
TimePasses ==
    /\ ~due /\ due' = TRUE
    /\ UNCHANGED <<cache, lock, th, added, handed, stored, flushes>>

-----------------------------------------------------------------------------
FlushStep(t) ==
    FlushNothing(t) \/ TakeCache(t) \/ WriteCached(t) \/ WriteRaises(t) \/ ClearCache(t)

CacheNext ==
    \/ \E t \in Callers, b \in Batches : AddBegin(t, b)
    \/ \E t \in Callers : AddPoints(t) \/ FlushBegin(t)
    \/ \E t \in Threads : FlushStep(t)
    \/ Wake \/ TimePasses

CacheSpec == CacheInit /\ [][CacheNext]_cacheVars

\* Threads are scheduled, time passes, and a lock does not starve a waiter.
CacheFairness ==
    /\ \A t \in Callers : SF_cacheVars(AddPoints(t))
    /\ \A t \in Threads : SF_cacheVars(FlushStep(t))
    /\ WF_cacheVars(Wake) /\ WF_cacheVars(TimePasses)

FairCacheSpec == CacheSpec /\ CacheFairness
-----------------------------------------------------------------------------
(* Properties *)

\* Every variable has its type.
CacheTypeOK ==
    /\ cache \in SUBSET Point /\ added \in SUBSET Point /\ stored \in SUBSET Point
    /\ lock \in {Free, Background} /\ due \in BOOLEAN
    /\ th \in [Threads -> [pc : {"idle", "adding", "flushing", "writing", "clearing"},
                           points : SUBSET Point]]
    /\ handed \in [Point -> Nat]
    /\ flushes \in Nat

\* However many threads flush at once, no point is given to write_batch twice.
WrittenOnce == \A p \in Point : handed[p] =< 1

\* Comment at the end of flush_cache, "Clear cache after successful write": a
\* point leaves the cache to be written, or because it was.
ClearedIsWritten ==
    [][\A p \in cache \ cache' : p \in stored \/ \E t \in Threads : p \in th'[t].points]_cacheVars

\* Comment of add_points, "don't block in add_points!".
AddsReturn == \A t \in Callers : th[t].pc = "adding" ~> th[t].pc = "idle"
=============================================================================
