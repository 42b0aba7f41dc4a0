-------------------------- MODULE IndexPersistence --------------------------
(***************************************************************************)
(* IndexPersistence of src/tsdb/index/index_persistence.py under its one   *)
(* caller, who keeps a TagIndex in memory: an update is logged and         *)
(* applied, the snapshot is saved or the log compacted, and after a crash  *)
(* the snapshot is loaded and the log replayed on top of it.               *)
(***************************************************************************)
EXTENDS TagIndex, JsonLines, SequencesExt

CONSTANTS
    Unreadable, Down,      \* of the abstract index
    MaxUpdates, MaxFaults, MaxSaves   \* bounds

ASSUME PersistenceAssumption ==
    /\ \A index \in SUBSET Entry : index # Unreadable /\ index # Down
    /\ \A x \in Update : x # Torn /\ x # Bad
    /\ MaxUpdates \in Nat /\ MaxFaults \in Nat /\ MaxSaves \in Nat

VARIABLES
    pc,         \* where the caller is
    memory,     \* its TagIndex
    op,         \* the update of append_update
    tag_index,  \* the contents of tag_index.json; empty when it does not exist
    updates,    \* the lines of updates.log; none when it does not exist
    unended,    \* the last of them is whole but for its newline
    doubtful,   \* history: the updates that raised and may be in updates.log
    nupdates, nfaults, nsaves

log == <<updates, unended>>
disk == <<tag_index, log>>
counters == <<nupdates, nfaults, nsaves>>
persistenceVars == <<pc, memory, op, disk, doubtful, counters>>

NoUpdate == [op |-> "none"]

PersistenceInit ==
    /\ pc = "idle" /\ memory = {} /\ op = NoUpdate
    /\ tag_index = {} /\ updates = <<>> /\ unended = FALSE /\ doubtful = {}
    /\ nupdates = 0 /\ nfaults = 0 /\ nsaves = 0

-----------------------------------------------------------------------------
(* What is read back *)

Adds(x, e) == x.op = "add" /\ x.tag = e.tag /\ x.location = e.location
Removes(x, e) == x.op = "remove" /\ x.location = e.location
About(x, e) == Adds(x, e) \/ Removes(x, e)

Parses(ls) == \A i \in DOMAIN ls : ls[i] \notin {Torn, Bad}

\* The updates applied to a snapshot, in order.
Replayed(snapshot, ls) == FoldLeft(Apply, snapshot, ls)

-----------------------------------------------------------------------------
(* append_update *)

AppendBegin ==
    /\ pc = "idle" /\ nupdates < MaxUpdates
    /\ \E x \in Update : op' = x
    /\ pc' = "appending" /\ nupdates' = nupdates + 1
    /\ UNCHANGED <<memory, disk, doubtful, nfaults, nsaves>>

\* The log for what comes next: behind a line without its newline, that goes on
\* the same line, and two values on a line do not parse.
Opened == IF unended THEN [updates EXCEPT ![Len(updates)] = Torn] ELSE updates

\* The line is written and synced; the caller applies the update.
AppendUpdate ==
    /\ pc = "appending"
    /\ updates' = AppendLine(Opened, op) /\ unended' = FALSE
    /\ memory' = Apply(memory, op)
    /\ pc' = "idle" /\ op' = NoUpdate
    /\ UNCHANGED <<tag_index, doubtful, counters>>

\* What a failed or interrupted append leaves: nothing, the beginning of the
\* line, all of it but the newline, or the whole line when os.fsync fails.
CutShort ==
    \/ UNCHANGED log
    \/ /\ pc = "appending"
       /\ \/ updates' = AppendTorn(Opened) /\ unended' = FALSE
          \/ ~Endless(Opened) /\ updates' = Append(Opened, op) /\ unended' = TRUE
          \/ updates' = AppendLine(Opened, op) /\ unended' = FALSE

\* The append raises, and the caller drops the update.
AppendError ==
    /\ pc = "appending" /\ nfaults < MaxFaults
    /\ CutShort
    /\ doubtful' = doubtful \cup {op}
    /\ pc' = "idle" /\ op' = NoUpdate /\ nfaults' = nfaults + 1
    /\ UNCHANGED <<memory, tag_index, nupdates, nsaves>>

-----------------------------------------------------------------------------
(* save_tag_index and compact *)

\* Mutant of CompactBegin: the log is cleared before the snapshot is saved.
ClearFirst ==
    /\ pc = "idle" /\ nsaves < MaxSaves
    /\ pc' = "compacting" /\ nsaves' = nsaves + 1
    /\ updates' = <<>> /\ unended' = FALSE
    /\ UNCHANGED <<memory, op, tag_index, doubtful, nupdates, nfaults>>

\* The temporary file is written beside tag_index.json.
CompactBegin ==
    /\ pc = "idle" /\ nsaves < MaxSaves
    /\ pc' = "compacting" /\ nsaves' = nsaves + 1
    /\ UNCHANGED <<memory, op, disk, doubtful, nupdates, nfaults>>

SaveBegin ==
    /\ pc = "idle" /\ nsaves < MaxSaves
    /\ pc' = "saving" /\ nsaves' = nsaves + 1
    /\ UNCHANGED <<memory, op, disk, doubtful, nupdates, nfaults>>

\* os.replace
ReplaceSnapshot ==
    /\ pc \in {"saving", "compacting"}
    /\ tag_index' = memory
    /\ pc' = IF pc = "saving" THEN "idle" ELSE "replaced"
    /\ UNCHANGED <<memory, op, log, doubtful, counters>>

\* The write of the temporary file or its replacement raises.
SaveError ==
    /\ pc \in {"saving", "compacting"} /\ nfaults < MaxFaults
    /\ pc' = "idle" /\ nfaults' = nfaults + 1
    /\ UNCHANGED <<memory, op, disk, doubtful, nupdates, nsaves>>

\* os.remove of updates.log
RemoveLog ==
    /\ pc = "replaced"
    /\ updates' = <<>> /\ unended' = FALSE /\ doubtful' = {}
    /\ pc' = "idle"
    /\ UNCHANGED <<memory, op, tag_index, counters>>

-----------------------------------------------------------------------------
\* The process is killed.
Crash ==
    /\ pc \notin {"down", "unreadable"} /\ nfaults < MaxFaults
    /\ CutShort
    /\ pc' = "down" /\ memory' = {} /\ op' = NoUpdate /\ doubtful' = {}
    /\ nfaults' = nfaults + 1
    /\ UNCHANGED <<tag_index, nupdates, nsaves>>

\* Mutant of Load: the log is not read.
LoadSnapshot ==
    /\ pc = "down" /\ Parses(updates)
    /\ memory' = tag_index
    /\ pc' = "idle"
    /\ UNCHANGED <<op, disk, doubtful, counters>>

\* load_tag_index, and the updates of read_updates on top of it.
Load ==
    /\ pc = "down" /\ Parses(updates)
    /\ memory' = Replayed(tag_index, updates)
    /\ pc' = "idle"
    /\ UNCHANGED <<op, disk, doubtful, counters>>

\* json.loads of a line raises out of read_updates.
LoadRaises ==
    /\ pc = "down" /\ ~Parses(updates)
    /\ pc' = "unreadable"
    /\ UNCHANGED <<memory, op, disk, doubtful, counters>>

-----------------------------------------------------------------------------
PersistenceNext ==
    \/ AppendBegin \/ AppendUpdate \/ AppendError
    \/ CompactBegin \/ SaveBegin \/ ReplaceSnapshot \/ SaveError \/ RemoveLog
    \/ Crash \/ Load \/ LoadRaises

PersistenceSpec == PersistenceInit /\ [][PersistenceNext]_persistenceVars
-----------------------------------------------------------------------------
(* Properties *)

\* Every variable has its type.
PersistenceTypeOK ==
    /\ pc \in {"idle", "appending", "saving", "compacting", "replaced", "down", "unreadable"}
    /\ memory \in SUBSET Entry /\ tag_index \in SUBSET Entry
    /\ op \in Update \cup {NoUpdate} /\ doubtful \in SUBSET Update
    /\ updates \in Seq(Update \cup {Torn, Bad}) /\ unended \in BOOLEAN
    /\ nupdates \in Nat /\ nfaults \in Nat /\ nsaves \in Nat

\* While the caller is up and the log can be read, what a crash at this moment
\* would bring back is what it has in memory, in the middle of a compaction too:
\* only entries of updates that raised may differ.
NothingToLose ==
    (pc \notin {"down", "unreadable"} /\ Parses(updates)) =>
        \A e \in Entry :
            (\A x \in doubtful : ~About(x, e)) =>
                (e \in Replayed(tag_index, updates) <=> e \in memory)

Durable ==
    INSTANCE DurableIndex
        WITH durable <- IF Parses(updates) THEN Replayed(tag_index, updates) ELSE Unreadable,
             frayed <- unended /\ Parses(updates),
             live <- IF pc \in {"down", "unreadable"} THEN Down ELSE memory

\* What can be read back from the disk changes with the index in memory, by one
\* update at a time: no crash, save or compaction loses one or applies one in
\* part.  The exception is append_update that failed: it may change the one without
\* the other, make the log unreadable, or leave a line without its newline, and
\* then the next append_update that returns makes the log unreadable.
ImplementsDurable == Durable!Spec
=============================================================================
