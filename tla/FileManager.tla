----------------------------- MODULE FileManager -----------------------------
(***************************************************************************)
(* FileManager.write_data_point of src/tsdb/storage/file_operations.py on  *)
(* one file: read all of it, write it with one point more to the temporary *)
(* file, which has one name for all writers, and rename that over it.  An  *)
(* open file is an inode, which a rename does not take from who has it.    *)
(***************************************************************************)
EXTENDS Integers, SequencesExt

CONSTANTS
    Writers, Line,
    Unserialisable,   \* the points json.dumps rejects
    Inode, NoFile, Cut,
    MaxFileFaults         \* bound

ASSUME FileAssumption == NoFile \notin Inode /\ Cut \notin Line

VARIABLES
    data, temp,    \* the inodes behind the two names
    body,          \* what is in each inode
    w,             \* the calls of write_data_point
    used,          \* points a call was made for; each is written once
    acked,         \* points of the calls that returned True, in that order (history)
    unsure,      \* points renamed into place by a call that was killed (history)
    faults

fileVars == <<data, temp, body, w, used, acked, unsure, faults>>

NoCall == [pc |-> "idle", lines |-> <<>>, point |-> CHOOSE p \in Line : TRUE, node |-> NoFile]

FileInit ==
    /\ data = NoFile /\ temp = NoFile
    /\ body = [n \in Inode |-> <<>>]
    /\ w = [t \in Writers |-> NoCall]
    /\ used = {} /\ acked = <<>> /\ unsure = {} /\ faults = 0

Present == IF data = NoFile THEN <<>> ELSE body[data]

\* The whole file is read and the point added.  A line that does not parse
\* raises out of the call.
ReadExisting(t, p) ==
    /\ w[t].pc = "idle" /\ p \notin used
    /\ used' = used \cup {p}
    /\ w' = IF Cut \in ToSet(Present) THEN w
            ELSE [w EXCEPT ![t] = [NoCall EXCEPT !.pc = "open", !.point = p,
                                                 !.lines = Append(Present, p)]]
    /\ UNCHANGED <<data, temp, body, acked, unsure, faults>>

Unused == Inode \ ({data, temp} \cup {w[s].node : s \in Writers})

\* Mutant of OpenTemp: the file itself is opened for writing.
OpenData(t) ==
    /\ w[t].pc = "open"
    /\ \E n \in Inode :
         /\ IF data # NoFile THEN n = data ELSE n \in Unused
         /\ body' = [body EXCEPT ![n] = <<>>]
         /\ temp' = n
         /\ w' = [w EXCEPT ![t].pc = "write", ![t].node = n]
    /\ UNCHANGED <<data, used, acked, unsure, faults>>

\* open(..., "w"): what has the name is truncated, or a new inode gets it.
OpenTemp(t) ==
    /\ w[t].pc = "open"
    /\ \E n \in Inode :
         /\ IF temp # NoFile THEN n = temp ELSE n \in Unused
         /\ body' = [body EXCEPT ![n] = <<>>]
         /\ temp' = n
         /\ w' = [w EXCEPT ![t].pc = "write", ![t].node = n]
    /\ UNCHANGED <<data, used, acked, unsure, faults>>

\* Lines written from the start of an inode, over what others have put there.
Over(new, old) ==
    [i \in 1..(IF Len(new) > Len(old) THEN Len(new) ELSE Len(old)) |->
        IF i =< Len(new) THEN new[i] ELSE old[i]]

\* The buffer reaches the inode and the file is closed.
WriteTemp(t) ==
    /\ w[t].pc = "write" /\ w[t].point \notin Unserialisable
    /\ body' = [body EXCEPT ![w[t].node] = Over(w[t].lines, @)]
    /\ w' = [w EXCEPT ![t].pc = "replace"]
    /\ UNCHANGED <<data, temp, used, acked, unsure, faults>>

\* json.dumps raises at the point: the lines before it are there, and False is returned.
DumpsRaises(t) ==
    /\ w[t].pc = "write" /\ w[t].point \in Unserialisable
    /\ body' = [body EXCEPT ![w[t].node] = Over(Front(w[t].lines), @)]
    /\ w' = [w EXCEPT ![t] = NoCall]
    /\ UNCHANGED <<data, temp, used, acked, unsure, faults>>

\* What a write cut short leaves: some lines, and the start of the next.
PartWritten(t) ==
    {Over(SubSeq(w[t].lines, 1, k) \o cut, body[w[t].node]) :
        k \in 0..(Len(w[t].lines) - 1), cut \in {<<>>, <<Cut>>}}

WriteError(t) ==
    /\ w[t].pc = "write" /\ faults < MaxFileFaults /\ faults' = faults + 1
    /\ \E b \in PartWritten(t) : body' = [body EXCEPT ![w[t].node] = b]
    /\ w' = [w EXCEPT ![t] = NoCall]
    /\ UNCHANGED <<data, temp, used, acked, unsure>>

\* os.replace; when another writer has renamed the file away it raises, and
\* False is returned.
Replace(t) ==
    /\ w[t].pc = "replace"
    /\ IF temp = NoFile
       THEN UNCHANGED <<data, temp>> /\ w' = [w EXCEPT ![t] = NoCall]
       ELSE data' = temp /\ temp' = NoFile /\ w' = [w EXCEPT ![t].pc = "done"]
    /\ UNCHANGED <<body, used, acked, unsure, faults>>

ReturnTrue(t) ==
    /\ w[t].pc = "done"
    /\ acked' = Append(acked, w[t].point)
    /\ w' = [w EXCEPT ![t] = NoCall]
    /\ UNCHANGED <<data, temp, body, used, unsure, faults>>

\* The process is killed; a write under way may have got anywhere.
KillWriters ==
    /\ faults < MaxFileFaults /\ faults' = faults + 1
    /\ unsure' = unsure \cup {w[t].point : t \in {s \in Writers : w[s].pc = "done"}}
    /\ \/ UNCHANGED body
       \/ \E t \in Writers : /\ w[t].pc = "write"
                             /\ \E b \in PartWritten(t) : body' = [body EXCEPT ![w[t].node] = b]
    /\ w' = [t \in Writers |-> NoCall]
    /\ UNCHANGED <<data, temp, used, acked>>

FileNext ==
    \/ \E t \in Writers :
          \/ \E p \in Line : ReadExisting(t, p)
          \/ OpenTemp(t) \/ WriteTemp(t) \/ DumpsRaises(t) \/ WriteError(t)
          \/ Replace(t) \/ ReturnTrue(t)
    \/ KillWriters

FileSpec == FileInit /\ [][FileNext]_fileVars

-----------------------------------------------------------------------------
\* The lines of a file hold the points ok, in their order, and besides them only
\* some of those in unsettled.
Holds(lines, ok, unsettled) ==
    LET settled == {i \in DOMAIN lines : lines[i] \notin unsettled}
    IN /\ {lines[i] : i \in settled} = ToSet(ok)
       /\ \A i, j \in settled : i < j =>
             \E m, n \in DOMAIN ok : m < n /\ ok[m] = lines[i] /\ ok[n] = lines[j]

\* One writer: under failures and kills the file always holds whole lines, the
\* acknowledged points in their order and besides them only points of a call
\* that is about to return or was killed there: "if the process crashes during
\* the write, the original file remains intact".
FileIntact ==
    Holds(Present, acked, unsure \cup {w[t].point : t \in {s \in Writers : w[s].pc = "done"}})
=============================================================================
