# TLA+ verification of tsdb

This directory models the time-series database under `src/src/tsdb` in TLA+,
checks the models with TLC and proves theorems about them with TLAPS. Paths
below are relative to the root of the repository (`src/tsdb/...`).

Run a check with `tlc -config <run>.cfg <module>` (the table of runs below
names both) and a proof with `tlapm <module>.tla`.

## 1. Inventory

The product is a package, `src/tsdb`, of six layers. Only the storage manager,
the parser, the engine and the server are wired together behind
`TimeSeriesDB`; the other modules of `storage/`, `index/` and `query/` are
library components with their own state and no caller in the package.

| Component | State | Operations | What is hard, and what makes it correct |
|---|---|---|---|
| Storage manager `storage/storage_manager.py` | partition files (one JSON line per point), in-memory index, `initialized`, `running`, `manager_lock` | `initialize`, `write_points`, `read_points`, `list_*`, `cleanup_old_data`, `shutdown` | Reads and cleanups take no lock; the state test of a write is outside its lock; the index is lost at a restart. What was acknowledged must stay readable until it expires, calls must return, listings must agree with the data. |
| Batch writer `storage/write_ops.py` | partition files, per-partition locks, `current.wal`, rotated `wal_N.wal` | `write_batch`, `write_points_to_partition`, `write_wal_entry`, `replay_wal`, `write_with_retry` | Concurrent batches, a failing partition, rotation by file name, a crash between log and data. Logged before stored, replay restores, a retry does not duplicate. |
| Write cache `storage/write_ops.py` | `cache`, `last_flush_time`, `lock`, the writer | `add_points`, `flush_cache`, the background thread | A flush writes outside its lock; the background thread calls it under the lock. No point is lost or written twice, the thread makes progress. |
| Single-file storage `storage/file_operations.py` | one JSON file per measurement and day, one temporary file name | `write_data_point`, `read_data_points`, `list_measurements`, `get_storage_stats` | Read, append and replace: a kill or a failure on the way, and no lock. |
| Time partitioning `storage/partitioning.py` | directories by interval; `PartitionMetadata` | path, boundaries, range listing, cleanup, metadata update and query | Calendar arithmetic at the ends of intervals; listing must cover the range. |
| Compression `storage/compression.py` | none | encode and decode of delta, run-length, XOR, dictionary | Round trips, bit widths. |
| Serialization `storage/serialization.py`, line protocol `storage/line_protocol.py` | none | encode, decode, escape-aware parsing | Types kept, damage noticed, separators inside names, the unit of a timestamp guessed from its length. |
| Tag index `index/tag_index.py`, `index/index_optimization.py` | postings, one Bloom filter per location | add, remove, lookups | The filter must have no false negatives after more calls, removals and returns of a location. |
| Time index `index/time_index.py` with `read_ops.py`, `range_queries.py` | list of blocks, parallel list of keys | add one, add many, range search | A bulk load that raises halfway, early termination of the search, two indexes that disagree. |
| Series keys `index/series_keys.py` | key to id maps | build, parse, register | Ids are stable and unique. |
| Index persistence `index/index_persistence.py` | snapshot files, `updates.log` | save, load, append, read, compact | Crash between the snapshot and the removal of the log, torn last line. |
| Query layer `query/` | none | filters, aggregates, windows, percentiles, optimizer rewrites | Two ways to one answer must agree; rewrites must not change results. |
| Framing and client `server/tcp_server.py`, `server/client.py`, `server/protocol.py` | receive buffer | `feed`, `serve_connection`, request and response | Frames cut and glued anywhere; one answer per request, in order. |
| Server `service.py` | listening socket, `_running`, connection threads, the database | `serve_forever`, `stop`, `_serve_conn` | `stop` against `accept` and against requests in progress. |
| Request handling, engine, parser `server/` | none | route, parse, execute | Errors map to statuses, text survives both ways. |
| Monitoring `server/monitoring.py` | counters | record, report | Nothing reads it back. |

The components meet as follows. A connection thread decodes frames and calls
the handler; the handler calls `TimeSeriesDB.write` or `.query`; those call
`StorageManager.write_points` and `read_points` on one shared manager, from as
many threads as there are connections. `TimeSeriesDB.close` calls `shutdown`.
`cleanup_old_data` is called by whoever administers the database. `WriteCache`
calls `BatchWriter`. Nothing else shares state.

`PROJECT.json` lists every component with its status and every hazard with its
line and the properties aimed at it.

## 2. The storage manager

`StorageManager.tla` models `write_points`, `read_points`, `cleanup_old_data`,
`initialize` and `shutdown`, called by any number of threads.

State and code:

| Variable | Code |
|---|---|
| `files`, `lines` | the directory `partitions/<measurement>/*.jsonl` and what the files hold |
| `index` | `self.index`; the tag and field tables are abstracted to the set of points they were fed from |
| `initialized`, `running`, `manager_lock` | the attributes of that name |
| `w[t]` | a call of `write_points`: the indices of the batch it has not reached (`rest`), those in the buffer of the open file (`pend`), the file (`open`), whether the file still has its name (`linked`), whether `json.dumps` will raise (`doomed`) |
| `r[t]`, `c[t]` | a call of `read_points`, of `cleanup_old_data` |
| `now` | `time.time()`; it never goes back |
| `acked`, `ontime`, `late`, `session` | history, read by no guard |

A point is a model value with a timestamp, a partition and a kind: stored,
refused by the validation, rejected by `fromtimestamp`, rejected by
`json.dumps`. A partition file is a sequence of lines, each a point, `Torn` (the
unterminated start of a line) or `Bad` (what the next append makes of it).

Grain of atomicity. One action per step that another thread can see: the test
of the flags, taking the lock, opening a partition, each line that reaches the
file, closing it, the return. A scan of one file by a reader or a cleanup is one
step. That loses one thing: a buffer that fills up in the middle of a line shows
a reader an unfinished last line for a moment. It stops the scan behind every
line flushed before, and keeps a cleanup from dropping the file, so no property
below depends on it. The index is fed for a whole partition when it is opened,
where the code feeds it point by point under the same lock.

Faults. `WriteError` is an `OSError` of an open or a flush, `Crash` kills the
process and starts a new manager. Both may leave a torn line. The page cache
survives: the code does not `fsync`, the README of the repository disclaims
crash-safe durability, and power loss is not modelled.

Not modelled: sorting, filters and `limit` of a read; `StorageStats`;
`health_check`; the configuration and its builder; `compact_partitions`,
`backup_metadata`, `restore_metadata`, whose bodies are empty.

### Properties

`AckedRetained`, `ReadComplete`, `SessionListed` (safety) and `WritesReturn`
(liveness) hold. They are about a point stored *on time*, that is flushed at
most `MaxLag` behind the clock: `PartitionAssumption` demands that `MaxLag` plus
the length of a partition interval fits in the retention. Without it the drop
of a partition is not safe: a late point appended between the scan and the
unlink goes with the file. An exception common to all of them is a torn line in the same file,
which stops every scan of it.

`SessionListed` is about what was acknowledged since the manager came up: the
index starts empty then. Section 12 lists what the code does otherwise than its
docs say.

### Bounds

`MCStorageManager.tla` gives the tables. A partition interval is 2 units of
time, the retention 3, `MaxLag` 1, so the assumption holds with equality. The
clock runs to 4: a point at time 0 or 1 is written, expires and is dropped while
its writer may still be inside. Two calls of `write_points` are enough for a
batch over two partitions and another that shares the first; two cleanups, for
one to pull a file from under the other, or a cleanup and a reader (`storage_work`:
at most two of the three work at a time beside the writer); one fault, for a torn
line and the append behind it. `storage_returns` has two writers, three calls and one batch
for each way a call can end, with the clock stopped: no guard of a write reads
it.

### Fairness

`FairSpec` assumes that a writer that can run is scheduled (weak fairness of
its steps), that `shutdown` goes on once inside the lock, and that
`threading.Lock`, which is released infinitely often, does not starve one
waiter for ever (strong fairness of taking it). No call is obliged to start and
nothing is assumed of readers and cleanups.

### Proofs

`StorageManagerProofs.tla` proves, for every set of threads, points, files and
batches and every `Width`, `Retention` and `MaxLag` that meet the assumptions:
type correctness, `AckedRetained`, `ReadComplete` and `SessionListed`.

`AckedRetained` is not inductive. Its strengthening `IInv` adds:

- `LockInv`: the holder of `manager_lock` is the one call inside;
- `ProgressInv`: each index of a batch is not reached, buffered or stored, and a
  buffer has a file, of the partition of what is in it;
- `FileInv`: lines are in files that exist and in the right one;
- `CleanupInv`: between scan and unlink nothing stored on time in the target is
  younger than the cutoff, and no write on time can go there any more. The scan
  gives one point `q` older than the retention in the file; any other point of
  the partition is less than `Width` newer, hence later than `MaxLag`. This is
  where `PartitionAssumption` is used;
- `OrphanInv`: a writer whose file lost its name has late points only;
- `StoreInv`, `ReadInv`: what is stored is kept; what a reader must return is in
  its result or in a file it has yet to read.

`SessionListed` has an invariant of its own on top of `IInv`: `ListInv` says what a call
in progress owes the index (`ListedBy`: under the lock, every point it has passed is
listed or the call is doomed to fail; before the lock, nothing is passed yet). A call
let in before a `shutdown` may be waiting when the next `initialize` empties the
index; it is enough that nobody is inside then, which `LockInv` gives.

Liveness (`WritesReturn`) is model-checked only.

## 3. The batch writer and its log

`BatchWriter.tla` models `write_batch` (plain and atomic), `write_with_retry`,
`write_points_to_partition`, `write_wal_entry` with its rotation, and
`replay_wal`, called by any number of threads and one that replays.

| Variable | Code |
|---|---|
| `part` | the partition files |
| `partition_locks`, `wal_lock` | `self.partition_locks`, `self.wal_lock` |
| `wal`, `segments` | `current.wal`; the rotated files `wal_N.wal` |
| `u[t]` | a call of `write_batch`: the points that validated (`valid`), the partitions not reached (`rest`), the group at hand (`at`, `pend`), the indices stored and failed (`ok`, `bad`), the retries made (`tries`), the number of the last rotated file seen (`last`) |
| `rep` | a call of `replay_wal`: files to read, position, entries done |
| `acked`, `unlogged`, `glued`, `names` | history: points of calls that returned SUCCESS; points whose entry failed or was removed; points written right behind a torn line; the rotated files there ever were |

A thread's steps are those another can see: taking each lock, the rename of the
rotation, the append to the log, each line of a group, the release. The rotation
reads the directory when it takes `wal_lock` and renames later, as the code
does; a replay, which takes no lock, can remove a file in between. File names
are compared as strings (`NameOrder`), so `wal_10` comes before `wal_9`. A digest
is the record it was taken of: two are equal when the records are.

Faults, at most `MaxFaults` in a run: the append to the log, the rename, or the
write of a group raises, leaving nothing, a torn line or, where only `os.fsync`
fails, everything; a kill, after which a new process has free locks and the
files. Kinds of points stand for the exceptions the data can cause: refused by
the validation, or rejected by `json.dumps`.

Properties. `AckedStored`: a point reported SUCCESS is on a line of its own in its
file for good, unless it was the first written behind a line that an earlier
failure or kill left torn: that one is glued to the torn line, lost, and reported
SUCCESS all the same (section 12). Other points of such a file are not exempt.
`GroupTogether`: the lines of a group are contiguous. `LoggedFirst`: everything
stored has a whole log entry, unless its append failed (the result of
`write_wal_entry` is not looked at) or a replay removed it; it is stated for the
first nine rotations, because once there was a `wal_10.wal` a rotation may rename
over a file. `CallsReturn`: the
two kinds of locks are given back on every path. That a replay stores nothing,
although it removes the files, is a theorem (`Replay_stores_nothing`).

Bounds. Two threads; two batches over the same partitions in opposite orders;
`SegmentMax` is 1, so that the second entry rotates; one fault. `batch_log` runs
two calls in any of the modes and one replay; `batch_returns` has one batch for
each way a call ends.

Fairness. Each thread that can go on is scheduled (weak fairness), and a lock
released again and again does not starve one waiter (strong fairness).

Proofs. `BatchWriterProofs.tla` proves type correctness, `AckedStored`, and that
a replay never stores a point (`Replay_stores_nothing`: the digest of an entry
is over the entry with an empty checksum, the one it is compared with over the
entry with its checksum, and no record contains itself). The invariant `IInv`
adds to the type that the points a call counts as stored are in `Held`, those on a
line of their own or glued (`CallOK`), that so is every acknowledged point, and that
the replayer never leaves the reading of entries. The argument is that `Held` only
grows: an append behind a torn end spoils that line and no other, and the point it
was about joins `glued` (lemmas of `JsonLinesProofs`).

The same module proves `LoggedFirst` and `GroupTogether`. For the first, `LInv`
says what a call owes the log where it stands (`CallLogged`: from the end of
`write_wal_entry` on, the points it is about to store are covered), and that the
name a thread has computed under `wal_lock` is free until it renames (`NameFree`): only the
holder of the lock makes a name, and a replay only removes them. That is where the
order of the names comes in: below ten the last name as a string is the last as a
number. For the second, `GInv` says of a thread inside a group that it holds the
lock of its partition and that what it has stored of the group is the end of the
file, at the places its order gives (`EndOf`); a line it cannot have written is a
torn end it spoiled.

## 4. The write cache

`WriteCache.tla` models `add_points`, `flush_cache` and `_background_flush`.
`cache` and `lock` are the attributes; `due` stands for the time since
`last_flush_time`; `th[t]` is what a thread is doing and the points it holds;
`handed` counts, per point, how often it was given to `write_batch`; `stored` is
what came of it. `write_batch` is one step with any outcome, an exception
included. The copy of the cache is taken under the lock, the write and the
clearing happen outside it, as in the code.

`WrittenOnce`, in the run `components`, says that no point is handed to the writer
twice, with two callers that add and flush and the background thread, over at
most three flushes; it is proved for any number of callers (`Written_once` in
`ComponentsProofs`). The invariant `PlaceInv` says that a point is in the cache, or in the hands of one thread, or handed.
Two runs end in a violation: `cache_lost` (a point added while a flush writes is
cleared at its end) and `cache_blocks` (the background thread waits for the lock
it holds, and every `add_points` with it; the specification has strong fairness
for every thread, so nothing but the lock is to blame).

## 5. The index files

`IndexPersistence.tla` models `append_update`, `read_updates`,
`save_tag_index`, `load_tag_index` and `compact` under one caller, who keeps a
`TagIndex` in memory and does what the docstrings say: log an update and apply
it, save or compact now and then, and after a crash load the snapshot and replay
the log on it. No caller in the package does so yet; the class takes no lock,
and the model has one thread. `TagIndex.tla` is the index as a set of pairs of a
tag and a location (`add_entry`, `remove_location`).

`tag_index` and `updates` are the two files, `memory` the caller's index, `pc`
and `op` where it is. `compact` is three steps: the temporary file, `os.replace`,
`os.remove`. An append that raises or is killed leaves nothing, the beginning of
the line (`Torn`), the line without its newline (`unended`), or the whole line,
when it is `os.fsync` that fails; `doubtful` (history) collects such updates until
the log is removed. A line without its newline is read like any other, until
something is appended: that goes on the same line (`Opened`), which then does not
parse. A line that does not parse makes `json.loads` raise out of `read_updates`;
the model ends there (`LoadRaises`). The temporary file a kill leaves behind is never read and not
modelled, nor are the snapshot of the time index, saved the same way with no
log, and the version check of the serializer.

`DurableIndex.tla` is what this promises: a live and a durable index that change
together, one update at a time; a restart takes the durable one. An update that
fails may reach the durable one alone, make it unreadable, or leave it `frayed`:
readable until the next update, which *returns* and makes it unreadable (section
12). The run `components` checks that the model implements it
(`ImplementsDurable`, the durable index being the log replayed on the snapshot),
and that, while the log can be read, nothing but a doubtful update sets the files
apart from memory (`NothingToLose`). Two entries and three updates suffice for an
entry to be added, removed and added again across a snapshot, and for an update
behind one behind a line without its newline; two faults for a kill in the middle
of a compaction behind a failed append; two saves for a snapshot on top of another.

`IndexPersistenceProofs.tla` proves type correctness, `NothingToLose` and
`ImplementsDurable` for all tags, locations and bounds. The invariant adds
`SnapshotAgrees`: memory and snapshot differ only in entries some line of the
log is about. So replacing the snapshot by memory changes nothing that can be
read back (`ReplayedAbout`), which is why a kill between `os.replace` and
`os.remove` is harmless. The lemmas about the replay rest on a closed form of the
fold over the lines (`ReplayedIsFold`): for one entry, what it leaves is settled by
the last line about it (`LastPlace`, `LastApplied`), and after that line nothing
changes it. For the refinement, what a failed append leaves is one of `Unharmed`,
`Ruined` and `Reached` (`CutShortMaps`), and an append behind an unended line is
never readable (`OpenedLog`).

`JsonLines.tla` is common to these modules: files of one JSON value per line,
with a torn end and what the next append makes of it. In the storage manager, the
batch writer and the service a line cut exactly before its newline is counted as
torn. The code would still read it until the next append, which is glued to it in
the model as in the code. It is the line of a call that has failed or was killed,
so nothing acknowledged is on it, and the file counts as corrupt one append earlier
than it is.

## 6. A connection

`Connection.tla` models one connection: `FrameDecoder.feed` and
`serve_connection` with the handler of `service.py` on one side,
`Client._request` with `_recv_exactly` on the other, over a byte stream in each
direction.

| Variable | Code |
|---|---|
| `uplink`, `downlink` | the bytes sent and not yet read |
| `server` | the connection thread: where it is, `decoder._buf`, and what `feed` returned and the loop has not reached (`out`) |
| `client` | where `_request` is, the `buf` and `n` of `_recv_exactly` |
| `nsent`, `got` | the requests sent and the answers received |
| `handled` | history: what the handler was called with |

A byte is one of a header, which together hold a length, or the k-th of a
request or of an answer; what a request says is abstracted, but for whether it
is UTF-8. Every `recv` takes any number of the bytes there are, up to what it
asks for, so a chunk may end inside a header. `Window` is the number of requests
sent ahead of their answers: 1 for `Client`, more for a peer that pipelines, as
the tests of `serve_connection` do with chunks of several frames.

Faults. Either side may go away at any moment, losing what it had not sent out.
The handler raises for a request that is not UTF-8: the exception leaves
`serve_connection`, the socket is closed, and the answers on their way may be
lost with it.

`Exchange.tla` is what a connection promises: requests handled one by one in the
order they were sent, answers whole and in that order. `connection` checks that
the model implements it (`ImplementsExchange`, with the payloads for messages),
and that who sent a request reads its answer or sees the end of the connection
(`Answered`). Bounds: headers of 4 bytes, as in the code; 5 requests of 0 to 2
bytes, one of them not UTF-8, 3 at a time; chunks of up to 12 bytes, so that one
can hold two frames and a part of a third. Fairness: the client reads on while
it waits for an answer, and the thread is scheduled. The network takes whatever
is sent, so the deadlock of a peer that sends ahead and never reads, with both
buffers full, is outside the model.

Proofs. `ConnectionProofs.tla` proves the type invariant and `ImplementsExchange`
for any requests, header length, window and sizes of `recv`. What makes the
refinement hold is where the bytes are. `UpInv`: what is in the decoder's buffer,
followed by what is on its way, is the frames of the requests from the next one
the decoder will return to the last one sent, whole as long as the client is
open, and cut somewhere once it is gone; `DownInv` says so of the answers and of
what `_recv_exactly` has read, with the header that it has already consumed put
back in front. Both are stated by places in the stream: a rising list
`start` says where each frame begins (`Starts`, `Cut`, `Framed`), which a step
that takes bytes at one end or puts a frame at the other changes in one place.
`HandledInv` and `GotInv` then follow frame by frame: `Complete` holds only when
a whole frame is in front, because a header is in front and tells its length
(`FrameInBuffer`). `Answered` stays with TLC.

The text of requests and answers is in `Requests` (section 11). Not modelled:
`pending_bytes`.

## 7. Reads through the indexes, and series

`TimeIndex.tla` is `TimeRangeIndex`: `blocks`, the parallel list `min_keys` the
binary search uses, `add_block`, `add_blocks` and `find_blocks_in_range`.
`add_blocks` raises at an inverted block after it appended those before it, so
the two lists may differ in length and the first be out of order
(`AddBlocksRaises`). `SearchComplete` says that every block of a call that
returned is still found by every search it overlaps, that nothing else is, and
that the result is in order. It holds because the lost blocks are behind the last
key until the next bulk load sorts them in; it is a theorem
(`IndexReadsProofs`, `Search_is_complete`) for any locations, times and lengths.
Its invariant `TimeInv` is that the first `Len(min_keys)` blocks are those of the keys, in
order, and contain all that is listed; the order is by start alone, because
`add_block` does not look at the end of a block.

`IndexReads.tla` puts the tag index, the time index and the Bloom filters of
`OptimizedTagIndex` together with the locations they point to. A caller writes
points, registers the bounds of a location (one, or all at once, with or without
a block the wrong way round), indexes locations through the filter or past it,
and drops a location from the tag index. `Execute` is `IndexedReader.plan` and
`execute`, `RangeQuery` the merge of `RangeQueryEngine`.

- `ReadsComplete`: a query with a tag filter or a range returns every point that
  matches among those registered and indexed, and no other.
- `RangesInOrder`: a range query yields them in the order of time, although the
  scan of a location ends at the first point behind the range and the streams are
  merged through a heap.
- `SkipsNothingIndexed`: the filter never skips what came through it. What was
  added to the index behind the filter may be skipped (section 12).

`IndexReadsProofs` proves the three. They rest on the time index
keeping its invariant under the caller's steps (`TimeStep`). `ReadsComplete` needs
nothing else of the history: a listed block is found by the search
(`FoundInRange`), so its location is in the plan whenever the point is in range
(`PlanReaches`), and the exact filter then decides. For the filters, `FilterInv`
says that the bits of every tag that came through `index_location` are in the
filter of the location, which survives the removal of the location because the
filter does; whatever bits tags share, a filter can only say yes too often.
For `Ranges_in_order`, what the scan of a location has kept stays in order and
holds every block of the range up to where it stands (`ScannedKeeps`), so stopping
at the first start behind the range loses none. The invariant of the merge
(`MergeTurnKeeps`): what is out is in order and no later than anything still in a
stream, and what is out and what is left together are the hits.

`SeriesKeys.tla` is `SeriesManager` on texts made of a letter, a comma, an equals
sign and a backslash. `SeriesIdentified`: one id per series, and no two series
with one id; the key gives the series back unless a name holds a backslash or a
tag key an equals sign, where `parse_series_key` unescapes twice.

`Series_identified` (`ComponentsProofs`) proves it for any series, of texts of any
length. `SeriesInv` makes ids follow keys (`Ids_follow_keys`), and two series never
have one key (`KeysTell`): reading is a walk through the states of the loop of
`parse_series_key` (`Leads`), which has one end (`LeadsOneWay`) and which an escaped
name crosses without being cut (`EscapeRead`). A walk that cuts at equals signs as
well as commas ends with the names of the series in their order (`KeyCut`), so they
can be read off the key; the walk of the code, which cuts at commas only, ends with
the measurement and each `k=v` (`KeyKept`), and the first equals sign of those is
the right one if the key of the tag has none (`JoinedCut`). That sorting leaves
every tag one place needs the order of texts to be a total one (`BeforeThrough`,
`OneIsBefore`).

Bounds: two locations, two tags whose bits overlap in one of three, three
moments, two points a location, six steps of the caller: a location can be
written, registered, indexed, dropped, written and registered again. Series of
up to two tags from eight names, two at a time.

## 8. One file, partitions and their metadata

`FileManager.tla` is `write_data_point` on one file: read everything, write it
with the new line to the temporary file, rename. A file is an inode with two
names, so a rename leaves it with whoever has it open. Failures leave some lines
and the start of another in the temporary file, a kill ends every call.
`FileIntact`: with one writer the file holds whole lines, the acknowledged points
in their order, and besides them only points renamed into place by a call that
had not returned. With two writers it does not hold (section 12); the class has
no lock and no caller that shares it.

`File_intact` (`ComponentsProofs`) proves it whenever no two callers are distinct,
for any lines, inodes and number of failures; the hypothesis is what the
violation asks for. The invariant `FileInv` keeps the two names on
different inodes, and says of the call under way (`CallInv`) that its lines are the
file as it is with one new point at the end, and that the temporary file is empty
before they are written and is exactly those lines before the rename: a rename
therefore moves the file from one good content to the next.

`Partitions.tla` is the calendar arithmetic of `TimePartitioner` and of
`read_data_points`, on any calendar: a list of the moments at which months start
(`MonthStart`), whole days apart (`Calendar`). It is checked with months of two, one
and three days, days of two hours and hours of two seconds of two ticks.
`PartitionsAgree` says, for every moment and every pair of moments: boundaries
contain their timestamps, but for the last second of an hour or a day, and agree
with those read off the path; a listing holds nothing outside the range, and
everything in it but perhaps the last partition; a cleanup of hours, of days, or of
months that are no longer than its allowance keeps all that is younger than the
retention. It asserts none of the exceptions: `PartitionsListed`, what the docstring
says of the last partition, is a property of its own, and `partitions_listed` finds
it violated by a range from a late hour of one day to an early hour of the next.
What happens to longer months is in section 12.

`Partitions_agree` (`ComponentsProofs`) proves it for every calendar that satisfies
`Calendar`, all of its moments and every retention. Everything rests on the last
whole number of steps up to a moment (`Floor`): the fields of a datetime put
together are the floor in hours or days (`DateTimeIs`); two moments have one path
exactly when they have one floor (`DayPath`, `HourPath`) or lie in one month; and
for the day of a moment the listing visits that day at the hour it started, which
is inside the range unless the day is the last and the range ends at an earlier
hour (`DayVisited`). That exception is therefore the only one.

`PartitionMetadata.tla` keeps `store` and the file `saved`. An update leaves lists
where it found sets; the next one for the same key raises after it has widened
the bounds. `NothingSkipped`: whatever updates raised before, every point of an
update that returned is found by each query it satisfies, after a restart too.
Three updates of one or two points over two partitions and two keys. It is proved
for any points, timestamps and paths (`Metadata_skips_nothing`): the entry of a
partition only grows, whether the update that changes it ends or raises
(`EntryGrows`), and what an update returned for is covered by the entry in memory
and by the one in the file whenever the file holds a store (`MetadataInv`), so a
restart changes nothing.

## 9. Codecs, documents and lines

`Codecs.tla`, `Serialization.tla` and `LineProtocol.tla` have no state: they are
functions, and the properties are about every input up to a length.
`Algorithms.tla` grows an input by one element a step, so that a
counterexample is a shortest one; it states the properties that are proved of
every list, `MCAlgorithms.tla` the others.

- `CodecsReadBack`. A byte is a number, a varint has base 2 instead of 128 and at
  most three bytes instead of ten, so that differences that do not fit occur. A
  payload cut anywhere raises or gives a prefix.
- `BatchReadsBack`. The values of a batch come back with their types (a `bool` is
  an `int` in Python), and none of the damaged documents is read as a batch. The
  checksum is the content: MD5 is taken to tell texts apart. `Batches_read_back`
  proves it for every list of data points: conversion by the type written beside a
  value undoes what wrote it (`PointReadBack`), and the reference of a point is the
  number of distinct tags before the first point with its own (`OpenerOf`), which
  makes references and distinct tags correspond (`TagsComeBack`).
- `LineReadsBack`. A line is cut by three patterns, which are modelled by where
  they match. A string field comes back with its escapes; tag values come back as
  they were unless they hold a quote or a backslash or end in a space. Timestamps
  have a digit for each unit; 17 moments around the powers of ten.

## 10. Queries

`Statistics.tla` holds what computes on lists of values: the streaming
aggregators, windows, the exact percentile and the histogram, rates and
increases. `QueryExecution.tla` has the predicates with their pushdown, the
execution engine and the group engine on points; `QueryPlan.tla` the four
rewrites and the cost; `QueryParser.tla` the tokens and the parser.

- `WindowsTile`: as long as no step of the arithmetic rounds (`NoRounding`), each
  timestamp is counted in the one window that holds it, windows do not overlap, and
  the loop that fills the gaps ends and leaves none. Times and intervals are floats
  in the code, so the model rounds after every step (`Rounded`), and the loop is a
  loop. Without the condition the model shows what floats do: a timestamp behind the
  end of its window, windows that overlap, a loop that does not end (section 12).
- `PercentilesAgree`: the histogram's answer and the exact percentile differ by at
  most half a bucket and the gap between the two values the exact one interpolates
  between. The gap is needed: of 0 and 11 the middle is 5.5, and the histogram
  answers with the bucket of 0 (section 12). Values outside the range of the
  histogram are inputs, and count as its nearest end.
- `IncreaseAddsUp`: the increase of a counter is its last value less its first and
  what its resets lost, and the rates over the gaps add up to it.

  These three are theorems of `InputsSpec`, for every list:
  - `Timestamps_tiled`: without rounding, starts of windows are whole numbers of
    intervals apart (`StartOf`, `GridApart`), and a timestamp has the start of the
    window that holds it (`WindowExact`, `WindowHolds`), also before the origin, as
    `//` rounds down; the loop goes through the starts one by one (`FillIs`).
  - `Percentiles_agree`: the histogram's answer is the middle of the bucket of the
    value at the rank (`BucketIs`, `BucketOfRank`), because buckets grow with values
    and the number of values up to a bucket is a rank in the sorted list
    (`SortingOf`). That rank is one of the two between which the exact percentile
    interpolates (`RankIsRead`), so half a bucket and their gap is the most the two
    can differ (`NearNeighbour`). A value has the bucket of the end it is moved to
    (`ClampedBucket`), and the exact percentile grows with its percentage (`ExactGrows`).
  - `Increases_add_up`: the loops of `rate` and `total_increase` are recursive
    functions, which exist as a set of finite prefixes (`LoopRuns`); the sum over
    the gaps of a counter is then compared turn by turn with the sum of its
    instant rates (`IncreaseIs`, `GapSumGrows`).
- `OneAnswer`: a predicate whose tag part is pushed down answers as the whole does,
  unless it is an "and" of which one child raises and another is false: pushed down,
  the tag children come first, so one that raises is no longer behind a false one
  (then only the pushed one raises), or one that is false shields a child that raised
  before it (then only the whole one raises). Nothing else may differ, and both cases
  occur in the run (section 12). The engine, the aggregators and the group engine
  agree on values that are finite; groups are the union of their windows.
- `PlanKept`: which stages are left and in which order; when as many rows come
  out, and when the plan costs no more. The conditions are needed: section 12.
- `ParsesExactly`: what the parser accepts is written back as the same tokens, and
  one more condition or tag is accepted; the tokens hold every character.

Floats are exact fractions, but for windows: there they are the multiples of a unit
that a mantissa of three bits can hold, rounded to even, so that all up to 8
(`Exact`) are floats and 9 is not; in the code these are 2^53 units. The theorem is
for any `Rounded` that leaves what is up to `Exact` alone. Bounds: points over three moments, two tags and two
fields with numbers, NaN, booleans and strings, three a list; five stages after
the scan; token lists of up to 20, grown only where they can still become a query.

## 11. Requests and the server

`Requests.tla` is the text: what `Client.write` sends and `handle_request` makes of
it, rows as `Client.query` reads them, and `protocol.py`. `TextsCarried` puts a text
of up to four characters (letters, digits, separators, a line break) in every
place of a point and of a row: what holds no separator arrives as it was, a point
without tags or fields is refused.

`Service.tla` is the life of the server.

| Variable | Code |
|---|---|
| `running`, `sock` | `self._running`, whether `self._sock` is set |
| `listener` | the socket itself: a close while a thread is in `accept` leaves it `dying` |
| `server`, `interrupted` | where the main thread is; a `KeyboardInterrupt` |
| `stops[s]` | where each caller of `stop` is |
| `db` | the storage manager is open |
| `link`, `thread`, `request`, `sent`, `rows` | a client's connection, its thread, the request it waits for, what a query read |
| `lines` | the partition file, as in `JsonLines`; a server starts with what earlier processes left |
| `acked`, `hidden` | history: points that answers OK wrote or showed; points written while the file had a line that does not parse |

Actions are the steps another thread can come between: every statement of
`serve_forever` and of `stop`, and in a connection thread the receipt, the test of
`write_points` before its lock, the write, the answer. A request is read whole
here (its framing is `Connection`), and the manager is open or closed (its inside
is `StorageManager`). `OSError` breaks the loop, `AttributeError` of a socket set to
`None` leaves it through the `finally`.

- `StoppedIsClosed`: whatever calls of `stop` overlap, with an interrupt and with
  the one in the `finally`, the database is closed once they are over.
- `AckedIsRead`: what one client was told, a write answered OK or rows it read, is in
  every later answer of any client until the database is closed, also when writes
  fail in between and leave part of a line. Exempt is a point written when the file
  already had a line that does not parse: the write is answered OK and no query ever
  returns it (section 12).
- `Answered`: nobody stays in the backlog; a request that can be decoded is answered
  unless its client leaves or the process ends, also while the server stops.
- `StopsOrBlocks`: after a stop the loop ends, or stays in an `accept` nobody
  connects to. `StopEnds`, without the second case, is what the comments say and is
  violated (`service_stops`).

Fairness (`FairService`): threads are scheduled. Nobody has to call `stop`, connect,
send or leave; that a close wakes a thread in `accept`, as on some systems, is
allowed and not assumed. Bounds: two clients with one request each out of a write,
one that is not UTF-8, a query and a write whose timestamp is no number; a file with
one point, or with a point and a torn line behind it; one caller of `stop` beside the
main thread; one interrupt. That is enough for three
overlapping closes and for a write that is stored after the database was closed.

Proofs. `ServiceProofs.tla` proves the type invariant, `StoppedIsClosed` and
`AckedIsRead` for any number of clients, requests and callers of `stop`. The
invariant `IInv` has three parts: the types; `Handling`, a thread handles the request
its client waits for, and answers OK to a write only with the point `Kept`, readable
or `hidden`; and `Closing`. `ReadInv`, on top, says that the rows about to be shown
and the points told are kept: a file only grows at its end, and the lines in front of
the first that does not parse stay. `Closing` is what makes `StoppedIsClosed` inductive: while the database is
open, the socket is forgotten and a call is about to close `None`, some other call is
on its way to `shutdown` (`SomeoneCloses`). A call that raises `AttributeError` found
`_sock` forgotten by such a call, and `_sock` is never set again.

## 12. Divergences seen without a run

Each was met while modelling, and is left to this list because it follows from
one line, or because the run would repeat another:

- `cleanup_old_data` unlinks on a scan it made earlier without a lock; a late
  point appended in between is dropped although it has not expired
  (`src/tsdb/storage/storage_manager.py:742`, comment at `:726`).
- `write_points` tests `running` before it takes the lock; a call that waited
  stores its points after `shutdown` returned (`:385`, docstring at `:788`).
- After a restart the data is readable and no measurement is listed: `initialize`
  starts with an empty index (`:340`), and `list_measurements` says "List all
  measurements in storage" (`:623`; `src/tsdb/database.py:121` says the same).
- A failed write leaves its measurement listed with no data (`:444`).
- A point written right behind a torn line is glued to it and no longer parses; its
  batch is reported SUCCESS all the same (`src/tsdb/storage/write_ops.py:371`, and
  `src/tsdb/storage/storage_manager.py:474` for `write_points`).
- `write_batch(atomic=True)` undoes nothing when a partition fails
  (`src/tsdb/storage/write_ops.py:185`, docstring at `:266`).
- `with_partition_interval` offers `1w` ("1h, 1d, 1w, 1M", `src/tsdb/storage/storage_manager.py:862`);
  the configuration it builds refuses it.
- `write_with_retry` writes a batch again that failed for a validation error only
  (`:656`, docstring at `:647`).
- `replay_wal` reads `wal_*.wal`, which leaves `current.wal` out (`:507`,
  docstring at `:494`).
- Once `wal_10.wal` exists every rotation renames over it (`:458`).
- A torn line of `updates.log` makes it unreadable as a whole
  (`src/tsdb/index/index_persistence.py:199`). If the line was cut exactly before its
  newline, a restart still reads it, and the next `append_update` that *returns*
  glues its own to it and makes the log unreadable (`:184`; the docstring calls
  appending "crash-safe-ish; you replay these on top of the last full snapshot").
- A request that is not UTF-8 gets no answer, not even an error: the exception
  leaves `_handler` (`src/tsdb/service.py:46`) and the connection is closed.
- A log entry holds the digest of itself without one; `replay_wal` computes it with
  the digest in place (`src/tsdb/storage/write_ops.py:518`), so it rejects every entry
  and then removes the files (`:548`); the docstring has it verify and re-execute
  (`:495`).
- The temporary file of `FileManager` has one name (`src/tsdb/storage/file_operations.py:130`):
  two writers of a measurement lose an update or rename each other's file; the
  docstring says "Handle concurrent writes safely" (`:96`).
- `list_measurements` of `FileManager` takes `_metrics` out of the middle of a name too
  (`:215`).
- `get_partition_boundaries` leaves the last second of an hour or day out, and for a
  week returns a name that was never bound (`src/tsdb/storage/partitioning.py:142`);
  `list_partitions_in_range` never ends for weeks (`:174`). `read_data_points` misses
  the last day of a range for the same reason as the run `partitions_listed`.
- `optimize_partition_interval` recommends hours for high write rates ("Higher write rates
  prefer larger partitions", `:424`), and as the first of equal votes wins, fewer queries
  can turn its advice from days to hours (votes day, hour, day, hour against day,
  hour, month, hour).
- `cleanup_old_partitions` counts a month as 30 days: of one with 31, a day may be
  dropped that is younger than the retention (`:327`). The docstring has it "Be safe -
  don't delete recent data by mistake" (`:304`), and the comment on the line before
  "to be safe we consider month as 31 days" (`:326`).
- The second update of a partition with a tag key it knows raises `AttributeError`
  (`:625`) with bounds and count already changed; `json.dump` of a set leaves a file
  that does not load (`:570`, "Persist metadata to disk").
- `add_block` inserts before blocks of the same start and breaks the order of
  `add_blocks` for them (`src/tsdb/index/time_index.py:61`).
- `IndexedReader` with neither tags nor a range reads no location at all
  (`src/tsdb/index/read_ops.py:88`, docstring at `:55`).
- An entry added directly to the inner index of a location that has a filter is
  skipped by `lookup_with_skip` (`src/tsdb/index/index_optimization.py:148`).
- `load_time_index` returns dictionaries "ready to feed" `add_blocks`
  (`src/tsdb/index/index_persistence.py:88`), which unpacks each into the names of its
  three keys.
- Strings in line protocol come back with their escapes, a tag value that ends in a
  space loses it, and a time before September 2001 is refused, or read
  in another unit, (`src/tsdb/storage/line_protocol.py:345`).
- The optimizer moves filters across `LIMIT`, `GROUP` and `AGGREGATE`, which changes
  what they filter, and may raise the cost it is judged by
  (`src/tsdb/query/optimization.py:181`, "Lower total = better plan").
- `window_start` of floats: `1.0 // 0.1` is 9, so 1.0 with an interval of 0.1 falls
  into the window that starts at 0.9 and ends at 1.0 ("Windows are half-open",
  `src/tsdb/query/time_windows.py:55`). `w += interval` adds up other numbers than
  `bucket * interval` (0.6 and 0.6000000000000001), so filled windows overlap those
  that hold points (`:135`); and once the interval is less than half the distance of
  two floats at `w`, the loop does not end.
- The middle of a bucket "keeps error within half a bucket width"
  (`src/tsdb/query/percentiles.py:86`): not against `exact_percentile`, which
  interpolates. Of 0 and 11 the 50th percentile is 5.5, and the histogram answers with
  the first bucket.
- `split_for_pushdown` is to "only push down the easy, safe case"
  (`src/tsdb/query/basic_filtering.py:126`). An "and" of a false field comparison and a
  tag compared with a number is false as a whole and raises `TypeError` once the tag
  part comes first (`:143`).
- The engine sorts rows whose tag is missing against strings and answers 500
  (`src/tsdb/server/execution_engine.py:155`); it aggregates NaN, which the aggregators
  of `query/` skip. Percentile 0 of a histogram is its first bucket, empty or not.
- `Client.write` of a point without tags is always refused with 400; a timestamp
  that is no number is a 500 (`src/tsdb/server/error_handling.py:91`).
- A write answered OK behind a torn or unparsable line is in no later query: the
  new line is glued to the torn one, and `read_points` stops at the first line that
  does not parse (`src/tsdb/storage/storage_manager.py:477`, `:584`).
- A query on a database that is closed answers OK with no rows
  (`src/tsdb/storage/storage_manager.py:564`).
- A `stop` before `serve_forever` is in its loop is undone by `_running = True`
  (`src/tsdb/service.py:69`): the server then listens in front of a closed database.
- Of two overlapping calls of `stop` one may raise `AttributeError`
  (`src/tsdb/service.py:97`).

## 13. The runs

| Run | Module, configuration | Question | Result |
|---|---|---|---|
| `storage_work` | `MCStorageManager`, `StorageWork.cfg` | is what was acknowledged kept until it expires, and listed; does a read without a lock miss anything | holds |
| `storage_returns` | `MCStorageManager`, `StorageReturns.cfg` | do writes return | holds |
| `batch_log` | `MCBatchWriter`, `BatchLog.cfg` | are acknowledged batches stored, groups contiguous, and everything stored in the log first | holds |
| `batch_returns` | `MCBatchWriter`, `BatchReturns.cfg` | do batches return | holds |
| `cache_lost` | `MCWriteCache`, `CacheLost.cfg` | is what leaves the cache written | violated |
| `cache_blocks` | `MCWriteCache`, `CacheBlocks.cfg` | does `add_points` return | violated |
| `components` | `MCComponents`, `Components.cfg` | do searches and indexed reads miss anything; do files follow the index in memory; is a cached point written once; is a file whole; do metadata and ids hide or confuse anything | holds |
| `connection` | `MCConnection`, `Connection.cfg` | are frames handled whole, in order and answered | holds |
| `service` | `MCService`, `Service.cfg` | is the database closed after stop, is what a client was told in every later answer, are requests answered, does the loop end or wait for a client | holds |
| `service_stops` | `MCService`, `ServiceStops.cfg` | does the loop end after stop | violated |
| `algorithms` | `MCAlgorithms`, `Algorithms.cfg` | do the functions without state read back what they write, and agree with each other | holds |
| `partitions_listed` | `MCAlgorithms`, `PartitionsListed.cfg` | is every partition that overlaps a range listed | violated |

`components` puts six components that share no state into one run: `subject` says
which of them moves. `algorithms` does so for functions and their inputs. Deadlock
is not checked where the calls are bounded and the program then rests.

## 14. The proofs

| Module | Theorems | Argument |
|---|---|---|
| `StorageManagerProofs` | `TypeCorrect`, `Retention_of_acknowledged`, `Complete_reads`, `Session_is_listed` | section 2 |
| `BatchWriterProofs` | `TypeCorrect`, `Acknowledged_are_stored`, `Replay_stores_nothing`, `Logged_first`, `Group_together` | section 3 |
| `IndexPersistenceProofs` | `TypeCorrect`, `Nothing_to_lose`, `Implements` | section 5 |
| `ConnectionProofs` | `TypeCorrect`, `Inductive`, `Implements` | section 6 |
| `IndexReadsProofs` | `Search_is_complete`, `Reads_are_complete`, `Filter_skips_nothing`, `Ranges_in_order` | section 7 |
| `ComponentsProofs` | `Cache_type_correct`, `Written_once` | section 4 |
| | `Ids_follow_keys`, `Series_identified` | section 7 |
| | `File_intact`, `Partitions_agree`, `Ranges_agree`, `Metadata_skips_nothing` | section 8 |
| | `Batches_read_back` | section 9 |
| | `Windows_tile`, `Timestamps_tiled`, `Percentiles_agree`, `Increases_add_up` | section 10 |
| `ServiceProofs` | `TypeCorrect`, `Stopped_is_closed`, `Acknowledged_are_read` | section 11 |
| `JsonLinesProofs` | lemmas about appending to a file with a torn end | |

They hold for every value of the constants under the named assumptions of the
modules. Only model-checked: liveness (`WritesReturn`, `CallsReturn`, `Answered`,
`StopsOrBlocks`), which is out of the prover's reach under fairness; the functions
that parse or encode by recursive operators, which need induction over data
(`CodecsReadBack`, `LineReadsBack`, `TextsCarried`, `ParsesExactly`); and those that
compute with folds over selected and sorted lists (`OneAnswer`, `PlanKept`).

Where a proof needs an induction over the naturals, it takes the least
counterexample instead, which exists because the order of the naturals is
well-founded (`Reached`, `LeastOfNaturals`). So it is for the least element of a
finite set of integers, which the bounds of a partition need (`EndsOf`), and for
what a loop has computed after each turn (`LoopRuns`).

## 15. Not modelled

- `src/exercises` and `src/labs`, two thirds of the lines of the repository: weeks 1
  to 4 of the exercises hold the modules of the package word for word, with tests
  and notes; weeks 5 and 6 and the labs time the package and print reports. What is
  said of a module here is true of its copy.
- Configuration and its builder, `StorageStats`, `WriteStats` and `monitoring.py`:
  counters and settings that nothing reads back.
- `health_check`, `get_storage_stats`, `list_measurements` of `FileManager`, `stats` and
  `cardinality` of the indexes, `analyze_compression_potential`,
  `optimize_partition_interval`, `optimize_batch_size`: reports and advice from a scan.
- `compact_partitions`, `backup_metadata`, `restore_metadata`: empty.
- `TimeSeriesCompressor`: `zlib` over `json`.
- Benchmarks and the demonstrations at the end of modules.
- Weeks as partition intervals: their boundaries raise, their listing does not end.
- Power loss: nothing is synced but the write-ahead log, and the repository does not
  claim otherwise.
- Network buffers: a peer that sends ahead and never reads can block a connection
  thread in `sendall`.

## 16. What could come next

1. An abstract append-only file that `FileManager` and the partition files of
   `StorageManager` implement.
2. The configuration as a round trip with its two lists of defaults.
