-------------------------- MODULE BatchWriterProofs --------------------------
(***************************************************************************)
(* Proofs about BatchWriter, for every set of threads, points, partitions  *)
(* and batches and for every bound.                                        *)
(***************************************************************************)
EXTENDS BatchWriter, JsonLinesProofs, FiniteSetTheorems

-----------------------------------------------------------------------------
(* The inductive invariant *)

\* What is on a line of its own, or was glued to a torn one.
Held == {p \in Point : InPartition(p) \/ p \in glued}

Inside == {"log", "logging", "locking", "storing"}

\* The points of the group at hand that have left pend.
Written(x) == {i \in x.valid : PartitionOf[x.batch[i]] = x.at} \ x.pend

\* Every valid point of a call is not reached, in the group at hand, or in a
\* group that is done; what is stored, of a done group or of this one, is held.
CallOK(x, held) ==
    /\ x.pc # "idle" => x.batch \in Batches
    /\ x.valid \subseteq DOMAIN x.batch /\ x.rest \subseteq x.valid
    /\ x.pend \subseteq x.valid /\ x.ok \subseteq x.valid
    /\ x.pc \in Inside => x.at \in Partition /\ \A i \in x.pend : PartitionOf[x.batch[i]] = x.at
    /\ x.pc \notin Inside => x.at = NoPart
    /\ \A i \in x.valid : i \in x.rest \cup x.ok \cup x.bad \/ PartitionOf[x.batch[i]] = x.at
    /\ \A i \in x.ok \cup Written(x) : x.batch[i] \in held

\* A replay reads files that exist, and never writes: no entry is verified.
ReplayInv ==
    /\ rep.todo \cup rep.done \subseteq DOMAIN segments
    /\ u[Replayer] = IdleCall

IInv ==
    /\ TypeOK
    /\ ReplayInv
    /\ \A t \in Threads : CallOK(u[t], Held)
    /\ acked \subseteq Held

-----------------------------------------------------------------------------
(* Lines and entries *)

LEMMA TypeLines ==
    /\ Point \cup {Torn, Bad} = LinesOf(Point)
    /\ EntryType \cup {Torn, Bad} = LinesOf(EntryType)
BY DEF LinesOf

LEMMA BatchType ==
    ASSUME NEW b \in Batches \cup {<<>>}
    PROVE  /\ b \in Seq(Point)
           /\ DOMAIN b \subseteq Nat
           /\ \A i \in DOMAIN b : b[i] \in Point /\ PartitionOf[b[i]] \in Partition
<1>1. b \in Seq(Point)
  <2>1. Batches \subseteq Seq(Point)
    BY WriterAssumption, Zenon DEF WriterAssumption
  <2>2. <<>> \in Seq(Point)
    OBVIOUS
  <2> QED BY <2>1, <2>2
<1>2. PartitionOf \in [Point -> Partition]
  BY WriterAssumption
<1> QED BY <1>1, <1>2

\* Files whose lines with a point stay as they are hold what they held.
LEMMA HeldGrows ==
    ASSUME glued \subseteq glued', glued' \subseteq Point,
           \A q \in Partition : \A i \in DOMAIN part[q] :
              part[q][i] \in Point => i \in DOMAIN part'[q] /\ part'[q][i] = part[q][i]
    PROVE  Held \subseteq Held'
<1> SUFFICES ASSUME NEW p \in Point, InPartition(p) PROVE InPartition(p)'
  BY DEF Held
<1>1. PartitionOf[p] \in Partition
  BY WriterAssumption
<1> QED BY <1>1 DEF InPartition

\* Appending a point to its file keeps all others, and the point itself.
LEMMA AppendKeeps ==
    ASSUME TypeOK, NEW p \in Point,
           part' = [part EXCEPT ![PartitionOf[p]] = AppendLine(@, p)],
           glued' = IF Endless(part[PartitionOf[p]]) THEN glued \cup {p} ELSE glued
    PROVE  /\ part' \in [Partition -> Seq(Point \cup {Torn, Bad})] /\ glued' \in SUBSET Point
           /\ Held \subseteq Held' /\ p \in Held'
<1> DEFINE q == PartitionOf[p]
           ls == part[q]
<1>0. q \in Partition /\ Torn \notin Point /\ part \in [Partition -> Seq(Point \cup {Torn, Bad})]
  BY WriterAssumption DEF TypeOK
<1>1. ls \in Seq(LinesOf(Point))
  BY <1>0, TypeLines
<1>2. /\ AppendLine(ls, p) \in Seq(Point \cup {Torn, Bad})
      /\ \A i \in DOMAIN ls :
            /\ i \in DOMAIN AppendLine(ls, p)
            /\ \/ AppendLine(ls, p)[i] = ls[i]
               \/ ls[i] = Torn /\ AppendLine(ls, p)[i] = Bad
  BY <1>1, TypeLines, AppendLineKeeps
<1>3. part'[q] = AppendLine(ls, p) /\ \A k \in Partition \ {q} : part'[k] = part[k]
  BY <1>0
<1>4. part' \in [Partition -> Seq(Point \cup {Torn, Bad})] /\ glued' \in SUBSET Point
  BY <1>0, <1>2 DEF TypeOK
<1>5. Held \subseteq Held'
  <2>1. glued \subseteq glued' /\ glued' \subseteq Point
    BY <1>4
  <2>2. ASSUME NEW k \in Partition, NEW i \in DOMAIN part[k], part[k][i] \in Point
        PROVE  i \in DOMAIN part'[k] /\ part'[k][i] = part[k][i]
    BY <1>0, <1>2, <1>3, <2>2
  <2> QED BY <2>1, <2>2, HeldGrows
<1>6. p \in Held'
  <2>1. CASE Endless(ls)
    BY <2>1 DEF Held
  <2>2. CASE ~Endless(ls)
    <3>1. part'[q] = Append(ls, p)
      BY <1>3, <2>2 DEF AppendLine
    <3>2. Len(ls) + 1 \in DOMAIN Append(ls, p) /\ Append(ls, p)[Len(ls) + 1] = p
      BY <1>1
    <3> QED BY <3>1, <3>2 DEF Held, InPartition
  <2> QED BY <2>1, <2>2
<1> QED BY <1>4, <1>5, <1>6

\* Torn appends keep every point.
LEMMA TornKeeps ==
    ASSUME TypeOK, NEW Q, glued' = glued,
           part' = [q \in Partition |-> IF q \in Q THEN AppendTorn(part[q]) ELSE part[q]]
    PROVE  /\ part' \in [Partition -> Seq(Point \cup {Torn, Bad})]
           /\ Held \subseteq Held'
<1>1. ASSUME NEW q \in Partition
      PROVE  /\ AppendTorn(part[q]) \in Seq(Point \cup {Torn, Bad})
             /\ \A i \in DOMAIN part[q] :
                   i \in DOMAIN AppendTorn(part[q]) /\ AppendTorn(part[q])[i] = part[q][i]
  <2>1. part[q] \in Seq(LinesOf(Point))
    BY TypeLines DEF TypeOK
  <2> QED BY <2>1, TypeLines, AppendTornKeeps
<1>2. part' \in [Partition -> Seq(Point \cup {Torn, Bad})]
  BY <1>1 DEF TypeOK
<1>3. Held \subseteq Held'
  <2>1. \A q \in Partition : part'[q] \in {part[q], AppendTorn(part[q])}
    OBVIOUS
  <2>2. glued \subseteq glued' /\ glued' \subseteq Point
    BY DEF TypeOK
  <2> QED BY <1>1, <2>1, <2>2, HeldGrows
<1> QED BY <1>2, <1>3

\* A call keeps its invariant when the files keep their points.
LEMMA CallGrows ==
    ASSUME NEW x, NEW held, NEW new, CallOK(x, held), held \subseteq new
    PROVE  CallOK(x, new)
BY DEF CallOK

LEMMA EntryTyped ==
    ASSUME NEW x \in CallType, x.batch \in Batches, x.pend \subseteq DOMAIN x.batch
    PROVE  Entry(x) \in EntryType
<1>1. Entry(x) = [batch |-> x.batch, rows |-> x.pend,
                  checksum |-> <<x.batch, x.pend, <<>>>>]
  BY DEF Entry, Digest
<1>2. x.pend \in SUBSET Nat
  BY DEF CallType
<1> QED BY <1>1, <1>2 DEF EntryType

\* What was written to a log entry's checksum is never the digest of the entry
\* that holds it.
LEMMA NeverVerified ==
    ASSUME NEW e \in EntryType
    PROVE  ~Verified(e)
<1>1. e.checksum[3] = <<>>
  BY DEF EntryType
<1>2. Digest(e)[3] = e.checksum /\ Len(e.checksum) = 3
  BY DEF EntryType, Digest
<1>3. e.checksum # <<>>
  BY <1>2
<1> QED BY <1>1, <1>2, <1>3 DEF Verified

LEMMA PointsTyped ==
    ASSUME NEW ls \in Seq(EntryType \cup {Torn, Bad})
    PROVE  PointsIn(ls) \subseteq Point
<1>1. ASSUME NEW e \in EntryType PROVE EntryPoints(e) \subseteq Point
  BY BatchType DEF EntryPoints, EntryType
<1>2. \A i \in DOMAIN ls : ls[i] \notin {Torn, Bad} => ls[i] \in EntryType
  OBVIOUS
<1> QED BY <1>1, <1>2 DEF PointsIn

LEMMA LogTyped ==
    ASSUME NEW ls \in Seq(EntryType \cup {Torn, Bad})
    PROVE  /\ AppendTorn(ls) \in Seq(EntryType \cup {Torn, Bad})
           /\ \A e \in EntryType : AppendLine(ls, e) \in Seq(EntryType \cup {Torn, Bad})
<1>1. ls \in Seq(LinesOf(EntryType))
  BY TypeLines
<1> QED BY <1>1, TypeLines, AppendTornKeeps, AppendLineKeeps

-----------------------------------------------------------------------------
(* One call *)

LEMMA IdleOK == IdleCall \in CallType /\ \A ls : CallOK(IdleCall, ls)
BY DEF IdleCall, CallType, CallModes, CallOK, Inside, Written

LEMMA BeginOK ==
    ASSUME NEW b \in Batches, NEW mode \in Modes, NEW ls,
           NEW x, x = [pc |-> "next", batch |-> b, mode |-> mode, valid |-> Valid(b),
                       rest |-> Valid(b), at |-> NoPart, pend |-> {}, ok |-> {},
                       bad |-> {}, tries |-> 0, last |-> 0]
    PROVE  x \in CallType /\ CallOK(x, ls)
<1>1. mode \in CallModes
  BY WriterAssumption, Zenon DEF WriterAssumption
<1>2. Valid(b) \subseteq DOMAIN b /\ DOMAIN b \subseteq Nat
  BY BatchType DEF Valid
<1>4. x \in CallType
  BY <1>1, <1>2 DEF CallType
<1>5. CallOK(x, ls)
  <2>1. /\ x.pc = "next" /\ x.batch = b /\ x.valid = Valid(b) /\ x.rest = Valid(b)
        /\ x.at = NoPart /\ x.pend = {} /\ x.ok = {} /\ x.bad = {}
    OBVIOUS
  <2>2. \A i \in Valid(b) : PartitionOf[b[i]] # NoPart
    <3>1. \A i \in DOMAIN b : PartitionOf[b[i]] \in Partition
      BY BatchType
    <3>2. NoPart \notin Partition
      BY WriterAssumption, Zenon DEF WriterAssumption
    <3> QED BY <1>2, <3>1, <3>2
  <2>3. Written(x) = {}
    BY <2>1, <2>2 DEF Written
  <2> QED BY <1>2, <2>1, <2>3 DEF CallOK, Inside
<1> QED BY <1>4, <1>5

LEMMA NextOK ==
    ASSUME NEW x \in CallType, NEW ls, CallOK(x, ls), x.pc = "next",
           NEW q \in Partition, NEW pc \in {"log", "locking"}, NEW y,
           y = [x EXCEPT !.pc = pc, !.at = q, !.pend = Group(x, q),
                         !.rest = @ \ Group(x, q)]
    PROVE  y \in CallType /\ CallOK(y, ls)
<1>1. Group(x, q) \subseteq x.valid /\ x.valid \subseteq Nat
  BY DEF Group, CallType
<1>2. y \in CallType
  BY <1>1 DEF CallType
<1>3. Written(y) = {}
  BY DEF Written, Group, CallType
<1>4. /\ y.pc = pc /\ y.batch = x.batch /\ y.valid = x.valid /\ y.at = q
      /\ y.pend = Group(x, q) /\ y.rest = x.rest \ Group(x, q)
      /\ y.ok = x.ok /\ y.bad = x.bad
  BY DEF CallType
<1>5. x.at = NoPart
  BY DEF CallOK, Inside
<1>6. \A i \in y.valid : i \in y.rest \cup y.ok \cup y.bad \/ PartitionOf[y.batch[i]] = y.at
  <2> SUFFICES ASSUME NEW i \in x.valid
               PROVE  i \in y.rest \cup x.ok \cup x.bad \/ PartitionOf[x.batch[i]] = q
    BY <1>4
  <2>1. i \in x.rest \cup x.ok \cup x.bad \/ PartitionOf[x.batch[i]] = NoPart
    BY <1>5 DEF CallOK
  <2>2. PartitionOf[x.batch[i]] # NoPart
    <3>1. x.batch \in Batches \cup {<<>>} /\ i \in DOMAIN x.batch
      BY DEF CallType, CallOK
    <3> QED BY <3>1, BatchType, WriterAssumption
  <2>3. i \in Group(x, q) => PartitionOf[x.batch[i]] = q
    BY DEF Group
  <2> QED BY <2>1, <2>2, <2>3, <1>4
<1> QED BY <1>1, <1>2, <1>3, <1>4, <1>6 DEF CallOK, Inside, Group

LEMMA InsideOK ==
    ASSUME NEW x \in CallType, NEW ls, CallOK(x, ls), x.pc \in Inside,
           NEW pc \in Inside, NEW n \in Nat, NEW y,
           y = [x EXCEPT !.pc = pc, !.last = n]
    PROVE  y \in CallType /\ CallOK(y, ls)
<1>1. y \in CallType
  BY DEF CallType, Inside
<1>2. /\ y.pc = pc /\ y.batch = x.batch /\ y.valid = x.valid /\ y.at = x.at
      /\ y.pend = x.pend /\ y.rest = x.rest /\ y.ok = x.ok /\ y.bad = x.bad
  BY DEF CallType
<1>3. Written(y) = Written(x)
  BY <1>2 DEF Written
<1>4. x.pc # "idle" /\ pc # "idle"
  BY DEF Inside
<1> QED BY <1>1, <1>2, <1>3, <1>4 DEF CallOK

LEMMA StoreOK ==
    ASSUME NEW x \in CallType, NEW ls, CallOK(x, ls), x.pc \in Inside,
           NEW i \in x.pend, x.batch[i] \in ls, NEW y,
           y = [x EXCEPT !.pend = @ \ {i}]
    PROVE  y \in CallType /\ CallOK(y, ls)
<1>1. y \in CallType
  BY DEF CallType
<1>2. /\ y.pc = x.pc /\ y.batch = x.batch /\ y.valid = x.valid /\ y.at = x.at
      /\ y.pend = x.pend \ {i} /\ y.rest = x.rest /\ y.ok = x.ok /\ y.bad = x.bad
  BY DEF CallType
<1>3. Written(y) \subseteq Written(x) \cup {i}
  BY <1>2 DEF Written
<1> QED BY <1>1, <1>2, <1>3 DEF CallOK

LEMMA StoredOK ==
    ASSUME NEW x \in CallType, NEW ls, CallOK(x, ls), x.pc \in Inside, x.pend = {}
    PROVE  Stored(x) \in CallType /\ CallOK(Stored(x), ls)
<1> DEFINE y == Stored(x)
<1>1. /\ y.pc = "next" /\ y.batch = x.batch /\ y.valid = x.valid /\ y.at = NoPart
      /\ y.pend = {} /\ y.rest = x.rest /\ y.ok = x.ok \cup Group(x, x.at)
      /\ y.bad = x.bad
  BY DEF CallType, Stored
<1>2. Group(x, x.at) \subseteq x.valid /\ x.valid \subseteq Nat
  BY DEF Group, CallType
<1>3. y \in CallType
  BY <1>2 DEF CallType, Stored
<1>4. Written(y) = {}
  <2>1. x.batch \in Batches \cup {<<>>} /\ x.valid \subseteq DOMAIN x.batch
    BY DEF CallType, CallOK
  <2> QED BY <1>1, <2>1, BatchType, WriterAssumption DEF Written
<1>5. Written(x) = Group(x, x.at)
  BY DEF Written, Group
<1>6. \A i \in y.valid : i \in y.rest \cup y.ok \cup y.bad
  BY <1>1 DEF CallOK, Group
<1>7. x.batch \in Batches
  BY DEF CallOK, Inside
<1> HIDE DEF y
<1>8. CallOK(y, ls)
  BY <1>1, <1>2, <1>4, <1>5, <1>6, <1>7 DEF CallOK, Inside
<1> QED BY <1>3, <1>8 DEF y

LEMMA FailedOK ==
    ASSUME NEW x \in CallType, NEW ls, CallOK(x, ls), x.pc \in Inside
    PROVE  Failed(x) \in CallType /\ CallOK(Failed(x), ls)
<1> DEFINE y == Failed(x)
<1>1. /\ y.pc = "next" /\ y.batch = x.batch /\ y.valid = x.valid /\ y.at = NoPart
      /\ y.pend = {} /\ y.rest = x.rest /\ y.ok = x.ok
      /\ y.bad = x.bad \cup Group(x, x.at)
  BY DEF CallType, Failed
<1>2. Group(x, x.at) \subseteq x.valid /\ x.valid \subseteq Nat
  BY DEF Group, CallType
<1>3. y \in CallType
  BY <1>2 DEF CallType, Failed
<1>4. Written(y) = {}
  <2>1. x.batch \in Batches \cup {<<>>} /\ x.valid \subseteq DOMAIN x.batch
    BY DEF CallType, CallOK
  <2> QED BY <1>1, <2>1, BatchType, WriterAssumption DEF Written
<1>5. \A i \in y.valid : i \in y.rest \cup y.ok \cup y.bad
  BY <1>1 DEF CallOK, Group
<1>6. x.batch \in Batches
  BY DEF CallOK, Inside
<1> HIDE DEF y
<1>7. CallOK(y, ls)
  BY <1>1, <1>4, <1>5, <1>6 DEF CallOK, Inside
<1> QED BY <1>3, <1>7 DEF y

LEMMA RetryOK ==
    ASSUME NEW x \in CallType, NEW ls, CallOK(x, ls), x.pc = "next", NEW y,
           y = [x EXCEPT !.rest = x.valid, !.ok = {}, !.bad = {}, !.tries = @ + 1]
    PROVE  y \in CallType /\ CallOK(y, ls)
<1>1. y \in CallType
  <2>1. x.tries + 1 \in Nat /\ x.valid \in SUBSET Nat /\ {} \in SUBSET Nat
    BY DEF CallType
  <2>2. y = [pc |-> x.pc, batch |-> x.batch, mode |-> x.mode, valid |-> x.valid,
             rest |-> x.valid, at |-> x.at, pend |-> x.pend, ok |-> {}, bad |-> {},
             tries |-> x.tries + 1, last |-> x.last]
    BY DEF CallType
  <2> QED BY <2>1, <2>2 DEF CallType
<1>2. /\ y.pc = x.pc /\ y.batch = x.batch /\ y.valid = x.valid /\ y.at = x.at
      /\ y.pend = x.pend /\ y.rest = x.valid /\ y.ok = {} /\ y.bad = {}
  BY DEF CallType
<1>3. Written(y) = Written(x)
  BY <1>2 DEF Written
<1> QED BY <1>1, <1>2, <1>3 DEF CallOK

-----------------------------------------------------------------------------
(* The invariant holds initially and every step keeps it *)

LEMMA InitIInv == Init => IInv
<1> SUFFICES ASSUME Init PROVE IInv
  OBVIOUS
<1>1. TypeOK
  <2>1. u \in [Threads -> CallType]
    BY IdleOK DEF Init
  <2>2. rep \in [pc : {"idle", "reading"}, todo : SUBSET Nat, pos : Nat, done : SUBSET Nat]
    BY DEF Init, IdleReplay
  <2>3. DOMAIN segments = {}
    BY DEF Init
  <2> QED BY <2>1, <2>2, <2>3 DEF Init, TypeOK
<1>2. ReplayInv
  BY DEF Init, ReplayInv, IdleReplay, Threads
<1>3. \A t \in Threads : CallOK(u[t], Held)
  BY IdleOK DEF Init
<1> QED BY <1>1, <1>2, <1>3 DEF Init, IInv

\* A step of one thread keeps the invariants of all calls, and of what was
\* acknowledged, when it keeps its own and the files grow.
LEMMA StepKeeps ==
    ASSUME IInv, NEW t \in Writers, NEW y \in CallType, u' = [u EXCEPT ![t] = y],
           Held \subseteq Held', CallOK(y, Held')
    PROVE  /\ u' \in [Threads -> CallType]
           /\ u'[Replayer] = IdleCall
           /\ \A s \in Threads : CallOK(u'[s], Held')
           /\ acked \subseteq Held'
<1>1. u \in [Threads -> CallType] /\ t \in Threads /\ t # Replayer
  BY WriterAssumption DEF IInv, TypeOK, Threads
<1>2. u'[t] = y /\ \A s \in Threads \ {t} : u'[s] = u[s]
  BY <1>1
<1>3. \A s \in Threads \ {t} : CallOK(u[s], Held')
  BY <1>1, CallGrows DEF IInv
<1>4. acked \subseteq Held'
  BY DEF IInv
<1>5. Replayer \in Threads /\ u[Replayer] = IdleCall
  BY DEF Threads, IInv, ReplayInv
<1> QED BY <1>1, <1>2, <1>3, <1>4, <1>5

LEMMA HeldSame ==
    ASSUME UNCHANGED <<part, glued>>
    PROVE  Held' = Held
BY DEF Held, InPartition

\* Only a writer is ever in a call.
LEMMA InCall ==
    ASSUME IInv, NEW t \in Threads, u[t].pc # "idle"
    PROVE  /\ t \in Writers /\ u[t] \in CallType /\ CallOK(u[t], Held)
           /\ u[t].batch \in Batches /\ u[t].pend \subseteq DOMAIN u[t].batch
<1>1. t \in Writers
  <2>1. IdleCall.pc = "idle"
    BY DEF IdleCall
  <2> QED BY <2>1 DEF IInv, ReplayInv, Threads
<1>2. u[t] \in CallType /\ CallOK(u[t], Held)
  BY DEF IInv, TypeOK
<1>3. /\ u[t].batch \in Batches
      /\ u[t].pend \subseteq u[t].valid /\ u[t].valid \subseteq DOMAIN u[t].batch
  BY <1>2 DEF CallOK
<1> QED BY <1>1, <1>2, <1>3

\* A step of t that leaves the files alone.
LEMMA QuietStep ==
    ASSUME IInv, NEW t \in Writers, NEW y \in CallType, u' = [u EXCEPT ![t] = y],
           CallOK(y, Held), UNCHANGED <<part, glued, segments, names, rep, acked>>,
           partition_locks' \in [Partition -> Threads \cup {Free}],
           wal' \in Seq(EntryType \cup {Torn, Bad}), wal_lock' \in Threads \cup {Free},
           unlogged' \in SUBSET Point,
           calls' \in Nat, faults' \in Nat, replays' \in Nat
    PROVE  IInv'
<1>1. /\ u' \in [Threads -> CallType] /\ u'[Replayer] = IdleCall
      /\ \A s \in Threads : CallOK(u'[s], Held')
      /\ acked \subseteq Held'
  BY StepKeeps, HeldSame
<1>2. TypeOK'
  BY <1>1 DEF IInv, TypeOK
<1> QED BY <1>1, <1>2 DEF IInv, ReplayInv

\* A step of t that leaves the log alone.
LEMMA StoreStepKeeps ==
    ASSUME IInv, NEW t \in Writers, NEW y \in CallType, u' = [u EXCEPT ![t] = y],
           CallOK(y, Held'), Held \subseteq Held',
           part' \in [Partition -> Seq(Point \cup {Torn, Bad})], glued' \in SUBSET Point,
           partition_locks' \in [Partition -> Threads \cup {Free}],
           UNCHANGED <<log, rep, acked, calls, replays>>, faults' \in Nat
    PROVE  IInv'
<1>1. /\ u' \in [Threads -> CallType] /\ u'[Replayer] = IdleCall
      /\ \A s \in Threads : CallOK(u'[s], Held')
      /\ acked \subseteq Held'
  BY StepKeeps
<1>2. TypeOK'
  BY <1>1 DEF IInv, TypeOK, log
<1> QED BY <1>1, <1>2 DEF IInv, ReplayInv, log

LEMMA LocksFree ==
    ASSUME TypeOK, NEW q, partition_locks' = [partition_locks EXCEPT ![q] = Free]
    PROVE  partition_locks' \in [Partition -> Threads \cup {Free}]
BY DEF TypeOK

LEMMA BeginKeeps ==
    ASSUME IInv, NEW t \in Writers, NEW b \in Batches, NEW mode \in Modes,
           BatchBegin(t, b, mode)
    PROVE  IInv'
<1> DEFINE y == [pc |-> "next", batch |-> b, mode |-> mode, valid |-> Valid(b),
                 rest |-> Valid(b), at |-> NoPart, pend |-> {}, ok |-> {},
                 bad |-> {}, tries |-> 0, last |-> 0]
<1>1. u' = [u EXCEPT ![t] = y]
  <2>1. [IdleCall EXCEPT !.pc = "next", !.batch = b, !.mode = mode,
                         !.valid = Valid(b), !.rest = Valid(b)] = y
    <3>1. ASSUME NEW x, x = [IdleCall EXCEPT !.pc = "next", !.batch = b, !.mode = mode,
                                             !.valid = Valid(b), !.rest = Valid(b)]
          PROVE  x = y
      BY <3>1 DEF IdleCall
    <3> QED BY <3>1
  <2> HIDE DEF y
  <2> QED BY <2>1 DEF BatchBegin
<1>2. y \in CallType /\ CallOK(y, Held)
  BY BeginOK
<1>3. calls' \in Nat
  BY DEF BatchBegin, IInv, TypeOK
<1>4. unlogged' \in SUBSET Point
  <2>1. {b[i] : i \in Valid(b)} \subseteq Point
    BY BatchType DEF Valid
  <2> QED BY <2>1 DEF BatchBegin, IInv, TypeOK
<1> HIDE DEF y
<1> QED BY <1>1, <1>2, <1>3, <1>4, QuietStep DEF BatchBegin, store, IInv, TypeOK

LEMMA NextPartitionKeeps ==
    ASSUME IInv, NEW t \in Threads, NextPartition(t)
    PROVE  IInv'
<1>1. /\ t \in Writers /\ u[t] \in CallType /\ CallOK(u[t], Held)
      /\ u[t].batch \in Batches /\ u[t].pc = "next"
  BY InCall DEF NextPartition
<1>2. PICK first \in u[t].rest :
         u' = [u EXCEPT ![t].pc = IF UsesWal(u[t]) THEN "log" ELSE "locking",
                        ![t].at = PartitionOf[u[t].batch[first]],
                        ![t].pend = Group(u[t], PartitionOf[u[t].batch[first]]),
                        ![t].rest = @ \ Group(u[t], PartitionOf[u[t].batch[first]])]
  BY DEF NextPartition
<1>3. PartitionOf[u[t].batch[first]] \in Partition
  <2>1. first \in DOMAIN u[t].batch
    BY <1>1 DEF CallOK
  <2> QED BY <1>1, <2>1, BatchType
<1> DEFINE q == PartitionOf[u[t].batch[first]]
           pc == IF UsesWal(u[t]) THEN "log" ELSE "locking"
           y == [u[t] EXCEPT !.pc = pc, !.at = q, !.pend = Group(u[t], q),
                             !.rest = @ \ Group(u[t], q)]
<1>4. u' = [u EXCEPT ![t] = y]
  BY <1>1, <1>2 DEF IInv, TypeOK
<1>5. y \in CallType /\ CallOK(y, Held)
  <2>1. pc \in {"log", "locking"} /\ q \in Partition
    BY <1>3
  <2> HIDE DEF pc, q
  <2> QED BY <1>1, <2>1, NextOK
<1> HIDE DEF y
<1> QED
  BY <1>1, <1>4, <1>5, QuietStep DEF NextPartition, store, log, counters, IInv, TypeOK

LEMMA LogRaisesKeeps ==
    ASSUME IInv, NEW t \in Threads, LogRaises(t)
    PROVE  IInv'
<1>1. t \in Writers
  BY InCall DEF LogRaises
<1> QED BY <1>1, IdleOK, QuietStep DEF LogRaises, store, log, counters, IInv, TypeOK

LEMMA TakeWalLockKeeps ==
    ASSUME IInv, NEW t \in Threads, TakeWalLock(t)
    PROVE  IInv'
<1>1. /\ t \in Writers /\ u[t] \in CallType /\ CallOK(u[t], Held) /\ u[t].pc = "log"
  BY InCall DEF TakeWalLock
<1>2. PICK n \in DOMAIN segments \cup {0} :
         u' = [u EXCEPT ![t].pc = "logging", ![t].last = n]
  BY DEF TakeWalLock
<1> DEFINE y == [u[t] EXCEPT !.pc = "logging", !.last = n]
<1>3. u' = [u EXCEPT ![t] = y]
  BY <1>1, <1>2 DEF IInv, TypeOK
<1>4. n \in Nat
  BY DEF IInv, TypeOK
<1>5. y \in CallType /\ CallOK(y, Held)
  BY <1>1, <1>4, InsideOK DEF Inside
<1> HIDE DEF y
<1>6. wal_lock' \in Threads \cup {Free}
  BY DEF TakeWalLock
<1> QED
  BY <1>1, <1>3, <1>5, <1>6, QuietStep DEF TakeWalLock, store, counters, IInv, TypeOK

LEMMA RotateWalKeeps ==
    ASSUME IInv, NEW t \in Threads, RotateWal(t)
    PROVE  IInv'
<1>0. names' = names \cup {u[t].last + 1}
  BY Zenon DEF RotateWal
<1>1. u[t].last \in Nat
  BY DEF IInv, TypeOK, CallType
<1> USE DEF RotateWal
<1>2. DOMAIN segments' = DOMAIN segments \cup {u[t].last + 1}
  OBVIOUS
<1>3. \A n \in DOMAIN segments' : segments'[n] \in Seq(EntryType \cup {Torn, Bad})
  BY DEF IInv, TypeOK
<1>4. wal' \in Seq(EntryType \cup {Torn, Bad})
  OBVIOUS
<1>5. TypeOK'
  <2>1. names' \in SUBSET Nat
    <3>1. names \in SUBSET Nat
      BY Zenon DEF IInv, TypeOK
    <3>2. u[t].last + 1 \in Nat
      BY <1>1
    <3> QED BY <1>0, <3>1, <3>2, Zenon
  <2>2. DOMAIN segments' \in SUBSET Nat
    BY <1>1, <1>2 DEF IInv, TypeOK
  <2> QED BY <1>3, <1>4, <2>1, <2>2 DEF IInv, TypeOK, store, counters
<1>6. ReplayInv'
  BY <1>2 DEF IInv, ReplayInv
<1> QED BY <1>5, <1>6, HeldSame DEF IInv, store

LEMMA RotateErrorKeeps ==
    ASSUME IInv, NEW t \in Threads, RotateError(t)
    PROVE  IInv'
<1>1. t \in Writers /\ faults' \in Nat
  BY InCall DEF RotateError, IInv, TypeOK
<1> QED BY <1>1, IdleOK, QuietStep DEF RotateError, store, IInv, TypeOK

\* A whole append, or a failed one, of the entry of t.
LEMMA LoggedKeeps ==
    ASSUME IInv, NEW t \in Threads, u[t].pc = "logging",
           wal' \in Seq(EntryType \cup {Torn, Bad}), wal_lock' = Free,
           unlogged' \in {unlogged, unlogged \cup Pending(u[t])},
           u' = [u EXCEPT ![t].pc = "locking"], faults' \in Nat,
           UNCHANGED <<store, segments, names, rep, acked, calls, replays>>
    PROVE  IInv'
<1>1. /\ t \in Writers /\ u[t] \in CallType /\ CallOK(u[t], Held)
      /\ u[t].batch \in Batches /\ u[t].pend \subseteq DOMAIN u[t].batch
  BY InCall
<1> DEFINE y == [u[t] EXCEPT !.pc = "locking", !.last = u[t].last]
<1>2. u' = [u EXCEPT ![t] = y]
  BY <1>1 DEF IInv, TypeOK, CallType
<1>3. y \in CallType /\ CallOK(y, Held)
  BY <1>1, InsideOK DEF Inside, CallType
<1> HIDE DEF y
<1>4. unlogged' \in SUBSET Point
  <2>1. Pending(u[t]) \subseteq Point
    BY <1>1, BatchType DEF Pending
  <2> QED BY <2>1 DEF IInv, TypeOK
<1> QED BY <1>1, <1>2, <1>3, <1>4, QuietStep DEF store, IInv, TypeOK

LEMMA AppendEntryKeeps ==
    ASSUME IInv, NEW t \in Threads, AppendEntry(t)
    PROVE  IInv'
<1>1. u[t].pc = "logging"
  BY DEF AppendEntry
<1>2. Entry(u[t]) \in EntryType
  BY <1>1, InCall, EntryTyped
<1>3. wal' \in Seq(EntryType \cup {Torn, Bad})
  BY <1>2, LogTyped DEF AppendEntry, IInv, TypeOK
<1> QED BY <1>1, <1>3, LoggedKeeps DEF AppendEntry, counters, IInv, TypeOK

LEMMA LogErrorKeeps ==
    ASSUME IInv, NEW t \in Threads, LogError(t)
    PROVE  IInv'
<1>1. u[t].pc = "logging" /\ faults' \in Nat
  BY DEF LogError, IInv, TypeOK
<1>2. Entry(u[t]) \in EntryType
  BY <1>1, InCall, EntryTyped
<1>3. wal' \in Seq(EntryType \cup {Torn, Bad})
  BY <1>2, LogTyped DEF LogError, IInv, TypeOK
<1> QED BY <1>1, <1>3, LoggedKeeps DEF LogError

LEMMA TakePartitionLockKeeps ==
    ASSUME IInv, NEW t \in Threads, TakePartitionLock(t)
    PROVE  IInv'
<1>1. /\ t \in Writers /\ u[t] \in CallType /\ CallOK(u[t], Held) /\ u[t].pc = "locking"
  BY InCall DEF TakePartitionLock
<1> DEFINE y == [u[t] EXCEPT !.pc = "storing", !.last = u[t].last]
<1>2. u' = [u EXCEPT ![t] = y]
  BY <1>1 DEF TakePartitionLock, IInv, TypeOK, CallType
<1>3. y \in CallType /\ CallOK(y, Held)
  BY <1>1, InsideOK DEF Inside, CallType
<1> HIDE DEF y
<1>4. partition_locks' \in [Partition -> Threads \cup {Free}]
  BY DEF TakePartitionLock, IInv, TypeOK
<1> QED
  BY <1>1, <1>2, <1>3, <1>4, QuietStep DEF TakePartitionLock, log, counters, IInv, TypeOK

LEMMA StorePointKeeps ==
    ASSUME IInv, NEW t \in Threads, StorePoint(t)
    PROVE  IInv'
<1>1. /\ t \in Writers /\ u[t] \in CallType /\ CallOK(u[t], Held) /\ u[t].pc = "storing"
      /\ u[t].batch \in Batches /\ u[t].pend \subseteq DOMAIN u[t].batch
  BY InCall DEF StorePoint
<1>2. PICK i \in u[t].pend :
         /\ part' = [part EXCEPT ![u[t].at] = AppendLine(@, u[t].batch[i])]
         /\ glued' = IF Endless(part[u[t].at]) THEN glued \cup {u[t].batch[i]} ELSE glued
         /\ u' = [u EXCEPT ![t].pend = @ \ {i}]
  BY DEF StorePoint
<1>3. PartitionOf[u[t].batch[i]] = u[t].at /\ u[t].batch[i] \in Point
  <2>1. i \in DOMAIN u[t].batch
    BY <1>1
  <2> QED BY <1>1, <2>1, BatchType DEF CallOK, Inside
<1>4. /\ part' \in [Partition -> Seq(Point \cup {Torn, Bad})] /\ glued' \in SUBSET Point
      /\ Held \subseteq Held' /\ u[t].batch[i] \in Held'
  BY <1>2, <1>3, AppendKeeps DEF IInv, TypeOK
<1> DEFINE y == [u[t] EXCEPT !.pend = @ \ {i}]
<1>5. u' = [u EXCEPT ![t] = y]
  BY <1>1, <1>2 DEF IInv, TypeOK
<1>6. CallOK(u[t], Held')
  BY <1>1, <1>4, CallGrows
<1>7. y \in CallType /\ CallOK(y, Held')
  BY <1>1, <1>4, <1>6, StoreOK DEF Inside
<1> HIDE DEF y
<1> QED
  BY <1>1, <1>4, <1>5, <1>7, StoreStepKeeps DEF StorePoint, counters, IInv, TypeOK

LEMMA CloseFileKeeps ==
    ASSUME IInv, NEW t \in Threads, CloseFile(t)
    PROVE  IInv'
<1>1. /\ t \in Writers /\ u[t] \in CallType /\ CallOK(u[t], Held) /\ u[t].pc = "storing"
  BY InCall DEF CloseFile
<1>2. Stored(u[t]) \in CallType /\ CallOK(Stored(u[t]), Held)
  BY <1>1, StoredOK DEF CloseFile, Inside
<1>3. partition_locks' \in [Partition -> Threads \cup {Free}]
  BY LocksFree DEF CloseFile, IInv
<1>4. u' = [u EXCEPT ![t] = Stored(u[t])]
  BY DEF CloseFile
<1> QED
  BY <1>1, <1>2, <1>3, <1>4, QuietStep DEF CloseFile, log, counters, IInv, TypeOK

LEMMA StoreRaisesKeeps ==
    ASSUME IInv, NEW t \in Threads, StoreRaises(t)
    PROVE  IInv'
<1>1. /\ t \in Writers /\ u[t] \in CallType /\ CallOK(u[t], Held) /\ u[t].pc = "storing"
  BY InCall DEF StoreRaises
<1>2. Failed(u[t]) \in CallType /\ CallOK(Failed(u[t]), Held)
  BY <1>1, FailedOK DEF Inside
<1>3. partition_locks' \in [Partition -> Threads \cup {Free}]
  BY LocksFree DEF StoreRaises, IInv
<1>4. u' = [u EXCEPT ![t] = Failed(u[t])]
  BY DEF StoreRaises
<1> QED
  BY <1>1, <1>2, <1>3, <1>4, QuietStep DEF StoreRaises, log, counters, IInv, TypeOK

LEMMA StoreErrorKeeps ==
    ASSUME IInv, NEW t \in Threads, StoreError(t)
    PROVE  IInv'
<1>1. /\ t \in Writers /\ u[t] \in CallType /\ CallOK(u[t], Held) /\ u[t].pc = "storing"
  BY InCall DEF StoreError
<1>2. /\ part' \in [Partition -> Seq(Point \cup {Torn, Bad})] /\ glued' \in SUBSET Point
      /\ Held \subseteq Held'
  <2>1. /\ TypeOK /\ part \in [Partition -> Seq(Point \cup {Torn, Bad})]
        /\ glued' = glued /\ glued \in SUBSET Point
    BY DEF StoreError, IInv, TypeOK
  <2>2. CASE UNCHANGED part
    BY <2>1, <2>2, HeldSame
  <2>3. CASE part' = [part EXCEPT ![u[t].at] = AppendTorn(@)]
    <3>1. part' = [q \in Partition |-> IF q \in {u[t].at} THEN AppendTorn(part[q])
                                                         ELSE part[q]]
      BY <2>1, <2>3
    <3> QED BY <2>1, <3>1, TornKeeps
  <2> QED BY <2>2, <2>3 DEF StoreError
<1>3. Failed(u[t]) \in CallType /\ CallOK(Failed(u[t]), Held')
  BY <1>1, <1>2, CallGrows, FailedOK DEF Inside
<1>4. partition_locks' \in [Partition -> Threads \cup {Free}]
  BY LocksFree DEF StoreError, IInv
<1>5. u' = [u EXCEPT ![t] = Failed(u[t])] /\ faults' \in Nat
  BY DEF StoreError, IInv, TypeOK
<1> QED
  BY <1>1, <1>2, <1>3, <1>4, <1>5, StoreStepKeeps DEF StoreError

\* What a call reports stored is kept: no group of it failed.
LEMMA ReturnKeeps ==
    ASSUME IInv, NEW t \in Threads, Return(t)
    PROVE  IInv'
<1>1. /\ t \in Writers /\ u[t] \in CallType /\ CallOK(u[t], Held)
      /\ u[t].pc = "next" /\ u[t].rest = {} /\ u[t].batch \in Batches
  BY InCall DEF Return
<1>2. \A i \in u[t].valid : u[t].batch[i] \in Point
  BY <1>1, BatchType DEF CallOK
<1>3. ASSUME Succeeded(u[t]), NEW i \in u[t].valid
      PROVE  u[t].batch[i] \in Held
  <2>1. u[t].bad = {} /\ u[t].at = NoPart
    BY <1>1, <1>3 DEF Succeeded, CallOK, Inside
  <2>2. PartitionOf[u[t].batch[i]] # NoPart
    <3>1. i \in DOMAIN u[t].batch
      BY <1>1 DEF CallOK
    <3>2. PartitionOf[u[t].batch[i]] \in Partition
      BY <1>1, <3>1, BatchType
    <3>3. NoPart \notin Partition
      BY WriterAssumption, Zenon DEF WriterAssumption
    <3> QED BY <3>2, <3>3
  <2>3. i \in u[t].ok
    BY <1>1, <2>1, <2>2 DEF CallOK
  <2> QED BY <1>1, <2>3 DEF CallOK
<1>4. acked' \subseteq Point /\ acked' \subseteq Held
  BY <1>2, <1>3 DEF Return, IInv, TypeOK
<1>5. u' = [u EXCEPT ![t] = IdleCall]
  BY DEF Return
<1>6. /\ u' \in [Threads -> CallType] /\ u'[Replayer] = IdleCall
      /\ \A s \in Threads : CallOK(u'[s], Held')
  BY <1>1, <1>5, IdleOK, StepKeeps, HeldSame DEF Return, store
<1>7. TypeOK'
  BY <1>4, <1>6 DEF Return, IInv, TypeOK, store, log, counters
<1>8. ReplayInv'
  BY <1>6 DEF Return, IInv, ReplayInv, log
<1> QED BY <1>4, <1>6, <1>7, <1>8, HeldSame DEF Return, IInv, store

LEMMA RetryKeeps ==
    ASSUME IInv, NEW t \in Threads, Retry(t)
    PROVE  IInv'
<1>1. /\ t \in Writers /\ u[t] \in CallType /\ CallOK(u[t], Held) /\ u[t].pc = "next"
  BY InCall DEF Retry
<1> DEFINE y == [u[t] EXCEPT !.rest = u[t].valid, !.ok = {}, !.bad = {}, !.tries = @ + 1]
<1>2. u' = [u EXCEPT ![t] = y]
  BY <1>1 DEF Retry, IInv, TypeOK
<1>3. y \in CallType /\ CallOK(y, Held)
  BY <1>1, RetryOK
<1> HIDE DEF y
<1> QED
  BY <1>1, <1>2, <1>3, QuietStep DEF Retry, store, log, counters, IInv, TypeOK

\* The steps of a replay write to no file: it only removes them.
LEMMA ReplayKeeps ==
    ASSUME IInv, ReplayBegin \/ ReplayStep
    PROVE  IInv'
<1> DEFINE RepType == [pc : {"idle", "reading"}, todo : SUBSET Nat, pos : Nat, done : SUBSET Nat]
<1>0. /\ rep \in RepType
      /\ DOMAIN segments \subseteq Nat /\ rep.todo \cup rep.done \subseteq DOMAIN segments
  BY DEF IInv, TypeOK, ReplayInv
<1>6. Held' = Held
  BY HeldSame DEF ReplayBegin, ReplayStep, ReplayLine, ReplayEndOfFile, ReplayRemove,
                  ReplayEnd, store
<1>1. CASE ReplayBegin
  <2>1. rep' = [pc |-> "reading", todo |-> DOMAIN segments, pos |-> 0, done |-> {}]
    BY <1>1 DEF ReplayBegin, IdleReplay
  <2>2. rep' \in RepType /\ replays' \in Nat
    BY <1>0, <1>1, <2>1 DEF ReplayBegin, IInv, TypeOK
  <2>3. rep'.todo \cup rep'.done \subseteq DOMAIN segments
    BY <2>1
  <2> QED
    BY <1>6, <1>1, <2>2, <2>3 DEF ReplayBegin, IInv, TypeOK, ReplayInv, store, log
<1>2. CASE ReplayLine
  <2>1. u' = u
    <3>1. PICK n \in rep.todo :
             /\ rep.pos < Len(segments[n])
             /\ \/ segments[n][rep.pos + 1] \notin {Torn, Bad} /\ Verified(segments[n][rep.pos + 1])
                \/ u' = u
      BY <1>2 DEF ReplayLine
    <3>2. segments[n] \in Seq(EntryType \cup {Torn, Bad})
      BY <1>0 DEF IInv, TypeOK
    <3>3. rep.pos + 1 \in DOMAIN segments[n]
      BY <1>0, <3>1, <3>2
    <3>4. segments[n][rep.pos + 1] \in EntryType \cup {Torn, Bad}
      BY <3>2, <3>3
    <3> QED BY <3>1, <3>4, NeverVerified
  <2>2. rep' = [rep EXCEPT !.pos = @ + 1]
    BY <1>2 DEF ReplayLine
  <2>3. rep' \in RepType /\ rep'.todo = rep.todo /\ rep'.done = rep.done
    BY <1>0, <2>2
  <2> QED
    BY <1>6, <1>2, <2>1, <2>3 DEF ReplayLine, IInv, TypeOK, ReplayInv, store, log, counters
<1>3. CASE ReplayEndOfFile
  <2>1. PICK n \in rep.todo :
           rep' = [rep EXCEPT !.pos = 0, !.todo = @ \ {n}, !.done = @ \cup {n}]
    BY <1>3 DEF ReplayEndOfFile
  <2>2. rep' \in RepType /\ rep'.todo \cup rep'.done \subseteq DOMAIN segments
    BY <1>0, <2>1
  <2> QED
    BY <1>6, <1>3, <2>2 DEF ReplayEndOfFile, IInv, TypeOK, ReplayInv, store, log, counters
<1>4. CASE ReplayRemove
  <2>1. PICK n \in rep.done :
           /\ rep.todo = {}
           /\ segments' = [k \in DOMAIN segments \ {n} |-> segments[k]]
           /\ unlogged' = unlogged \cup PointsIn(segments[n])
           /\ rep' = [rep EXCEPT !.done = @ \ {n}]
    BY <1>4 DEF ReplayRemove
  <2>2. /\ DOMAIN segments' = DOMAIN segments \ {n}
        /\ \A k \in DOMAIN segments' : segments'[k] = segments[k]
    BY <2>1
  <2>3. /\ rep' \in RepType /\ rep'.todo \cup rep'.done \subseteq DOMAIN segments'
    BY <1>0, <2>1, <2>2
  <2>4. unlogged' \in SUBSET Point
    <3>1. segments[n] \in Seq(EntryType \cup {Torn, Bad})
      BY <1>0 DEF IInv, TypeOK
    <3> QED BY <2>1, <3>1, PointsTyped DEF IInv, TypeOK
  <2>5. DOMAIN segments' \in SUBSET Nat
        /\ \A k \in DOMAIN segments' : segments'[k] \in Seq(EntryType \cup {Torn, Bad})
    BY <1>0, <2>2 DEF IInv, TypeOK
  <2> QED
    BY <1>6, <1>4, <2>3, <2>4, <2>5 DEF ReplayRemove, IInv, TypeOK, ReplayInv, store, counters
<1>5. CASE ReplayEnd
  <2>1. IdleReplay \in RepType /\ IdleReplay.todo \cup IdleReplay.done = {}
    BY DEF IdleReplay
  <2> QED
    BY <1>6, <1>5, <2>1 DEF ReplayEnd, IInv, TypeOK, ReplayInv, store, log, counters
<1> QED BY <1>1, <1>2, <1>3, <1>4, <1>5 DEF ReplayStep

LEMMA CrashKeeps ==
    ASSUME IInv, Crash
    PROVE  IInv'
<1>1. wal' \in Seq(EntryType \cup {Torn, Bad})
  BY LogTyped DEF Crash, IInv, TypeOK
<1>2. /\ part' \in [Partition -> Seq(Point \cup {Torn, Bad})]
      /\ Held \subseteq Held'
  <2>1. PICK Q : part' = [q \in Partition |-> IF q \in Q THEN AppendTorn(part[q]) ELSE part[q]]
    BY DEF Crash
  <2> QED BY <2>1, TornKeeps DEF Crash, IInv
<1>3. /\ u' \in [Threads -> CallType] /\ u'[Replayer] = IdleCall
      /\ \A s \in Threads : CallOK(u'[s], Held')
  BY IdleOK DEF Crash, Threads
<1>4. /\ rep' \in [pc : {"idle", "reading"}, todo : SUBSET Nat, pos : Nat, done : SUBSET Nat]
      /\ rep'.todo \cup rep'.done = {}
  BY DEF Crash, IdleReplay
<1>5. acked' \subseteq Held'
  BY <1>2 DEF Crash, IInv
<1>6. TypeOK'
  BY <1>1, <1>2, <1>3, <1>4 DEF Crash, IInv, TypeOK
<1> QED BY <1>3, <1>4, <1>5, <1>6 DEF IInv, ReplayInv

LEMMA NextKeeps ==
    ASSUME IInv, [Next]_vars
    PROVE  IInv'
<1>1. ASSUME NEW t \in Writers, NEW b \in Batches, NEW mode \in Modes, BatchBegin(t, b, mode)
      PROVE  IInv'
  BY <1>1, BeginKeeps
<1>2. ASSUME NEW t \in Threads, LogStep(t)
      PROVE  IInv'
  BY <1>2, LogRaisesKeeps, TakeWalLockKeeps, RotateWalKeeps, AppendEntryKeeps DEF LogStep
<1>3. ASSUME NEW t \in Threads, StoreStep(t)
      PROVE  IInv'
  BY <1>3, TakePartitionLockKeeps, StorePointKeeps, CloseFileKeeps, StoreRaisesKeeps
     DEF StoreStep
<1>4. ASSUME NEW t \in Threads, CallStep(t)
      PROVE  IInv'
  BY <1>2, <1>3, <1>4, NextPartitionKeeps, ReturnKeeps, RetryKeeps DEF CallStep
<1>5. ASSUME NEW t \in Threads, ErrorStep(t)
      PROVE  IInv'
  BY <1>5, RotateErrorKeeps, LogErrorKeeps, StoreErrorKeeps DEF ErrorStep
<1>6. CASE UNCHANGED vars
  <2>1. Held' = Held
    BY <1>6, HeldSame DEF vars, store
  <2> QED BY <1>6, <2>1 DEF vars, store, log, counters, IInv, TypeOK, ReplayInv
<1> QED
  BY <1>1, <1>4, <1>5, <1>6, ReplayKeeps, CrashKeeps DEF Next

-----------------------------------------------------------------------------
(* Theorems *)

\* IInv is an invariant of every execution of the batch writer.
THEOREM Inductive == Spec => []IInv
<1>1. Init => IInv
  BY InitIInv
<1>2. IInv /\ [Next]_vars => IInv'
  BY NextKeeps
<1> QED BY <1>1, <1>2, PTL DEF Spec

\* Every variable of the batch writer keeps its type.
THEOREM TypeCorrect == Spec => []TypeOK
<1>1. IInv => TypeOK
  BY DEF IInv
<1> QED BY <1>1, Inductive, PTL

\* What write_batch or write_with_retry reported SUCCESS for stays on a line of its
\* own in its partition file, whatever other threads, failures and kills do, unless
\* that line was written directly behind one that a failure or a kill left torn.
THEOREM Acknowledged_are_stored == Spec => []AckedStored
<1>1. IInv => AckedStored
  BY DEF IInv, AckedStored, Held
<1> QED BY <1>1, Inductive, PTL

\* replay_wal stores nothing: the digest of an entry never agrees, so no call
\* of write_batch comes from a replay (write_ops.py:515-525).
THEOREM Replay_stores_nothing == Spec => [](u[Replayer] = IdleCall)
<1>1. IInv => u[Replayer] = IdleCall
  BY DEF IInv, ReplayInv
<1> QED BY <1>1, Inductive, PTL

-----------------------------------------------------------------------------
(***************************************************************************)
(* What the locks of BatchWriter are for: no point is stored before it is  *)
(* logged, no entry is lost by the rotation, and the lines of a group stay *)
(* together.                                                               *)
(***************************************************************************)

\* The points that need no entry, or have one; every point once the names of the
\* rotated files are no longer in the order of their numbers.
Covered == IF EnableWal /\ 10 \notin names THEN Logged \cup unlogged ELSE Point

CallPoints(x) == {x.batch[i] : i \in x.valid}

\* What a call owes the log: un and cov are unlogged and Covered.
CallLogged(x, un, cov) ==
    x.pc # "idle" =>
        /\ x.mode \in Modes
        /\ x.mode = "skip" => CallPoints(x) \subseteq un
        /\ x.pc \in {"locking", "storing"} => Pending(x) \subseteq cov

FilesLogged(ls, cov) ==
    \A q \in Partition : \A i \in DOMAIN ls[q] : ls[q][i] \in Point => ls[q][i] \in cov

\* The name a thread would rotate to is free, unless there is nothing to rotate.
NameFree(t) ==
    u[t].pc = "logging" =>
        /\ wal_lock = t
        /\ 10 \notin names => u[t].last + 1 \notin DOMAIN segments \/ wal = <<>>

LInv ==
    /\ DOMAIN segments \subseteq names
    /\ \A t \in Threads : CallLogged(u[t], unlogged, Covered)
    /\ \A t \in Threads : NameFree(t)
    /\ FilesLogged(part, Covered)

-----------------------------------------------------------------------------
LEMMA PointsOfAppend ==
    ASSUME NEW ls \in Seq(EntryType \cup {Torn, Bad}), NEW e \in EntryType
    PROVE  /\ PointsIn(ls) \subseteq PointsIn(AppendLine(ls, e))
           /\ ~Endless(ls) => EntryPoints(e) \subseteq PointsIn(AppendLine(ls, e))
           /\ PointsIn(ls) \subseteq PointsIn(AppendTorn(ls))
<1>1. ls \in Seq(LinesOf(EntryType))
  BY TypeLines
<1> DEFINE new == AppendLine(ls, e)
<1>2. \A i \in DOMAIN ls : i \in DOMAIN new
                           /\ (new[i] = ls[i] \/ (ls[i] = Torn /\ new[i] = Bad))
  BY <1>1, AppendLineKeeps
<1>3. PointsIn(ls) \subseteq PointsIn(new)
  <2> HIDE DEF new
  <2> SUFFICES ASSUME NEW k \in DOMAIN ls, ls[k] \notin {Torn, Bad}
               PROVE  EntryPoints(ls[k]) \subseteq PointsIn(new)
    BY DEF PointsIn
  <2>1. k \in DOMAIN new /\ new[k] = ls[k]
    BY <1>2
  <2> QED BY <2>1 DEF PointsIn
<1>4. ASSUME ~Endless(ls) PROVE EntryPoints(e) \subseteq PointsIn(new)
  <2>1. new = Append(ls, e)
    BY <1>4 DEF AppendLine
  <2>2. Len(ls) + 1 \in DOMAIN new /\ new[Len(ls) + 1] = e
    BY <2>1
  <2>3. e \notin {Torn, Bad}
    BY EntryAssumption DEF EntryAssumption
  <2> HIDE DEF new
  <2> QED BY <2>2, <2>3 DEF PointsIn
<1>5. \A i \in DOMAIN ls : i \in DOMAIN AppendTorn(ls) /\ AppendTorn(ls)[i] = ls[i]
  BY <1>1, AppendTornKeeps
<1>6. PointsIn(ls) \subseteq PointsIn(AppendTorn(ls))
  <2> SUFFICES ASSUME NEW k \in DOMAIN ls, ls[k] \notin {Torn, Bad}
               PROVE  EntryPoints(ls[k]) \subseteq PointsIn(AppendTorn(ls))
    BY DEF PointsIn
  <2>1. k \in DOMAIN AppendTorn(ls) /\ AppendTorn(ls)[k] = ls[k]
    BY <1>5
  <2> QED BY <2>1 DEF PointsIn
<1> QED BY <1>3, <1>4, <1>6

LEMMA PointsOfEntry == \A x : EntryPoints(Entry(x)) = Pending(x)
<1> TAKE x
<1>1. Entry(x).batch = x.batch /\ Entry(x).rows = x.pend
  BY DEF Entry
<1> QED BY <1>1 DEF EntryPoints, Pending

\* What the log of a state covers is part of the points.
LEMMA CoveredTyped ==
    ASSUME TypeOK
    PROVE  /\ Logged \cup unlogged \subseteq Covered
           /\ Covered \subseteq Point
<1>1. PointsIn(wal) \subseteq Point
  BY PointsTyped DEF TypeOK
<1>2. \A n \in DOMAIN segments : PointsIn(segments[n]) \subseteq Point
  BY PointsTyped DEF TypeOK
<1>3. Logged \cup unlogged \subseteq Point
  BY <1>1, <1>2 DEF Logged, TypeOK
<1> QED BY <1>3 DEF Covered

\* The log covers what it covered when its entries and unlogged are kept.
LEMMA CoveredGrows ==
    ASSUME TypeOK, TypeOK', names \subseteq names', unlogged \subseteq unlogged',
           10 \notin names' => Logged \subseteq Logged' \cup unlogged'
    PROVE  Covered \subseteq Covered'
<1>1. Covered \subseteq Point
  BY CoveredTyped
<1> QED BY <1>1 DEF Covered

LEMMA CoveredSame ==
    ASSUME UNCHANGED <<wal, segments, names, unlogged>>
    PROVE  Covered' = Covered
BY DEF Covered, Logged

\* A step of t keeps what the others owe.
LEMMA OthersLogged ==
    ASSUME IInv, LInv, NEW t \in Threads, NEW y, u' = [u EXCEPT ![t] = y],
           unlogged \subseteq unlogged', Covered \subseteq Covered',
           CallLogged(y, unlogged', Covered')
    PROVE  \A s \in Threads : CallLogged(u'[s], unlogged', Covered')
<1> TAKE s \in Threads
<1>1. u'[s] = IF s = t THEN y ELSE u[s]
  BY DEF IInv, TypeOK
<1>2. CallLogged(u[s], unlogged, Covered)
  BY DEF LInv
<1>3. CallLogged(u[s], unlogged', Covered')
  BY <1>2 DEF CallLogged
<1> QED BY <1>1, <1>3

\* A step of t that is not in the section of the log keeps it for the others.
LEMMA OthersName ==
    ASSUME IInv, LInv, NEW t \in Threads, NEW y, u' = [u EXCEPT ![t] = y],
           y.pc # "logging", UNCHANGED <<wal, segments, names, wal_lock>>
    PROVE  \A s \in Threads : NameFree(s)'
<1> TAKE s \in Threads
<1>1. u'[s] = IF s = t THEN y ELSE u[s]
  BY DEF IInv, TypeOK
<1>2. NameFree(s)
  BY DEF LInv
<1> QED BY <1>1, <1>2 DEF NameFree

\* A step of t that leaves the log alone, and stores at most what it owes.
LEMMA LogQuiet ==
    ASSUME IInv, IInv', LInv, NEW t \in Threads, NEW y, u' = [u EXCEPT ![t] = y],
           y.pc # "logging", UNCHANGED <<wal, segments, names, wal_lock>>,
           unlogged \subseteq unlogged',
           CallLogged(y, unlogged', Covered), FilesLogged(part', Covered)
    PROVE  LInv'
<1>1. Covered \subseteq Covered'
  <2>1. Logged' = Logged
    BY DEF Logged
  <2> QED BY <2>1, CoveredGrows DEF IInv
<1>2. CallLogged(y, unlogged', Covered')
  BY <1>1 DEF CallLogged
<1>3. \A s \in Threads : CallLogged(u'[s], unlogged', Covered')
  BY <1>1, <1>2, OthersLogged
<1>4. \A s \in Threads : NameFree(s)'
  BY OthersName
<1>5. FilesLogged(part', Covered')
  BY <1>1 DEF FilesLogged
<1> QED BY <1>3, <1>4, <1>5 DEF LInv

-----------------------------------------------------------------------------
(* The steps *)

LEMMA LogInit == Init => LInv
<1> SUFFICES ASSUME Init PROVE LInv
  OBVIOUS
<1>1. \A t \in Threads : u[t].pc = "idle"
  BY DEF Init, IdleCall
<1>2. FilesLogged(part, Covered)
  BY DEF Init, FilesLogged
<1> QED BY <1>1, <1>2 DEF Init, LInv, CallLogged, NameFree

LEMMA BeginLogged ==
    ASSUME IInv, IInv', LInv, NEW t \in Writers, NEW b \in Batches, NEW mode \in Modes,
           BatchBegin(t, b, mode)
    PROVE  LInv'
<1> DEFINE y == [IdleCall EXCEPT !.pc = "next", !.batch = b, !.mode = mode,
                                 !.valid = Valid(b), !.rest = Valid(b)]
<1>1. u' = [u EXCEPT ![t] = y]
  BY DEF BatchBegin
<1>2. y.pc = "next" /\ y.mode = mode /\ y.batch = b /\ y.valid = Valid(b)
  BY DEF IdleCall
<1> HIDE DEF y
<1>3. /\ unlogged \subseteq unlogged' /\ UNCHANGED <<part, wal, segments, names, wal_lock>>
      /\ mode = "skip" => {b[i] : i \in Valid(b)} \subseteq unlogged'
  BY DEF BatchBegin, store
<1>4. CallLogged(y, unlogged', Covered)
  BY <1>2, <1>3 DEF CallLogged, CallPoints
<1>5. t \in Threads /\ FilesLogged(part', Covered)
  BY <1>3 DEF Threads, LInv
<1> QED BY <1>1, <1>2, <1>3, <1>4, <1>5, LogQuiet

LEMMA NextPartitionLogged ==
    ASSUME IInv, IInv', LInv, NEW t \in Threads, NextPartition(t)
    PROVE  LInv'
<1>1. /\ t \in Writers /\ u[t] \in CallType /\ u[t].pc = "next"
  BY InCall DEF NextPartition
<1>2. PICK first \in u[t].rest :
         u' = [u EXCEPT ![t].pc = IF UsesWal(u[t]) THEN "log" ELSE "locking",
                        ![t].at = PartitionOf[u[t].batch[first]],
                        ![t].pend = Group(u[t], PartitionOf[u[t].batch[first]]),
                        ![t].rest = @ \ Group(u[t], PartitionOf[u[t].batch[first]])]
  BY DEF NextPartition
<1> DEFINE q == PartitionOf[u[t].batch[first]]
           pc == IF UsesWal(u[t]) THEN "log" ELSE "locking"
           y == [u[t] EXCEPT !.pc = pc, !.at = q, !.pend = Group(u[t], q),
                             !.rest = @ \ Group(u[t], q)]
<1>3. u' = [u EXCEPT ![t] = y]
  BY <1>1, <1>2 DEF IInv, TypeOK
<1>4. /\ y.pc = pc /\ y.mode = u[t].mode /\ y.batch = u[t].batch /\ y.valid = u[t].valid
      /\ y.pend = Group(u[t], q)
  BY <1>1 DEF CallType
<1>5. CallLogged(u[t], unlogged, Covered)
  BY DEF LInv
<1>6. CallPoints(y) = CallPoints(u[t]) /\ Pending(y) \subseteq CallPoints(u[t])
  <2> HIDE DEF y
  <2> QED BY <1>4 DEF CallPoints, Pending, Group
<1>7. UNCHANGED <<part, wal, segments, names, wal_lock, unlogged>>
  BY DEF NextPartition, store, log
<1>8. CASE UsesWal(u[t])
  <2>1. y.pc = "log"
    BY <1>4, <1>8
  <2> HIDE DEF y
  <2>2. CallLogged(y, unlogged', Covered)
    BY <1>1, <1>4, <1>5, <1>6, <1>7, <2>1 DEF CallLogged
  <2>3. FilesLogged(part', Covered)
    BY <1>7 DEF LInv
  <2> QED BY <1>3, <1>7, <2>1, <2>2, <2>3, LogQuiet
<1>9. CASE ~UsesWal(u[t])
  <2>1. y.pc = "locking"
    BY <1>4, <1>9
  <2> HIDE DEF y
  <2>2. u[t].mode \in Modes /\ (u[t].mode = "skip" => CallPoints(u[t]) \subseteq unlogged)
    BY <1>1, <1>5 DEF CallLogged
  <2>3. ~EnableWal \/ u[t].mode = "skip"
    <3>1. u[t].mode # "replay"
      BY <2>2, WriterAssumption, Zenon DEF WriterAssumption
    <3> QED BY <1>9, <3>1 DEF UsesWal
  <2>4. CallPoints(u[t]) \subseteq Point
    <3>1. /\ u[t].batch \in Batches
          /\ u[t].valid \subseteq DOMAIN u[t].batch
      BY <1>1, InCall DEF CallOK
    <3> QED BY <3>1, BatchType DEF CallPoints
  <2>5. Pending(y) \subseteq Covered
    BY <1>6, <2>2, <2>3, <2>4 DEF Covered
  <2>6. CallLogged(y, unlogged', Covered)
    BY <1>4, <1>6, <1>7, <2>2, <2>5 DEF CallLogged
  <2>7. FilesLogged(part', Covered)
    BY <1>7 DEF LInv
  <2> QED BY <1>3, <1>7, <2>1, <2>6, <2>7, LogQuiet
<1> QED BY <1>8, <1>9

\* The end of a call, by return or by exception.
LEMMA IdleLogged ==
    ASSUME IInv, IInv', LInv, NEW t \in Threads, u' = [u EXCEPT ![t] = IdleCall],
           UNCHANGED <<part, wal, segments, names, unlogged>>,
           wal_lock' = wal_lock \/ (u[t].pc = "logging" /\ wal_lock' = Free)
    PROVE  LInv'
<1>1. Covered' = Covered
  BY CoveredSame
<1>2. IdleCall.pc = "idle"
  BY DEF IdleCall
<1>3. \A s \in Threads : CallLogged(u'[s], unlogged', Covered')
  BY <1>1, <1>2, OthersLogged DEF CallLogged
<1>4. ASSUME NEW s \in Threads PROVE NameFree(s)'
  <2>1. u'[s] = IF s = t THEN IdleCall ELSE u[s]
    BY DEF IInv, TypeOK
  <2>2. NameFree(s) /\ NameFree(t)
    BY DEF LInv
  <2> QED BY <1>2, <2>1, <2>2 DEF NameFree
<1>5. FilesLogged(part', Covered')
  BY <1>1 DEF LInv
<1> QED BY <1>3, <1>4, <1>5 DEF LInv

\* A call that goes on without touching the log: what is left of it is owed already.
LEMMA GoesOnLogged ==
    ASSUME IInv, IInv', LInv, NEW t \in Threads, u[t].pc # "idle", NEW y,
           u' = [u EXCEPT ![t] = y], y.pc # "logging",
           y.mode = u[t].mode, y.batch = u[t].batch, y.valid = u[t].valid,
           y.pc \in {"locking", "storing"} =>
               u[t].pc \in {"locking", "storing"} /\ y.pend \subseteq u[t].pend,
           UNCHANGED <<wal, segments, names, wal_lock, unlogged>>, FilesLogged(part', Covered)
    PROVE  LInv'
<1>1. CallLogged(u[t], unlogged, Covered)
  BY DEF LInv
<1>2. CallPoints(y) = CallPoints(u[t])
  BY DEF CallPoints
<1>3. y.pend \subseteq u[t].pend => Pending(y) \subseteq Pending(u[t])
  BY DEF Pending
<1>4. CallLogged(y, unlogged', Covered)
  BY <1>1, <1>2, <1>3 DEF CallLogged
<1> QED BY <1>4, LogQuiet

LEMMA QuietLogged ==
    ASSUME IInv, IInv', LInv, NEW t \in Threads,
           \/ TakePartitionLock(t) \/ CloseFile(t) \/ StoreRaises(t) \/ StoreError(t) \/ Retry(t)
    PROVE  LInv'
<1>1. u[t].pc # "idle"
  BY DEF TakePartitionLock, CloseFile, StoreRaises, StoreError, Retry
<1>2. u[t] \in CallType
  BY DEF IInv, TypeOK
<1>3. UNCHANGED <<wal, segments, names, wal_lock, unlogged>>
  BY DEF TakePartitionLock, CloseFile, StoreRaises, StoreError, Retry, log
<1>4. FilesLogged(part', Covered)
  <2>1. FilesLogged(part, Covered)
    BY DEF LInv
  <2>2. CASE part' = part
    BY <2>1, <2>2
  <2>3. CASE part' = [part EXCEPT ![u[t].at] = AppendTorn(@)]
    <3>1. \A q \in Partition : part'[q] \in {part[q], AppendTorn(part[q])}
      BY <2>3 DEF IInv, TypeOK
    <3>2. ASSUME NEW q \in Partition, NEW i \in DOMAIN AppendTorn(part[q]),
                 AppendTorn(part[q])[i] \in Point
          PROVE  AppendTorn(part[q])[i] \in Covered
      <4>1. part[q] \in Seq(LinesOf(Point))
        BY TypeLines DEF IInv, TypeOK
      <4>2. Torn \notin Point
        BY WriterAssumption, Zenon DEF WriterAssumption
      <4>3. i \in DOMAIN part[q] /\ AppendTorn(part[q])[i] = part[q][i]
        BY <3>2, <4>1, <4>2, AppendTornKeeps
      <4> QED BY <2>1, <3>2, <4>3 DEF FilesLogged
    <3> QED BY <2>1, <3>1, <3>2 DEF FilesLogged
  <2> QED BY <2>2, <2>3 DEF TakePartitionLock, CloseFile, StoreRaises, StoreError, Retry, store
<1>5. CASE TakePartitionLock(t)
  <2> DEFINE y == [u[t] EXCEPT !.pc = "storing"]
  <2>1. u' = [u EXCEPT ![t] = y] /\ u[t].pc = "locking"
    BY <1>2, <1>5 DEF TakePartitionLock, IInv, TypeOK
  <2>2. /\ y.pc = "storing" /\ y.mode = u[t].mode /\ y.batch = u[t].batch
        /\ y.valid = u[t].valid /\ y.pend = u[t].pend
    BY <1>2 DEF CallType
  <2> HIDE DEF y
  <2> QED BY <1>1, <1>3, <1>4, <2>1, <2>2, GoesOnLogged
<1>6. CASE CloseFile(t)
  <2>1. u' = [u EXCEPT ![t] = Stored(u[t])]
    BY <1>6 DEF CloseFile
  <2>2. /\ Stored(u[t]).pc = "next" /\ Stored(u[t]).mode = u[t].mode
        /\ Stored(u[t]).batch = u[t].batch /\ Stored(u[t]).valid = u[t].valid
    BY <1>2 DEF Stored, CallType
  <2> QED BY <1>1, <1>3, <1>4, <2>1, <2>2, GoesOnLogged
<1>7. CASE StoreRaises(t) \/ StoreError(t)
  <2>1. u' = [u EXCEPT ![t] = Failed(u[t])]
    BY <1>7 DEF StoreRaises, StoreError
  <2>2. /\ Failed(u[t]).pc = "next" /\ Failed(u[t]).mode = u[t].mode
        /\ Failed(u[t]).batch = u[t].batch /\ Failed(u[t]).valid = u[t].valid
    BY <1>2 DEF Failed, CallType
  <2> QED BY <1>1, <1>3, <1>4, <2>1, <2>2, GoesOnLogged
<1>8. CASE Retry(t)
  <2> DEFINE y == [u[t] EXCEPT !.rest = u[t].valid, !.ok = {}, !.bad = {}, !.tries = @ + 1]
  <2>1. u' = [u EXCEPT ![t] = y] /\ u[t].pc = "next"
    BY <1>2, <1>8 DEF Retry, IInv, TypeOK
  <2>2. /\ y.pc = u[t].pc /\ y.mode = u[t].mode /\ y.batch = u[t].batch
        /\ y.valid = u[t].valid
    BY <1>2 DEF CallType
  <2> HIDE DEF y
  <2> QED BY <1>1, <1>3, <1>4, <2>1, <2>2, GoesOnLogged
<1> QED BY <1>5, <1>6, <1>7, <1>8

LEMMA StorePointLogged ==
    ASSUME IInv, IInv', LInv, NEW t \in Threads, StorePoint(t)
    PROVE  LInv'
<1>1. u[t].pc = "storing" /\ u[t] \in CallType
  BY DEF StorePoint, IInv, TypeOK
<1>2. PICK i \in u[t].pend :
         /\ part' = [part EXCEPT ![u[t].at] = AppendLine(@, u[t].batch[i])]
         /\ u' = [u EXCEPT ![t].pend = @ \ {i}]
  BY DEF StorePoint
<1>3. UNCHANGED <<wal, segments, names, wal_lock, unlogged>>
  BY DEF StorePoint, log
<1>4. u[t].batch[i] \in Covered
  <2>1. Pending(u[t]) \subseteq Covered
    BY <1>1 DEF LInv, CallLogged
  <2> QED BY <2>1 DEF Pending
<1>5. FilesLogged(part', Covered)
  <2>1. FilesLogged(part, Covered)
    BY DEF LInv
  <2>2. \A q \in Partition : part'[q] \in {part[q], AppendLine(part[q], u[t].batch[i])}
    BY <1>2 DEF IInv, TypeOK
  <2>3. ASSUME NEW q \in Partition, NEW k \in DOMAIN AppendLine(part[q], u[t].batch[i]),
               AppendLine(part[q], u[t].batch[i])[k] \in Point
        PROVE  AppendLine(part[q], u[t].batch[i])[k] \in Covered
    <3> DEFINE p == u[t].batch[i]
    <3>1. part[q] \in Seq(LinesOf(Point)) /\ p \in Point
      BY <1>4, TypeLines, CoveredTyped DEF IInv, TypeOK
    <3>2. Bad \notin Point
      BY WriterAssumption, Zenon DEF WriterAssumption
    <3>3. \/ AppendLine(part[q], p)[k] \in {p, Bad}
          \/ k \in DOMAIN part[q] /\ AppendLine(part[q], p)[k] = part[q][k]
      <4> HIDE DEF p
      <4> QED BY <2>3, <3>1, AppendLineKeeps DEF p
    <3> QED BY <1>4, <2>1, <2>3, <3>2, <3>3 DEF FilesLogged
  <2> QED BY <2>1, <2>2, <2>3 DEF FilesLogged
<1> DEFINE y == [u[t] EXCEPT !.pend = @ \ {i}]
<1>6. u' = [u EXCEPT ![t] = y]
  BY <1>1, <1>2 DEF IInv, TypeOK
<1>7. /\ y.pc = u[t].pc /\ y.mode = u[t].mode /\ y.batch = u[t].batch
      /\ y.valid = u[t].valid /\ y.pend \subseteq u[t].pend
  BY <1>1 DEF CallType
<1> HIDE DEF y
<1> QED BY <1>1, <1>3, <1>5, <1>6, <1>7, GoesOnLogged

\* In the order of names the successor comes later, but for wal_10.wal.
LEMMA NamesInOrder ==
    ASSUME NEW n \in Nat, n # 9
    PROVE  NameOrder(n) < NameOrder(n + 1)
<1>1. CASE n < 9
  BY <1>1 DEF NameOrder
<1>2. CASE n > 9
  <2> DEFINE q == n \div 10
             r == n % 10
  <2>1. q \in Nat /\ r \in 0..9 /\ n = 10 * q + r
    OBVIOUS
  <2>2. NameOrder(n) = 100 * q + 1 + r
    BY <1>2 DEF NameOrder
  <2>3. CASE r < 9
    <3>1. (n + 1) \div 10 = q /\ (n + 1) % 10 = r + 1
      BY <2>1, <2>3
    <3> QED BY <1>2, <2>1, <2>2, <3>1 DEF NameOrder
  <2>4. CASE r = 9
    <3>1. (n + 1) \div 10 = q + 1 /\ (n + 1) % 10 = 0
      BY <2>1, <2>4
    <3> QED BY <1>2, <2>1, <2>2, <2>4, <3>1 DEF NameOrder
  <2> QED BY <2>1, <2>3, <2>4
<1> QED BY <1>1, <1>2

LEMMA LastIsLast ==
    ASSUME TypeOK, DOMAIN segments \subseteq names, 10 \notin names, NEW n \in Nat,
           IsLastSegment(n)
    PROVE  n + 1 \notin DOMAIN segments
<1> SUFFICES ASSUME n + 1 \in DOMAIN segments PROVE FALSE
  OBVIOUS
<1>1. NameOrder(n + 1) =< NameOrder(n)
  BY DEF IsLastSegment
<1>2. n # 9
  OBVIOUS
<1>3. NameOrder(n) < NameOrder(n + 1)
  BY <1>2, NamesInOrder
<1>4. NameOrder(n) \in Int /\ NameOrder(n + 1) \in Int
  BY DEF NameOrder
<1> QED BY <1>1, <1>3, <1>4

LEMMA TakeWalLockLogged ==
    ASSUME IInv, IInv', LInv, NEW t \in Threads, TakeWalLock(t)
    PROVE  LInv'
<1>1. u[t] \in CallType /\ u[t].pc = "log" /\ wal_lock = Free /\ wal_lock' = t
  BY DEF TakeWalLock, IInv, TypeOK
<1>2. UNCHANGED <<part, wal, segments, names, unlogged>>
  BY DEF TakeWalLock, store
<1>3. PICK n \in DOMAIN segments \cup {0} :
         IsLastSegment(n) /\ u' = [u EXCEPT ![t].pc = "logging", ![t].last = n]
  BY DEF TakeWalLock
<1> DEFINE y == [u[t] EXCEPT !.pc = "logging", !.last = n]
<1>4. u' = [u EXCEPT ![t] = y]
  BY <1>1, <1>3 DEF IInv, TypeOK
<1>5. /\ y.pc = "logging" /\ y.mode = u[t].mode /\ y.batch = u[t].batch
      /\ y.valid = u[t].valid /\ y.last = n
  BY <1>1 DEF CallType
<1> HIDE DEF y
<1>6. Covered' = Covered
  BY <1>2, CoveredSame
<1>7. \A s \in Threads : CallLogged(u'[s], unlogged', Covered')
  <2>1. CallLogged(u[t], unlogged, Covered)
    BY DEF LInv
  <2>2. CallPoints(y) = CallPoints(u[t])
    BY <1>5 DEF CallPoints
  <2>3. CallLogged(y, unlogged', Covered')
    BY <1>1, <1>2, <1>5, <1>6, <2>1, <2>2 DEF CallLogged
  <2> QED BY <1>2, <1>4, <1>6, <2>3, OthersLogged
<1>8. ASSUME NEW s \in Threads PROVE NameFree(s)'
  <2>1. u'[s] = IF s = t THEN y ELSE u[s]
    BY <1>4 DEF IInv, TypeOK
  <2>2. Free \notin Threads
    BY WriterAssumption, Zenon DEF WriterAssumption, Threads
  <2>3. s # t => u[s].pc # "logging"
    BY <1>1, <2>2 DEF LInv, NameFree
  <2>4. 10 \notin names => n + 1 \notin DOMAIN segments
    <3>1. n \in Nat /\ DOMAIN segments \subseteq names /\ TypeOK
      BY DEF IInv, TypeOK, LInv
    <3> QED BY <1>3, <3>1, LastIsLast
  <2> QED BY <1>1, <1>2, <1>5, <2>1, <2>3, <2>4 DEF NameFree
<1>9. FilesLogged(part', Covered')
  BY <1>2, <1>6 DEF LInv
<1>10. DOMAIN segments' \subseteq names'
  BY <1>2 DEF LInv
<1> QED BY <1>7, <1>8, <1>9, <1>10 DEF LInv

\* The rotation takes a name that is free: the entries are all still there.
LEMMA RotateWalLogged ==
    ASSUME IInv, IInv', LInv, NEW t \in Threads, RotateWal(t)
    PROVE  LInv'
<1> DEFINE m == u[t].last + 1
<1>1. /\ u[t].pc = "logging" /\ Len(wal) >= SegmentMax
      /\ segments' = [n \in DOMAIN segments \cup {m} |-> IF n = m THEN wal ELSE segments[n]]
      /\ names' = names \cup {m} /\ wal' = <<>>
      /\ UNCHANGED <<part, wal_lock, unlogged, u>>
  BY Zenon DEF RotateWal, store
<1>2. wal # <<>> /\ NameFree(t) /\ DOMAIN segments \subseteq names
  <2>1. SegmentMax \in Nat \ {0}
    BY WriterAssumption, Zenon DEF WriterAssumption
  <2>2. NameFree(t) /\ DOMAIN segments \subseteq names
    BY DEF LInv
  <2> QED BY <1>1, <2>1, <2>2
<1>3. 10 \notin names' => m \notin DOMAIN segments
  BY <1>1, <1>2 DEF NameFree
<1>4. wal_lock = t
  BY <1>1, <1>2 DEF NameFree
<1> HIDE DEF m
<1>5. 10 \notin names' => Logged \subseteq Logged'
  <2> SUFFICES ASSUME 10 \notin names' PROVE Logged \subseteq Logged'
    OBVIOUS
  <2>1. DOMAIN segments' = DOMAIN segments \cup {m} /\ segments'[m] = wal
    BY <1>1
  <2>2. \A n \in DOMAIN segments : segments'[n] = segments[n]
    BY <1>1, <1>3
  <2>3. PointsIn(wal) \subseteq Logged'
    BY <2>1 DEF Logged
  <2>4. \A n \in DOMAIN segments : PointsIn(segments[n]) \subseteq Logged'
    BY <2>1, <2>2 DEF Logged
  <2> QED BY <2>3, <2>4 DEF Logged
<1>6. Covered \subseteq Covered'
  BY <1>1, <1>5, CoveredGrows DEF IInv
<1>7. \A s \in Threads : CallLogged(u'[s], unlogged', Covered')
  <2>1. \A s \in Threads : CallLogged(u[s], unlogged, Covered)
    BY DEF LInv
  <2> QED BY <1>1, <1>6, <2>1 DEF CallLogged
<1>8. \A s \in Threads : NameFree(s)'
  BY <1>1 DEF LInv, NameFree
<1>9. FilesLogged(part', Covered')
  BY <1>1, <1>6 DEF LInv, FilesLogged
<1>10. DOMAIN segments' \subseteq names'
  BY <1>1, <1>2
<1> QED BY <1>7, <1>8, <1>9, <1>10 DEF LInv

\* What is about to be stored has its entry, or is marked as having none.
LEMMA EntryLogged ==
    ASSUME IInv, IInv', LInv, NEW t \in Threads, AppendEntry(t) \/ LogError(t)
    PROVE  LInv'
<1>1. /\ u[t].pc = "logging" /\ wal_lock' = Free
      /\ UNCHANGED <<part, segments, names>>
      /\ unlogged' \in {unlogged, unlogged \cup Pending(u[t])}
      /\ u' = [u EXCEPT ![t].pc = "locking"]
  BY DEF AppendEntry, LogError, store
<1>2. u[t] \in CallType /\ Entry(u[t]) \in EntryType
  BY <1>1, InCall, EntryTyped
<1>3. wal \in Seq(EntryType \cup {Torn, Bad})
  BY DEF IInv, TypeOK
<1>4. /\ PointsIn(wal) \subseteq PointsIn(wal')
      /\ Pending(u[t]) \subseteq PointsIn(wal') \cup unlogged'
  <2>1. /\ PointsIn(wal) \subseteq PointsIn(AppendLine(wal, Entry(u[t])))
        /\ PointsIn(wal) \subseteq PointsIn(AppendTorn(wal))
        /\ ~Endless(wal) => Pending(u[t]) \subseteq PointsIn(AppendLine(wal, Entry(u[t])))
    BY <1>2, <1>3, PointsOfAppend, PointsOfEntry
  <2>2. CASE AppendEntry(t)
    <3>1. /\ wal' = AppendLine(wal, Entry(u[t]))
          /\ Endless(wal) => unlogged' = unlogged \cup Pending(u[t])
      BY <2>2 DEF AppendEntry
    <3> QED BY <2>1, <3>1
  <2>3. CASE LogError(t)
    <3>1. /\ wal' \in {wal, AppendTorn(wal), AppendLine(wal, Entry(u[t]))}
          /\ unlogged' = unlogged \cup Pending(u[t])
      BY <2>3 DEF LogError
    <3> QED BY <2>1, <3>1
  <2> QED BY <2>2, <2>3
<1>5. Logged \subseteq Logged'
  BY <1>1, <1>4 DEF Logged
<1>6. Covered \subseteq Covered'
  BY <1>1, <1>5, CoveredGrows DEF IInv
<1>7. Pending(u[t]) \subseteq Covered'
  <2>1. Pending(u[t]) \subseteq Logged' \cup unlogged'
    BY <1>4 DEF Logged
  <2>2. Pending(u[t]) \subseteq Point
    BY <1>1, InCall, BatchType DEF Pending
  <2> QED BY <2>1, <2>2 DEF Covered
<1> DEFINE y == [u[t] EXCEPT !.pc = "locking"]
<1>8. u' = [u EXCEPT ![t] = y]
  BY <1>1, <1>2 DEF IInv, TypeOK
<1>9. /\ y.pc = "locking" /\ y.mode = u[t].mode /\ y.batch = u[t].batch
      /\ y.valid = u[t].valid /\ y.pend = u[t].pend
  BY <1>2 DEF CallType
<1> HIDE DEF y
<1>10. \A s \in Threads : CallLogged(u'[s], unlogged', Covered')
  <2>1. CallLogged(u[t], unlogged, Covered)
    BY DEF LInv
  <2>2. CallPoints(y) = CallPoints(u[t]) /\ Pending(y) = Pending(u[t])
    BY <1>9 DEF CallPoints, Pending
  <2>3. CallLogged(y, unlogged', Covered')
    BY <1>1, <1>7, <1>9, <2>1, <2>2 DEF CallLogged
  <2> QED BY <1>1, <1>6, <1>8, <2>3, OthersLogged
<1>11. ASSUME NEW s \in Threads PROVE NameFree(s)'
  <2>1. u'[s] = IF s = t THEN y ELSE u[s]
    BY <1>8 DEF IInv, TypeOK
  <2>2. s # t => u[s].pc # "logging"
    BY <1>1 DEF LInv, NameFree
  <2> QED BY <1>9, <2>1, <2>2 DEF NameFree
<1>12. FilesLogged(part', Covered')
  BY <1>1, <1>6 DEF LInv, FilesLogged
<1>13. DOMAIN segments' \subseteq names'
  BY <1>1 DEF LInv
<1> QED BY <1>10, <1>11, <1>12, <1>13 DEF LInv

\* A replay only removes files, and what they held is marked.
LEMMA ReplayLogged ==
    ASSUME IInv, IInv', LInv, ReplayBegin \/ ReplayStep
    PROVE  LInv'
<1>1. UNCHANGED <<part, wal, wal_lock, names>>
  BY DEF ReplayBegin, ReplayStep, ReplayLine, ReplayEndOfFile, ReplayRemove, ReplayEnd,
         store, log
<1>2. u' = u
  <2>1. CASE ReplayLine
    <3>1. \/ u' = u
          \/ \E x : u' = [u EXCEPT ![Replayer] = x]
      BY <2>1 DEF ReplayLine
    <3>2. u'[Replayer] = u[Replayer] /\ Replayer \in Threads
      BY DEF IInv, ReplayInv, Threads
    <3> QED BY <3>1, <3>2 DEF IInv, TypeOK
  <2>2. CASE ReplayBegin \/ ReplayEndOfFile \/ ReplayRemove \/ ReplayEnd
    BY <2>2 DEF ReplayBegin, ReplayEndOfFile, ReplayRemove, ReplayEnd
  <2> QED BY <2>1, <2>2 DEF ReplayStep
<1>3. /\ DOMAIN segments' \subseteq DOMAIN segments
      /\ unlogged \subseteq unlogged' /\ Logged \subseteq Logged' \cup unlogged'
  <2>1. CASE ReplayRemove
    <3>1. PICK n \in rep.done :
             /\ segments' = [k \in DOMAIN segments \ {n} |-> segments[k]]
             /\ unlogged' = unlogged \cup PointsIn(segments[n])
      BY <2>1 DEF ReplayRemove
    <3>2. /\ DOMAIN segments' = DOMAIN segments \ {n}
          /\ \A k \in DOMAIN segments' : segments'[k] = segments[k]
      BY <3>1
    <3>3. PointsIn(wal) \subseteq Logged'
      BY <1>1 DEF Logged
    <3>4. \A k \in DOMAIN segments : PointsIn(segments[k]) \subseteq Logged' \cup unlogged'
      BY <3>1, <3>2 DEF Logged
    <3> QED BY <3>1, <3>2, <3>3, <3>4 DEF Logged
  <2>2. CASE ReplayBegin \/ ReplayLine \/ ReplayEndOfFile \/ ReplayEnd
    <3>1. UNCHANGED <<wal, segments, unlogged>>
      BY <2>2 DEF ReplayBegin, ReplayLine, ReplayEndOfFile, ReplayEnd, log
    <3> QED BY <3>1 DEF Logged
  <2> QED BY <2>1, <2>2 DEF ReplayStep
<1>4. Covered \subseteq Covered'
  BY <1>1, <1>3, CoveredGrows DEF IInv
<1>5. \A s \in Threads : CallLogged(u'[s], unlogged', Covered')
  <2>1. \A s \in Threads : CallLogged(u[s], unlogged, Covered)
    BY DEF LInv
  <2> QED BY <1>2, <1>3, <1>4, <2>1 DEF CallLogged
<1>6. \A s \in Threads : NameFree(s)'
  BY <1>1, <1>2, <1>3 DEF LInv, NameFree
<1>7. FilesLogged(part', Covered')
  BY <1>1, <1>4 DEF LInv, FilesLogged
<1>8. DOMAIN segments' \subseteq names'
  BY <1>1, <1>3 DEF LInv
<1> QED BY <1>5, <1>6, <1>7, <1>8 DEF LInv

LEMMA CrashLogged ==
    ASSUME IInv, IInv', LInv, Crash
    PROVE  LInv'
<1>1. /\ UNCHANGED <<segments, names, unlogged>> /\ wal' \in {wal, AppendTorn(wal)}
      /\ u' = [t \in Threads |-> IdleCall]
  BY DEF Crash
<1>2. PointsIn(wal) \subseteq PointsIn(wal')
  <2>1. wal \in Seq(LinesOf(EntryType))
    BY TypeLines DEF IInv, TypeOK
  <2>2. \A i \in DOMAIN wal : i \in DOMAIN AppendTorn(wal) /\ AppendTorn(wal)[i] = wal[i]
    BY <2>1, AppendTornKeeps
  <2>3. PointsIn(wal) \subseteq PointsIn(AppendTorn(wal))
    <3> SUFFICES ASSUME NEW k \in DOMAIN wal, wal[k] \notin {Torn, Bad}
                 PROVE  EntryPoints(wal[k]) \subseteq PointsIn(AppendTorn(wal))
      BY DEF PointsIn
    <3>1. k \in DOMAIN AppendTorn(wal) /\ AppendTorn(wal)[k] = wal[k]
      BY <2>2
    <3> QED BY <3>1 DEF PointsIn
  <2> QED BY <1>1, <2>3
<1>3. Covered \subseteq Covered'
  <2>1. Logged \subseteq Logged'
    BY <1>1, <1>2 DEF Logged
  <2> QED BY <1>1, <2>1, CoveredGrows DEF IInv
<1>4. \A s \in Threads : u'[s].pc = "idle"
  BY <1>1 DEF IdleCall
<1>5. FilesLogged(part', Covered')
  <2>1. \A q \in Partition : part'[q] \in {part[q], AppendTorn(part[q])}
    BY DEF Crash
  <2>2. ASSUME NEW q \in Partition, NEW i \in DOMAIN AppendTorn(part[q]),
               AppendTorn(part[q])[i] \in Point
        PROVE  AppendTorn(part[q])[i] \in Covered
    <3>1. part[q] \in Seq(LinesOf(Point))
      BY TypeLines DEF IInv, TypeOK
    <3>2. Torn \notin Point
      BY WriterAssumption, Zenon DEF WriterAssumption
    <3>3. i \in DOMAIN part[q] /\ AppendTorn(part[q])[i] = part[q][i]
      BY <2>2, <3>1, <3>2, AppendTornKeeps
    <3> QED BY <2>2, <3>3 DEF LInv, FilesLogged
  <2>3. FilesLogged(part, Covered)
    BY DEF LInv
  <2> QED BY <1>3, <2>1, <2>2, <2>3 DEF FilesLogged
<1> QED BY <1>1, <1>4, <1>5 DEF LInv, CallLogged, NameFree

LEMMA LogKept ==
    ASSUME IInv, IInv', LInv, [Next]_vars
    PROVE  LInv'
<1>1. ASSUME NEW t \in Writers, NEW b \in Batches, NEW mode \in Modes, BatchBegin(t, b, mode)
      PROVE  LInv'
  BY <1>1, BeginLogged
<1>2. ASSUME NEW t \in Threads, LogRaises(t) \/ RotateError(t) \/ Return(t)
      PROVE  LInv'
  <2>1. /\ u' = [u EXCEPT ![t] = IdleCall]
        /\ UNCHANGED <<part, wal, segments, names, unlogged>>
        /\ wal_lock' = wal_lock \/ (u[t].pc = "logging" /\ wal_lock' = Free)
    BY <1>2 DEF LogRaises, RotateError, Return, store, log
  <2> QED BY <2>1, IdleLogged
<1>3. ASSUME NEW t \in Threads, CallStep(t) \/ ErrorStep(t)
      PROVE  LInv'
  BY <1>2, <1>3, NextPartitionLogged, TakeWalLockLogged, RotateWalLogged, EntryLogged,
     QuietLogged, StorePointLogged
     DEF CallStep, ErrorStep, LogStep, StoreStep
<1>4. CASE UNCHANGED vars
  <2>1. UNCHANGED <<part, wal, segments, names, wal_lock, unlogged, u>>
    BY <1>4 DEF vars, store, log
  <2>2. Covered' = Covered
    BY <2>1, CoveredSame
  <2> QED BY <2>1, <2>2 DEF LInv, NameFree
<1> QED BY <1>1, <1>3, <1>4, ReplayLogged, CrashLogged DEF Next

\* No point is stored before its entry, and no rotation loses one, before there
\* has been a wal_10.wal.
THEOREM Logged_first == Spec => []LoggedFirst
<1>1. Init => LInv
  BY LogInit
<1>2. IInv /\ IInv' /\ LInv /\ [Next]_vars => LInv'
  BY LogKept
<1>3. LInv => LoggedFirst
  BY DEF LInv, FilesLogged, Covered, LoggedFirst
<1> QED BY <1>1, <1>2, <1>3, Inductive, PTL DEF Spec

-----------------------------------------------------------------------------
(* The lines of a group *)

StoredOf(x) == Group(x, x.at) \ x.pend

\* What of the set S of rows of batch b is stored is the end of the file ls.
EndOf(S, b, ls) ==
    \A i \in S :
        /\ Len(ls) - Cardinality({j \in S : i < j}) \in DOMAIN ls
        /\ ls[Len(ls) - Cardinality({j \in S : i < j})] \in {b[i], Bad}

\* Of thread t in call x, with the partition files ls and their locks.
GroupOf(t, x, ls, locks) ==
    /\ x.pc \in {"log", "logging", "locking"} => x.pend = Group(x, x.at)
    /\ x.pc = "storing" =>
          /\ locks[x.at] = t
          /\ \A i \in StoredOf(x) : \A j \in x.pend : i < j
          /\ StoredOf(x) # {} => ~Endless(ls[x.at])
          /\ EndOf(StoredOf(x), x.batch, ls[x.at])

GInv == \A t \in Threads : GroupOf(t, u[t], part, partition_locks)

\* One more line at the end.
LEMMA EndKept ==
    ASSUME NEW V, NEW ls \in Seq(V \cup {Torn, Bad}), NEW n \in Nat, NEW S \in SUBSET (1..n),
           NEW i \in 1..n, \A a \in S : a < i, NEW b, b[i] \in V, Torn \notin V,
           S # {} => ~Endless(ls), EndOf(S, b, ls)
    PROVE  /\ EndOf(S \cup {i}, b, AppendLine(ls, b[i]))
           /\ ~Endless(AppendLine(ls, b[i]))
<1> DEFINE new == AppendLine(ls, b[i])
           After(T, a) == {j \in T : a < j}
<1>1. IsFiniteSet(S)
  <2>1. 1 \in Int /\ n \in Int
    OBVIOUS
  <2>2. IsFiniteSet(1..n)
    BY <2>1, FS_Interval
  <2> QED BY <2>2, FS_Subset
<1>2. After(S \cup {i}, i) = {} /\ Cardinality(After(S \cup {i}, i)) = 0
  <2>1. ASSUME NEW j \in S \cup {i} PROVE ~(i < j)
    <3>1. CASE j \in S
      <4>1. j \in Int /\ i \in Int /\ j < i
        BY <3>1
      <4> QED BY <4>1
    <3>2. CASE j = i
      BY <3>2
    <3> QED BY <3>1, <3>2
  <2>2. After(S \cup {i}, i) = {}
    BY <2>1
  <2> HIDE DEF After
  <2> QED BY <2>2, FS_EmptySet
<1>3. CASE Endless(ls)
  <2>1. S = {} /\ new = [ls EXCEPT ![Len(ls)] = Bad]
    BY <1>3 DEF AppendLine
  <2>2. Len(ls) \in DOMAIN ls /\ Len(ls) \in Nat
    BY <1>3 DEF Endless
  <2>3. Len(new) = Len(ls) /\ Len(new) \in DOMAIN new /\ new[Len(new)] = Bad
    BY <2>1, <2>2
  <2>4. Bad # Torn
    BY TornAssumption DEF TornAssumption
  <2>5. ~Endless(new)
    BY <2>3, <2>4 DEF Endless
  <2> HIDE DEF new
  <2>6. Len(new) - 0 = Len(new)
    BY <2>2, <2>3
  <2> QED BY <1>2, <2>1, <2>3, <2>5, <2>6 DEF EndOf, new
<1>4. CASE ~Endless(ls)
  <2>1. new = Append(ls, b[i])
    BY <1>4 DEF AppendLine
  <2>2. /\ Len(new) = Len(ls) + 1 /\ Len(ls) \in Nat /\ new[Len(ls) + 1] = b[i]
        /\ DOMAIN new = 1..(Len(ls) + 1) /\ DOMAIN ls = 1..Len(ls)
        /\ \A k \in DOMAIN ls : new[k] = ls[k]
    BY <2>1
  <2>3. ~Endless(new)
    BY <2>2 DEF Endless
  <2> HIDE DEF new
  <2>4. ASSUME NEW a \in S
        PROVE  /\ Len(new) - Cardinality(After(S \cup {i}, a)) \in DOMAIN new
               /\ new[Len(new) - Cardinality(After(S \cup {i}, a))] \in {b[a], Bad}
    <3>1. After(S \cup {i}, a) = After(S, a) \cup {i} /\ i \notin After(S, a)
      OBVIOUS
    <3>2. IsFiniteSet(After(S, a))
      BY <1>1, FS_Subset
    <3>3. /\ Cardinality(After(S \cup {i}, a)) = Cardinality(After(S, a)) + 1
          /\ Cardinality(After(S, a)) \in Nat
      <4> HIDE DEF After
      <4> QED BY <3>1, <3>2, FS_AddElement, FS_CardinalityType
    <3>4. /\ Len(ls) - Cardinality(After(S, a)) \in DOMAIN ls
          /\ ls[Len(ls) - Cardinality(After(S, a))] \in {b[a], Bad}
      BY DEF EndOf
    <3> HIDE DEF After
    <3>5. Len(new) - Cardinality(After(S \cup {i}, a)) = Len(ls) - Cardinality(After(S, a))
      BY <2>2, <3>3
    <3> QED BY <2>2, <3>4, <3>5
  <2>5. /\ Len(new) - Cardinality(After(S \cup {i}, i)) \in DOMAIN new
        /\ new[Len(new) - Cardinality(After(S \cup {i}, i))] = b[i]
    <3> HIDE DEF After
    <3>1. Len(new) - Cardinality(After(S \cup {i}, i)) = Len(ls) + 1
      BY <1>2, <2>2
    <3> QED BY <2>2, <3>1
  <2>6. EndOf(S \cup {i}, b, new)
    BY <2>4, <2>5 DEF EndOf
  <2> QED BY <2>3, <2>6 DEF new
<1> QED BY <1>3, <1>4

\* A step of t leaves the group of another thread as it is: while it stores, it
\* holds the lock of its partition.
LEMMA OtherGroups ==
    ASSUME IInv, GInv, NEW t \in Threads, NEW y, u' = [u EXCEPT ![t] = y],
           \A s \in Threads \ {t} : u[s].pc = "storing" =>
               /\ part'[u[s].at] = part[u[s].at]
               /\ partition_locks'[u[s].at] = partition_locks[u[s].at],
           GroupOf(t, y, part', partition_locks')
    PROVE  GInv'
<1>1. \A s \in Threads : u'[s] = IF s = t THEN y ELSE u[s]
  BY DEF IInv, TypeOK
<1>2. ASSUME NEW s \in Threads \ {t}
      PROVE  GroupOf(s, u[s], part', partition_locks')
  BY DEF GInv, GroupOf
<1> QED BY <1>1, <1>2 DEF GInv

\* A step that leaves the files and the locks alone, and stores nothing.
LEMMA GroupQuiet ==
    ASSUME IInv, GInv, NEW t \in Threads, NEW y, u' = [u EXCEPT ![t] = y],
           UNCHANGED <<part, partition_locks>>, y.pc # "storing",
           y.pc \in {"log", "logging", "locking"} => y.pend = Group(y, y.at)
    PROVE  GInv'
<1>1. GroupOf(t, y, part', partition_locks')
  BY DEF GroupOf
<1> QED BY <1>1, OtherGroups

\* y is the call x, further on in the same group.
SameGroup(x, y) ==
    /\ y.pc \in {"logging", "locking"}
    /\ y.batch = x.batch /\ y.valid = x.valid /\ y.at = x.at /\ y.pend = x.pend

\* A step of a thread in a group that only changes where it is.
LEMMA GroupMoves ==
    ASSUME IInv, GInv, NEW t \in Threads, u[t].pc \in {"log", "logging"},
           NEW y, SameGroup(u[t], y),
           u' = [u EXCEPT ![t] = y], UNCHANGED <<part, partition_locks>>
    PROVE  GInv'
<1>1. u[t].pend = Group(u[t], u[t].at)
  BY DEF GInv, GroupOf
<1>2. Group(y, y.at) = Group(u[t], u[t].at)
  BY DEF Group, SameGroup
<1> QED BY <1>1, <1>2, GroupQuiet DEF SameGroup

\* The partition of a thread that stores is no other's.
LEMMA OneStores ==
    ASSUME IInv, GInv, NEW s \in Threads, u[s].pc = "storing"
    PROVE  partition_locks[u[s].at] = s /\ u[s].at \in Partition
<1>1. partition_locks[u[s].at] = s
  BY DEF GInv, GroupOf
<1>2. u[s].at \in Partition
  BY InCall DEF CallOK, Inside
<1> QED BY <1>1, <1>2

LEMMA StorePointGroup ==
    ASSUME IInv, GInv, NEW t \in Threads, StorePoint(t)
    PROVE  GInv'
<1>1. /\ u[t] \in CallType /\ CallOK(u[t], Held) /\ u[t].pc = "storing"
      /\ u[t].batch \in Batches
  BY InCall DEF StorePoint
<1>2. PICK i \in u[t].pend :
         /\ \A j \in u[t].pend : i =< j
         /\ part' = [part EXCEPT ![u[t].at] = AppendLine(@, u[t].batch[i])]
         /\ u' = [u EXCEPT ![t].pend = @ \ {i}]
  BY DEF StorePoint
<1> DEFINE y == [u[t] EXCEPT !.pend = @ \ {i}]
           S == StoredOf(u[t])
           f == part[u[t].at]
<1>3. u' = [u EXCEPT ![t] = y]
  BY <1>1, <1>2 DEF IInv, TypeOK
<1>4. /\ y.pc = "storing" /\ y.batch = u[t].batch /\ y.valid = u[t].valid /\ y.at = u[t].at
      /\ y.pend = u[t].pend \ {i}
  BY <1>1 DEF CallType
<1> HIDE DEF y
<1>5. /\ partition_locks' = partition_locks
      /\ partition_locks[u[t].at] = t /\ u[t].at \in Partition
  BY <1>1, OneStores DEF StorePoint
<1>6. /\ \A a \in S : \A j \in u[t].pend : a < j
      /\ S # {} => ~Endless(f)
      /\ EndOf(S, u[t].batch, f)
  BY <1>1 DEF GInv, GroupOf
<1>7. i \in Group(u[t], u[t].at) /\ Group(y, y.at) = Group(u[t], u[t].at)
  BY <1>1, <1>4 DEF CallOK, Inside, Group
<1>8. StoredOf(y) = S \cup {i}
  BY <1>4, <1>7 DEF StoredOf
<1>9. /\ u[t].valid \subseteq 1..Len(u[t].batch) /\ Len(u[t].batch) \in Nat
      /\ u[t].batch[i] \in Point
  <2>1. u[t].batch \in Seq(Point) /\ u[t].valid \subseteq DOMAIN u[t].batch
    BY <1>1, BatchType DEF CallOK
  <2>2. i \in u[t].valid
    BY <1>7 DEF Group
  <2> QED BY <2>1, <2>2
<1>10. S \in SUBSET (1..Len(u[t].batch)) /\ i \in 1..Len(u[t].batch)
  BY <1>7, <1>9 DEF StoredOf, Group
<1>11. part'[u[t].at] = AppendLine(f, u[t].batch[i]) /\ f \in Seq(Point \cup {Torn, Bad})
  BY <1>2, <1>5 DEF IInv, TypeOK
<1>12. Torn \notin Point
  BY WriterAssumption, Zenon DEF WriterAssumption
<1>13. /\ EndOf(S \cup {i}, u[t].batch, part'[u[t].at])
       /\ ~Endless(part'[u[t].at])
  <2>1. \A a \in S : a < i
    BY <1>6
  <2> HIDE DEF S, f
  <2>2. /\ EndOf(S \cup {i}, u[t].batch, AppendLine(f, u[t].batch[i]))
        /\ ~Endless(AppendLine(f, u[t].batch[i]))
    BY <1>6, <1>9, <1>10, <1>11, <1>12, <2>1, EndKept
  <2> QED BY <1>11, <2>2
<1>14. \A a \in S \cup {i} : \A j \in u[t].pend \ {i} : a < j
  <2>1. u[t].pend \subseteq Nat
    BY <1>1 DEF CallType
  <2> HIDE DEF S
  <2> QED BY <1>2, <1>6, <2>1
<1> HIDE DEF S, f
<1>15. GroupOf(t, y, part', partition_locks')
  BY <1>4, <1>5, <1>8, <1>13, <1>14 DEF GroupOf
<1>16. ASSUME NEW s \in Threads \ {t}, u[s].pc = "storing"
       PROVE  part'[u[s].at] = part[u[s].at]
  <2>1. partition_locks[u[s].at] = s /\ u[s].at \in Partition
    BY <1>16, OneStores
  <2>2. u[s].at # u[t].at
    BY <1>5, <2>1
  <2> QED BY <1>2, <1>5, <2>1, <2>2 DEF IInv, TypeOK
<1> QED BY <1>3, <1>5, <1>15, <1>16, OtherGroups

\* Taking the lock of a partition, or leaving its file for good.
LEMMA LockGroup ==
    ASSUME IInv, GInv, NEW t \in Threads,
           TakePartitionLock(t) \/ CloseFile(t) \/ StoreRaises(t) \/ StoreError(t)
    PROVE  GInv'
<1>1. u[t] \in CallType /\ u[t].at \in Partition
  BY InCall DEF TakePartitionLock, CloseFile, StoreRaises, StoreError, CallOK, Inside
<1>2. CASE TakePartitionLock(t)
  <2> DEFINE y == [u[t] EXCEPT !.pc = "storing"]
  <2>1. /\ u' = [u EXCEPT ![t] = y] /\ u[t].pc = "locking" /\ part' = part
        /\ partition_locks[u[t].at] = Free
        /\ partition_locks' = [partition_locks EXCEPT ![u[t].at] = t]
    BY <1>1, <1>2 DEF TakePartitionLock, IInv, TypeOK
  <2>2. /\ y.pc = "storing" /\ y.batch = u[t].batch /\ y.valid = u[t].valid
        /\ y.at = u[t].at /\ y.pend = u[t].pend
    BY <1>1 DEF CallType
  <2> HIDE DEF y
  <2>3. StoredOf(y) = {}
    <3>1. u[t].pend = Group(u[t], u[t].at)
      BY <2>1 DEF GInv, GroupOf
    <3> QED BY <2>2, <3>1 DEF StoredOf, Group
  <2>4. partition_locks'[u[t].at] = t
    BY <1>1, <2>1 DEF IInv, TypeOK
  <2>5. GroupOf(t, y, part', partition_locks')
    BY <2>2, <2>3, <2>4 DEF GroupOf, EndOf
  <2>6. ASSUME NEW s \in Threads \ {t}, u[s].pc = "storing"
        PROVE  partition_locks'[u[s].at] = partition_locks[u[s].at]
    <3>1. partition_locks[u[s].at] = s /\ u[s].at \in Partition
      BY <2>6, OneStores
    <3>2. Free \notin Threads
      BY WriterAssumption, Zenon DEF WriterAssumption, Threads
    <3> QED BY <2>1, <3>1, <3>2 DEF IInv, TypeOK
  <2> QED BY <2>1, <2>5, <2>6, OtherGroups
<1>3. CASE CloseFile(t) \/ StoreRaises(t) \/ StoreError(t)
  <2>1. /\ u' = [u EXCEPT ![t] = Stored(u[t])] \/ u' = [u EXCEPT ![t] = Failed(u[t])]
        /\ u[t].pc = "storing"
        /\ part' = part \/ part' = [part EXCEPT ![u[t].at] = AppendTorn(@)]
        /\ partition_locks' = [partition_locks EXCEPT ![u[t].at] = Free]
    BY <1>3 DEF CloseFile, StoreRaises, StoreError
  <2>2. Stored(u[t]).pc = "next" /\ Failed(u[t]).pc = "next"
    BY <1>1 DEF Stored, Failed, CallType
  <2>3. /\ GroupOf(t, Stored(u[t]), part', partition_locks')
        /\ GroupOf(t, Failed(u[t]), part', partition_locks')
    BY <2>2 DEF GroupOf
  <2>4. ASSUME NEW s \in Threads \ {t}, u[s].pc = "storing"
        PROVE  /\ part'[u[s].at] = part[u[s].at]
               /\ partition_locks'[u[s].at] = partition_locks[u[s].at]
    <3>1. partition_locks[u[s].at] = s /\ u[s].at \in Partition
      BY <2>4, OneStores
    <3>2. u[s].at # u[t].at
      BY <2>1, <3>1, OneStores
    <3> QED BY <2>1, <3>1, <3>2 DEF IInv, TypeOK
  <2>5. CASE u' = [u EXCEPT ![t] = Stored(u[t])]
    BY <2>3, <2>4, <2>5, OtherGroups
  <2>6. CASE u' = [u EXCEPT ![t] = Failed(u[t])]
    BY <2>3, <2>4, <2>6, OtherGroups
  <2> QED BY <2>1, <2>5, <2>6
<1> QED BY <1>2, <1>3

LEMMA NextPartitionGroup ==
    ASSUME IInv, GInv, NEW t \in Threads, NextPartition(t)
    PROVE  GInv'
<1>1. u[t] \in CallType
  BY DEF IInv, TypeOK
<1>2. PICK first \in u[t].rest :
         u' = [u EXCEPT ![t].pc = IF UsesWal(u[t]) THEN "log" ELSE "locking",
                        ![t].at = PartitionOf[u[t].batch[first]],
                        ![t].pend = Group(u[t], PartitionOf[u[t].batch[first]]),
                        ![t].rest = @ \ Group(u[t], PartitionOf[u[t].batch[first]])]
  BY DEF NextPartition
<1> DEFINE q == PartitionOf[u[t].batch[first]]
           pc == IF UsesWal(u[t]) THEN "log" ELSE "locking"
           y == [u[t] EXCEPT !.pc = pc, !.at = q, !.pend = Group(u[t], q),
                             !.rest = @ \ Group(u[t], q)]
<1>3. u' = [u EXCEPT ![t] = y]
  BY <1>1, <1>2 DEF IInv, TypeOK
<1>4. /\ y.pc = pc /\ y.batch = u[t].batch /\ y.valid = u[t].valid /\ y.at = q
      /\ y.pend = Group(u[t], q)
  BY <1>1 DEF CallType
<1>5. pc # "storing"
  OBVIOUS
<1> HIDE DEF y, pc
<1>6. Group(y, y.at) = Group(u[t], q)
  BY <1>4 DEF Group
<1>7. UNCHANGED <<part, partition_locks>>
  BY DEF NextPartition, store
<1> QED BY <1>3, <1>4, <1>5, <1>6, <1>7, GroupQuiet

LEMMA GroupKept ==
    ASSUME IInv, GInv, [Next]_vars, IInv'
    PROVE  GInv'
<1>1. ASSUME NEW t \in Writers, NEW b \in Batches, NEW mode \in Modes, BatchBegin(t, b, mode)
      PROVE  GInv'
  <2> DEFINE y == [IdleCall EXCEPT !.pc = "next", !.batch = b, !.mode = mode,
                                   !.valid = Valid(b), !.rest = Valid(b)]
  <2>1. u' = [u EXCEPT ![t] = y] /\ UNCHANGED <<part, partition_locks>> /\ t \in Threads
    BY <1>1 DEF BatchBegin, store, Threads
  <2>2. y.pc = "next"
    BY DEF IdleCall
  <2> HIDE DEF y
  <2> QED BY <2>1, <2>2, GroupQuiet
<1>2. ASSUME NEW t \in Threads, LogRaises(t) \/ RotateError(t) \/ Return(t)
      PROVE  GInv'
  <2>1. u' = [u EXCEPT ![t] = IdleCall] /\ UNCHANGED <<part, partition_locks>>
    BY <1>2 DEF LogRaises, RotateError, Return, store
  <2>2. IdleCall.pc = "idle"
    BY DEF IdleCall
  <2> QED BY <2>1, <2>2, GroupQuiet
<1>3. ASSUME NEW t \in Threads, Retry(t)
      PROVE  GInv'
  <2> DEFINE y == [u[t] EXCEPT !.rest = u[t].valid, !.ok = {}, !.bad = {}, !.tries = @ + 1]
  <2>1. u' = [u EXCEPT ![t] = y] /\ UNCHANGED <<part, partition_locks>> /\ u[t].pc = "next"
    BY <1>3 DEF Retry, store, IInv, TypeOK
  <2>2. y.pc = "next"
    BY <2>1 DEF IInv, TypeOK, CallType
  <2> HIDE DEF y
  <2> QED BY <2>1, <2>2, GroupQuiet
<1>4. ASSUME NEW t \in Threads, TakeWalLock(t) \/ AppendEntry(t) \/ LogError(t)
      PROVE  GInv'
  <2>1. u[t] \in CallType
    BY DEF IInv, TypeOK
  <2>2. PICK y : SameGroup(u[t], y) /\ u' = [u EXCEPT ![t] = y]
    <3>1. CASE TakeWalLock(t)
      <4>1. PICK n \in DOMAIN segments \cup {0} :
               u' = [u EXCEPT ![t].pc = "logging", ![t].last = n]
        BY <3>1 DEF TakeWalLock
      <4> DEFINE z == [u[t] EXCEPT !.pc = "logging", !.last = n]
      <4>2. u' = [u EXCEPT ![t] = z]
        BY <2>1, <4>1 DEF IInv, TypeOK
      <4>3. SameGroup(u[t], z)
        BY <2>1 DEF CallType, SameGroup
      <4> HIDE DEF z
      <4> QED BY <4>2, <4>3
    <3>2. CASE AppendEntry(t) \/ LogError(t)
      <4> DEFINE z == [u[t] EXCEPT !.pc = "locking"]
      <4>1. u' = [u EXCEPT ![t] = z]
        BY <3>2 DEF AppendEntry, LogError
      <4>2. SameGroup(u[t], z)
        BY <2>1 DEF CallType, SameGroup
      <4> HIDE DEF z
      <4> QED BY <4>1, <4>2
    <3> QED BY <1>4, <3>1, <3>2
  <2>3. u[t].pc \in {"log", "logging"} /\ UNCHANGED <<part, partition_locks>>
    BY <1>4 DEF TakeWalLock, AppendEntry, LogError, store
  <2> QED BY <2>2, <2>3, GroupMoves
<1>5. ASSUME NEW t \in Threads, CallStep(t) \/ ErrorStep(t), ~RotateWal(t)
      PROVE  GInv'
  BY <1>2, <1>3, <1>4, <1>5, NextPartitionGroup, StorePointGroup, LockGroup
     DEF CallStep, ErrorStep, LogStep, StoreStep
<1>6. CASE UNCHANGED <<u, part, partition_locks>>
  BY <1>6 DEF GInv
<1>7. ASSUME NEW t \in Threads, RotateWal(t) PROVE GInv'
  BY <1>6, <1>7 DEF RotateWal, store
<1>8. CASE ReplayBegin \/ ReplayStep
  <2>1. UNCHANGED <<part, partition_locks>>
    BY <1>8 DEF ReplayBegin, ReplayStep, ReplayLine, ReplayEndOfFile, ReplayRemove, ReplayEnd,
               store
  <2>2. u' = u \/ \E x : u' = [u EXCEPT ![Replayer] = x]
    BY <1>8 DEF ReplayBegin, ReplayStep, ReplayLine, ReplayEndOfFile, ReplayRemove, ReplayEnd
  <2>3. u'[Replayer] = u[Replayer] /\ Replayer \in Threads
    BY DEF IInv, ReplayInv, Threads
  <2>4. u' = u
    BY <2>2, <2>3 DEF IInv, TypeOK
  <2> QED BY <1>6, <2>1, <2>4
<1>9. CASE Crash
  <2>1. \A t \in Threads : u'[t].pc = "idle"
    BY <1>9 DEF Crash, IdleCall
  <2> QED BY <2>1 DEF GInv, GroupOf
<1>10. CASE UNCHANGED vars
  BY <1>6, <1>10 DEF vars, store
<1> QED BY <1>1, <1>5, <1>7, <1>8, <1>9, <1>10 DEF Next

\* The lock of a partition keeps the lines of a group together.
THEOREM Group_together == Spec => []GroupTogether
<1>1. Init => GInv
  BY DEF Init, IdleCall, GInv, GroupOf
<1>2. IInv /\ IInv' /\ GInv /\ [Next]_vars => GInv'
  BY GroupKept
<1>3. GInv => GroupTogether
  BY DEF GInv, GroupOf, EndOf, StoredOf, GroupTogether
<1> QED BY <1>1, <1>2, <1>3, Inductive, PTL DEF Spec
=============================================================================
