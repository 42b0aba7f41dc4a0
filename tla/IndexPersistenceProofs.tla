----------------------- MODULE IndexPersistenceProofs -----------------------
(***************************************************************************)
(* Proofs about IndexPersistence, for every set of tags and locations and  *)
(* every bound: nothing is lost, and it implements DurableIndex.           *)
(***************************************************************************)
EXTENDS IndexPersistence, JsonLinesProofs, WellFoundedInduction

\* Memory and snapshot differ only in entries the log has a line about.
SnapshotAgrees ==
    (pc \notin {"down", "unreadable"} /\ Parses(updates)) =>
        \A e \in Entry :
            (\A j \in DOMAIN updates : ~About(updates[j], e)) =>
                (e \in tag_index <=> e \in memory)

IInv ==
    /\ PersistenceTypeOK
    /\ unended => updates # <<>>
    /\ SnapshotAgrees
    /\ pc = "down" => doubtful = {}
    /\ pc = "appending" => op \in Update
    /\ pc = "replaced" => tag_index = memory
    /\ NothingToLose

-----------------------------------------------------------------------------
(* The replay, line by line *)

LEMMA LeastOfNaturals ==
    ASSUME NEW T \in SUBSET Nat, T # {}
    PROVE  \E x \in T : \A y \in T : x =< y
<1> DEFINE R == {ss \in Nat \X Nat : ss[1] < ss[2]}
<1>1. IsWellFoundedOn(R, Nat)
  BY NatLessThanWellFounded DEF OpToRel
<1>2. \A x, y \in Nat : <<y, x>> \in R <=> y < x
  OBVIOUS
<1> HIDE DEF R
<1>3. PICK x \in T : \A y \in T : ~(<<y, x>> \in R)
  BY <1>1, WFMin
<1>4. x \in Nat /\ \A y \in T : y \in Nat /\ ~(y < x)
  BY <1>2, <1>3, Zenon
<1>5. \A y \in T : x =< y
  BY <1>4
<1> QED BY <1>5

LEMMA LastPlace ==
    ASSUME NEW n \in Nat, NEW s \in SUBSET (1..n), s # {}
    PROVE  Max(s) \in s /\ \A j \in s : j =< Max(s)
<1> DEFINE T == {n - j : j \in s}
<1>1. T \in SUBSET Nat /\ T # {}
  OBVIOUS
<1>2. PICK x \in T : \A y \in T : x =< y
  BY <1>1, LeastOfNaturals
<1>3. PICK m \in s : x = n - m
  OBVIOUS
<1>4. ASSUME NEW j \in s PROVE m >= j
  <2>1. n - j \in T /\ m \in Int /\ j \in Int
    OBVIOUS
  <2>2. n - m =< n - j
    BY <1>2, <1>3, <2>1
  <2> HIDE DEF T
  <2> QED BY <2>1, <2>2
<1> HIDE DEF T
<1>5. Max(s) \in s /\ \A j \in s : Max(s) >= j
  BY <1>3, <1>4 DEF Max
<1> QED BY <1>5

\* An update decides about its entries and leaves the others.
LEMMA ApplyAbout ==
    ASSUME NEW index \in SUBSET Entry, NEW x \in Update, NEW e \in Entry
    PROVE  e \in Apply(index, x) <=> Adds(x, e) \/ (e \in index /\ ~Removes(x, e))
<1>1. CASE x.op = "add"
  <2>1. e = [tag |-> x.tag, location |-> x.location] <=> Adds(x, e)
    BY <1>1 DEF Entry, Update, Adds
  <2> QED BY <1>1, <2>1 DEF Apply, AddEntry, Removes
<1>2. CASE x.op = "remove"
  BY <1>2 DEF Apply, RemoveLocation, Adds, Removes
<1> QED BY <1>1, <1>2 DEF Update

\* The replay of some of the lines: what decides about an entry is the last of
\* them that is about it.
ReplayedOf(snapshot, ls, s) ==
    {e \in Entry :
        \/ e \in snapshot /\ \A j \in s : ~Removes(ls[j], e)
        \/ \E i \in s :
              Adds(ls[i], e) /\ \A j \in s : j > i => ~Removes(ls[j], e)}

\* The last of them is applied last.
LEMMA LastApplied ==
    ASSUME NEW ls \in Seq(Update), NEW s \in SUBSET DOMAIN ls, NEW m \in s,
           \A j \in s : j =< m, NEW snapshot
    PROVE  ReplayedOf(snapshot, ls, s) = Apply(ReplayedOf(snapshot, ls, s \ {m}), ls[m])
<1> DEFINE before == ReplayedOf(snapshot, ls, s \ {m})
<1>1. ls[m] \in Update /\ before \in SUBSET Entry /\ ReplayedOf(snapshot, ls, s) \in SUBSET Entry
  BY DEF ReplayedOf
<1>2. \A j \in s : j \in Int /\ (j > m <=> FALSE) /\ (j # m => m > j)
  OBVIOUS
<1>3. ASSUME NEW e \in Entry
      PROVE  e \in ReplayedOf(snapshot, ls, s) <=>
                Adds(ls[m], e) \/ (e \in before /\ ~Removes(ls[m], e))
  <2>1. Adds(ls[m], e) => ~Removes(ls[m], e)
    BY DEF Adds, Removes
  <2> QED BY <1>2, <2>1 DEF ReplayedOf
<1>4. ASSUME NEW e \in Entry
      PROVE  e \in Apply(before, ls[m]) <=> Adds(ls[m], e) \/ (e \in before /\ ~Removes(ls[m], e))
  BY <1>1, ApplyAbout
<1>5. Apply(before, ls[m]) \in SUBSET Entry
  <2>1. ls[m].op = "add" => [tag |-> ls[m].tag, location |-> ls[m].location] \in Entry
    BY <1>1 DEF Entry, Update
  <2> HIDE DEF before
  <2> QED BY <1>1, <2>1 DEF Apply, AddEntry, RemoveLocation
<1> HIDE DEF before
<1>6. ReplayedOf(snapshot, ls, s) = Apply(before, ls[m])
  BY <1>1, <1>3, <1>4, <1>5
<1> QED BY <1>6 DEF before

\* What the fold over the lines is: the function it picks exists, and at the
\* first lines it has no other value than their replay.
LEMMA ReplayedIsFold ==
    ASSUME NEW ls \in Seq(Update), NEW snapshot \in SUBSET Entry
    PROVE  Replayed(snapshot, ls) = ReplayedOf(snapshot, ls, DOMAIN ls)
<1> DEFINE n == Len(ls)
           Folds(f) == f = [s \in SUBSET DOMAIN ls |->
                               IF s = {} THEN snapshot ELSE Apply(f[s \ {Max(s)}], ls[Max(s)])]
           f0 == [s \in SUBSET DOMAIN ls |-> ReplayedOf(snapshot, ls, s)]
           fold == CHOOSE f : Folds(f)
<1>1. n \in Nat /\ DOMAIN ls = 1..n
  OBVIOUS
<1>2. \A s \in SUBSET DOMAIN ls : s # {} => Max(s) \in s /\ \A j \in s : j =< Max(s)
  BY <1>1, LastPlace
<1>3. Folds(f0)
  <2>1. ReplayedOf(snapshot, ls, {}) = snapshot
    BY DEF ReplayedOf
  <2>2. ASSUME NEW s \in SUBSET DOMAIN ls, s # {}
        PROVE  f0[s] = Apply(f0[s \ {Max(s)}], ls[Max(s)])
    <3>1. PICK m \in s : m = Max(s) /\ \A j \in s : j =< m
      BY <1>2, <2>2
    <3>2. f0[s] = ReplayedOf(snapshot, ls, s) /\ f0[s \ {m}] = ReplayedOf(snapshot, ls, s \ {m})
      OBVIOUS
    <3>3. ReplayedOf(snapshot, ls, s) = Apply(ReplayedOf(snapshot, ls, s \ {m}), ls[m])
      BY <3>1, LastApplied
    <3> QED BY <3>1, <3>2, <3>3
  <2> HIDE DEF f0
  <2>3. f0 = [s \in SUBSET DOMAIN ls |-> f0[s]]
    BY DEF f0
  <2>4. \A s \in SUBSET DOMAIN ls :
           f0[s] = IF s = {} THEN snapshot ELSE Apply(f0[s \ {Max(s)}], ls[Max(s)])
    BY <2>1, <2>2 DEF f0
  <2> QED BY <2>3, <2>4
<1>4. Folds(fold)
  <2> HIDE DEF f0, Folds
  <2> QED BY <1>3
<1>5. FoldLeft(Apply, snapshot, ls) = fold[DOMAIN ls]
  BY DEF FoldLeft, MapThenFoldSet
<1> HIDE DEF fold
<1>6. \A k \in 0..n : fold[1..k] = ReplayedOf(snapshot, ls, 1..k)
  <2> DEFINE T == {k \in 0..n : fold[1..k] # ReplayedOf(snapshot, ls, 1..k)}
  <2> SUFFICES ASSUME T # {} PROVE FALSE
    OBVIOUS
  <2>1. T \in SUBSET Nat
    BY <1>1
  <2>2. PICK k \in T : \A y \in T : k =< y
    BY <2>1, LeastOfNaturals
  <2>3. CASE k = 0
    <3>1. 1..k = {} /\ ReplayedOf(snapshot, ls, {}) = snapshot
      BY <2>3 DEF ReplayedOf
    <3>2. fold[{}] = snapshot
      BY <1>4
    <3> QED BY <2>2, <3>1, <3>2
  <2>4. CASE k # 0
    <3>1. k \in 1..n /\ k - 1 \in 0..n /\ k - 1 \notin T
      BY <1>1, <2>2, <2>4
    <3>2. /\ 1..k \in SUBSET DOMAIN ls /\ 1..k # {} /\ k \in 1..k /\ (\A j \in 1..k : j =< k)
          /\ (1..k) \ {k} = 1..(k - 1)
      <4>1. k \in Int /\ n \in Int /\ 1 =< k /\ k =< n
        BY <1>1, <3>1
      <4>2. k \in 1..k /\ \A j \in 1..k : j =< k
        BY <4>1
      <4>3. (1..k) \ {k} = 1..(k - 1)
        BY <4>1
      <4>4. 1..k \in SUBSET (1..n)
        BY <4>1
      <4> QED BY <1>1, <4>2, <4>3, <4>4
    <3>3. Max(1..k) = k
      <4>1. PICK m \in 1..k : m = Max(1..k) /\ \A j \in 1..k : j =< m
        BY <1>2, <3>2
      <4> QED BY <3>2, <4>1
    <3>4. fold[1..k] = Apply(fold[1..(k - 1)], ls[k])
      BY <1>4, <3>2, <3>3
    <3>5. fold[1..(k - 1)] = ReplayedOf(snapshot, ls, 1..(k - 1))
      BY <3>1
    <3>6. ReplayedOf(snapshot, ls, 1..k) = Apply(ReplayedOf(snapshot, ls, 1..(k - 1)), ls[k])
      BY <3>2, LastApplied
    <3> QED BY <2>2, <3>4, <3>5, <3>6
  <2> QED BY <2>3, <2>4
<1>7. fold[DOMAIN ls] = ReplayedOf(snapshot, ls, DOMAIN ls)
  BY <1>1, <1>6
<1> QED BY <1>5, <1>7 DEF Replayed

-----------------------------------------------------------------------------
(* What is read back *)

LEMMA ParsedLog ==
    ASSUME NEW ls \in Seq(LinesOf(Update)), Parses(ls)
    PROVE  ls \in Seq(Update)
BY DEF Parses, LinesOf

LEMMA ReplayedType ==
    ASSUME NEW ls \in Seq(LinesOf(Update)), Parses(ls), NEW snapshot \in SUBSET Entry
    PROVE  /\ Replayed(snapshot, ls) = ReplayedOf(snapshot, ls, DOMAIN ls)
           /\ Replayed(snapshot, ls) \in SUBSET Entry
BY ParsedLog, ReplayedIsFold DEF ReplayedOf

LEMMA ReplayedNone ==
    ASSUME NEW snapshot \in SUBSET Entry
    PROVE  Replayed(snapshot, <<>>) = snapshot /\ Parses(<<>>)
<1>1. Parses(<<>>) /\ <<>> \in Seq(LinesOf(Update)) /\ DOMAIN (<<>>) = {}
  BY DEF Parses
<1>2. ReplayedOf(snapshot, <<>>, {}) = snapshot
  BY DEF ReplayedOf
<1> QED BY <1>1, <1>2, ReplayedType

\* A log of updates grows by one line, which is applied last.
LEMMA ReplayedAppend ==
    ASSUME NEW ls \in Seq(LinesOf(Update)), Parses(ls), NEW x \in Update,
           NEW snapshot \in SUBSET Entry
    PROVE  /\ AppendLine(ls, x) = Append(ls, x) /\ Parses(Append(ls, x))
           /\ Replayed(snapshot, Append(ls, x)) = Apply(Replayed(snapshot, ls), x)
<1> DEFINE new == Append(ls, x)
           m == Len(ls) + 1
<1>1. AppendLine(ls, x) = new
  BY DEF AppendLine, Endless, Parses
<1>2. /\ ls \in Seq(Update) /\ new \in Seq(Update) /\ new \in Seq(LinesOf(Update))
      /\ DOMAIN new = 1..m /\ DOMAIN ls = 1..Len(ls) /\ Len(ls) \in Nat
      /\ new[m] = x /\ \A i \in DOMAIN ls : new[i] = ls[i]
  BY ParsedLog DEF LinesOf
<1>3. Parses(new)
  BY <1>2, PersistenceAssumption DEF Parses
<1> HIDE DEF new
<1>4. m \in DOMAIN new /\ (\A j \in DOMAIN new : j =< m) /\ DOMAIN new \ {m} = DOMAIN ls
  BY <1>2
<1> HIDE DEF m
<1>5. ReplayedOf(snapshot, new, DOMAIN new) = Apply(ReplayedOf(snapshot, new, DOMAIN ls), x)
  BY <1>2, <1>4, LastApplied
<1>6. ReplayedOf(snapshot, new, DOMAIN ls) = ReplayedOf(snapshot, ls, DOMAIN ls)
  BY <1>2 DEF ReplayedOf
<1>7. /\ Replayed(snapshot, new) = ReplayedOf(snapshot, new, DOMAIN new)
      /\ Replayed(snapshot, ls) = ReplayedOf(snapshot, ls, DOMAIN ls)
  BY <1>2, <1>3, ReplayedType
<1> QED BY <1>1, <1>3, <1>5, <1>6, <1>7 DEF new

\* What the log has a line about does not depend on the snapshot.
LEMMA ReplayedAbout ==
    ASSUME NEW ls \in Seq(LinesOf(Update)), Parses(ls),
           NEW old \in SUBSET Entry, NEW new \in SUBSET Entry,
           \A e \in Entry : (\A j \in DOMAIN ls : ~About(ls[j], e)) => (e \in old <=> e \in new)
    PROVE  Replayed(old, ls) = Replayed(new, ls)
<1> DEFINE of(index) == ReplayedOf(index, ls, DOMAIN ls)
<1>1. ASSUME NEW e \in Entry
      PROVE  e \in of(old) <=> e \in of(new)
  <2>1. CASE \A j \in DOMAIN ls : ~About(ls[j], e)
    BY <2>1 DEF ReplayedOf
  <2>2. CASE \E j \in DOMAIN ls : Removes(ls[j], e)
    BY <2>2 DEF ReplayedOf
  <2>3. CASE (\E i \in DOMAIN ls : Adds(ls[i], e)) /\ \A j \in DOMAIN ls : ~Removes(ls[j], e)
    BY <2>3 DEF ReplayedOf
  <2> QED BY <2>1, <2>2, <2>3 DEF About
<1>2. of(old) \in SUBSET Entry /\ of(new) \in SUBSET Entry
  BY DEF ReplayedOf
<1>3. of(old) = of(new)
  BY <1>1, <1>2
<1> QED BY <1>3, ReplayedType

LEMMA ReplayedNothing ==
    ASSUME NEW ls \in Seq(LinesOf(Update)), Parses(ls), NEW snapshot \in SUBSET Entry,
           NEW e \in Entry, \A j \in DOMAIN ls : ~About(ls[j], e)
    PROVE  e \in Replayed(snapshot, ls) <=> e \in snapshot
<1>1. e \in ReplayedOf(snapshot, ls, DOMAIN ls) <=> e \in snapshot
  BY DEF ReplayedOf, About
<1> QED BY <1>1, ReplayedType

\* A torn line stays in the way until the log is removed.
LEMMA StaysUnreadable ==
    ASSUME NEW ls \in Seq(LinesOf(Update)), ~Parses(ls), NEW x \in Update
    PROVE  ~Parses(AppendLine(ls, x))
<1>1. PICK i \in DOMAIN ls : ls[i] \in {Torn, Bad}
  BY DEF Parses
<1>2. /\ i \in DOMAIN AppendLine(ls, x)
      /\ \/ AppendLine(ls, x)[i] = ls[i]
         \/ ls[i] = Torn /\ AppendLine(ls, x)[i] = Bad
  BY AppendLineKeeps
<1> QED BY <1>1, <1>2 DEF Parses

LEMMA TornUnreadable ==
    ASSUME NEW ls \in Seq(LinesOf(Update))
    PROVE  ~Parses(AppendTorn(ls))
<1>1. CASE Endless(ls)
  BY <1>1 DEF AppendTorn, Endless, Parses
<1>2. CASE ~Endless(ls)
  <2>1. AppendTorn(ls) = Append(ls, Torn)
    BY <1>2 DEF AppendTorn
  <2>2. Len(ls) + 1 \in DOMAIN Append(ls, Torn) /\ Append(ls, Torn)[Len(ls) + 1] = Torn
    BY DEF LinesOf
  <2> QED BY <2>1, <2>2 DEF Parses
<1> QED BY <1>1, <1>2

\* The lines of a log that grew.
LEMMA LogGrows ==
    ASSUME NEW ls \in Seq(LinesOf(Update)), NEW x \in Update, NEW e,
           Parses(AppendLine(ls, x)),
           \A j \in DOMAIN AppendLine(ls, x) : ~About(AppendLine(ls, x)[j], e)
    PROVE  Parses(ls) /\ ~About(x, e) /\ \A j \in DOMAIN ls : ~About(ls[j], e)
<1>1. Parses(ls)
  BY StaysUnreadable
<1>2. AppendLine(ls, x) = Append(ls, x)
  BY <1>1 DEF AppendLine, Endless, Parses
<1>3. /\ Len(ls) + 1 \in DOMAIN Append(ls, x) /\ Append(ls, x)[Len(ls) + 1] = x
      /\ \A i \in DOMAIN ls : i \in DOMAIN Append(ls, x) /\ Append(ls, x)[i] = ls[i]
  BY DEF LinesOf
<1> QED BY <1>1, <1>2, <1>3

LEMMA LinesType == LinesOf(Update) = Update \cup {Torn, Bad}
BY DEF LinesOf

\* Behind a line without its newline, nothing that is appended can be read.
LEMMA OpenedLog ==
    ASSUME IInv
    PROVE  /\ Opened \in Seq(LinesOf(Update))
           /\ unended => ~Parses(Opened)
           /\ ~unended => Opened = updates
<1>1. updates \in Seq(LinesOf(Update)) /\ Torn \in LinesOf(Update)
  BY LinesType DEF IInv, PersistenceTypeOK
<1>2. CASE unended
  <2>1. Len(updates) \in DOMAIN updates
    BY <1>1, <1>2 DEF IInv
  <2>2. Opened = [updates EXCEPT ![Len(updates)] = Torn]
    BY <1>2 DEF Opened
  <2>3. Len(updates) \in DOMAIN Opened /\ Opened[Len(updates)] = Torn
    BY <1>1, <2>1, <2>2
  <2> QED BY <1>1, <1>2, <2>1, <2>2, <2>3 DEF Parses
<1> QED BY <1>1, <1>2 DEF Opened

\* A failed append leaves the log as it was, unreadable, or with its update.
LEMMA CutShortLeaves ==
    ASSUME IInv, CutShort
    PROVE  /\ updates' \in Seq(LinesOf(Update)) /\ unended' \in BOOLEAN
           /\ unended' => updates' # <<>>
           /\ \/ UNCHANGED log
              \/ ~Parses(updates')
              \/ pc = "appending" /\ op \in Update /\ updates' = AppendLine(Opened, op)
<1>1. /\ Opened \in Seq(LinesOf(Update)) /\ updates \in Seq(LinesOf(Update))
      /\ unended \in BOOLEAN
  BY OpenedLog, LinesType DEF IInv, PersistenceTypeOK
<1>2. CASE UNCHANGED log
  BY <1>1, <1>2 DEF log, IInv
<1>3. CASE pc = "appending" /\ updates' = AppendTorn(Opened) /\ unended' = FALSE
  BY <1>1, <1>3, AppendTornKeeps, TornUnreadable
<1>4. CASE /\ pc = "appending" /\ ~Endless(Opened)
           /\ updates' = Append(Opened, op) /\ unended' = TRUE
  <2>1. op \in Update /\ op \in LinesOf(Update) /\ updates' = AppendLine(Opened, op)
    BY <1>4, LinesType DEF IInv, AppendLine
  <2>2. Append(Opened, op) \in Seq(LinesOf(Update)) /\ Append(Opened, op) # <<>>
    BY <1>1, <2>1
  <2> QED BY <1>4, <2>1, <2>2
<1>5. CASE pc = "appending" /\ updates' = AppendLine(Opened, op) /\ unended' = FALSE
  BY <1>1, <1>5, AppendLineKeeps DEF IInv
<1> QED BY <1>2, <1>3, <1>4, <1>5 DEF CutShort

-----------------------------------------------------------------------------
(* The invariant *)

LEMMA InitIInv == PersistenceInit => IInv
<1> SUFFICES ASSUME PersistenceInit PROVE IInv
  OBVIOUS
<1>1. Replayed(tag_index, updates) = memory
  BY ReplayedNone DEF PersistenceInit
<1>2. PersistenceTypeOK
  <2>1. updates \in Seq(Update \cup {Torn, Bad})
    BY DEF PersistenceInit
  <2>2. unended \in BOOLEAN
    BY Zenon DEF PersistenceInit
  <2>3. op \in Update \cup {NoUpdate}
    BY DEF PersistenceInit
  <2> QED BY <2>1, <2>2, <2>3 DEF PersistenceInit, PersistenceTypeOK
<1> QED BY <1>1, <1>2 DEF PersistenceInit, IInv, NothingToLose, SnapshotAgrees

\* The log, and what is doubtful, only grow by an update; it is applied or not.
LEMMA AppendKeeps ==
    ASSUME IInv, pc = "appending", updates' = AppendLine(Opened, op), tag_index' = tag_index,
           \/ memory' = Apply(memory, op) /\ doubtful' = doubtful
           \/ memory' = memory /\ doubtful' = doubtful \cup {op}
    PROVE  NothingToLose' /\ SnapshotAgrees'
<1>0. ASSUME Parses(updates') PROVE updates' = AppendLine(updates, op) /\ Parses(updates)
  <2>1. op \in Update /\ Opened \in Seq(LinesOf(Update))
    BY OpenedLog DEF IInv
  <2>2. Parses(Opened)
    BY <1>0, <2>1, StaysUnreadable
  <2> QED BY <2>2, OpenedLog
<1> USE DEF IInv
<1>1. /\ op \in Update /\ memory \in SUBSET Entry /\ tag_index \in SUBSET Entry
      /\ updates \in Seq(LinesOf(Update))
  BY LinesType DEF PersistenceTypeOK
<1>2. ASSUME Parses(updates'), NEW e \in Entry, \A j \in DOMAIN updates' : ~About(updates'[j], e)
      PROVE  e \in tag_index' <=> e \in memory'
  <2>1. /\ Parses(updates) /\ ~About(op, e)
        /\ \A j \in DOMAIN updates : ~About(updates[j], e)
    BY <1>0, <1>1, <1>2, LogGrows
  <2>2. e \in tag_index <=> e \in memory
    BY <2>1 DEF SnapshotAgrees
  <2>3. e \in Apply(memory, op) <=> e \in memory
    BY <1>1, <2>1, ApplyAbout DEF About
  <2> QED BY <2>2, <2>3
<1>3. ASSUME Parses(updates'), NEW e \in Entry, \A x \in doubtful' : ~About(x, e)
      PROVE  e \in Replayed(tag_index', updates') <=> e \in memory'
  <2>1. Parses(updates)
    BY <1>0, <1>3
  <2>2. Replayed(tag_index', updates') = Apply(Replayed(tag_index, updates), op)
    BY <1>0, <1>1, <1>3, <2>1, ReplayedAppend
  <2>3. e \in Replayed(tag_index, updates) <=> e \in memory
    BY <1>3, <2>1 DEF NothingToLose
  <2>4. e \in Replayed(tag_index', updates') <=>
           Adds(op, e) \/ (e \in Replayed(tag_index, updates) /\ ~Removes(op, e))
    BY <1>1, <2>1, <2>2, ReplayedType, ApplyAbout
  <2>5. e \in Apply(memory, op) <=> Adds(op, e) \/ (e \in memory /\ ~Removes(op, e))
    BY <1>1, ApplyAbout
  <2>6. CASE memory' = Apply(memory, op)
    BY <2>3, <2>4, <2>5, <2>6
  <2>7. CASE memory' = memory /\ doubtful' = doubtful \cup {op}
    BY <1>3, <2>3, <2>4, <2>7 DEF About
  <2> QED BY <2>6, <2>7
<1>4. SnapshotAgrees'
  BY <1>2 DEF SnapshotAgrees
<1>5. NothingToLose'
  BY <1>3 DEF NothingToLose
<1> QED BY <1>4, <1>5

LEMMA NextIInv == IInv /\ [PersistenceNext]_persistenceVars => IInv'
<1> SUFFICES ASSUME IInv, [PersistenceNext]_persistenceVars PROVE IInv'
  OBVIOUS
<1> USE DEF IInv
<1>0. /\ updates \in Seq(LinesOf(Update)) /\ memory \in SUBSET Entry
      /\ tag_index \in SUBSET Entry
  BY LinesType DEF PersistenceTypeOK
<1>1. CASE AppendBegin
  BY <1>1 DEF AppendBegin, PersistenceTypeOK, NothingToLose, SnapshotAgrees, disk, log
<1>2. CASE AppendUpdate
  <2>1. op \in Update /\ Apply(memory, op) \in SUBSET Entry
    BY <1>0, <1>2 DEF AppendUpdate, Apply, AddEntry, RemoveLocation, Update, Entry
  <2>2. updates' \in Seq(LinesOf(Update))
    BY <1>2, <2>1, OpenedLog, AppendLineKeeps DEF AppendUpdate
  <2>3. PersistenceTypeOK'
    BY <1>2, <2>1, <2>2, LinesType DEF AppendUpdate, PersistenceTypeOK, counters
  <2>4. NothingToLose' /\ SnapshotAgrees'
    BY <1>2, AppendKeeps DEF AppendUpdate
  <2> QED BY <1>2, <2>3, <2>4 DEF AppendUpdate
<1>4. CASE AppendError
  <2>0. CutShort
    BY <1>4 DEF AppendError
  <2>1. PersistenceTypeOK' /\ (unended' => updates' # <<>>)
    BY <1>4, <2>0, CutShortLeaves, LinesType DEF AppendError, PersistenceTypeOK
  <2>2. NothingToLose' /\ SnapshotAgrees'
    <3>1. CASE UNCHANGED log
      BY <1>4, <3>1 DEF AppendError, NothingToLose, SnapshotAgrees, log
    <3>2. CASE ~Parses(updates')
      BY <3>2 DEF NothingToLose, SnapshotAgrees
    <3>3. CASE updates' = AppendLine(Opened, op)
      BY <1>4, <3>3, AppendKeeps DEF AppendError
    <3> QED BY <2>0, <3>1, <3>2, <3>3, CutShortLeaves
  <2> QED BY <1>4, <2>1, <2>2 DEF AppendError
<1>5. CASE CompactBegin
  BY <1>5 DEF CompactBegin, PersistenceTypeOK, NothingToLose, SnapshotAgrees, disk, log
<1>6. CASE SaveBegin
  BY <1>6 DEF SaveBegin, PersistenceTypeOK, NothingToLose, SnapshotAgrees, disk, log
<1>7. CASE ReplaceSnapshot
  <2>1. PersistenceTypeOK'
    BY <1>7 DEF ReplaceSnapshot, PersistenceTypeOK, counters, log
  <2>2. SnapshotAgrees'
    BY <1>7 DEF ReplaceSnapshot, SnapshotAgrees, log
  <2>3. NothingToLose'
    <3>1. ASSUME Parses(updates)
          PROVE  Replayed(memory, updates) = Replayed(tag_index, updates)
      BY <1>0, <1>7, <3>1, ReplayedAbout DEF ReplaceSnapshot, SnapshotAgrees
    <3> QED BY <1>7, <3>1 DEF ReplaceSnapshot, NothingToLose, log
  <2> QED BY <1>7, <2>1, <2>2, <2>3 DEF ReplaceSnapshot, log
<1>8. CASE SaveError
  BY <1>8 DEF SaveError, PersistenceTypeOK, NothingToLose, SnapshotAgrees, disk, log
<1>9. CASE RemoveLog
  <2>1. /\ tag_index' = memory' /\ updates' = <<>> /\ pc' = "idle" /\ unended' = FALSE
        /\ doubtful' = {} /\ op' = op /\ UNCHANGED <<memory, counters>>
    BY <1>9 DEF RemoveLog
  <2>3. PersistenceTypeOK'
    <3>1. updates' \in Seq(Update \cup {Torn, Bad})
      BY <2>1
    <3>2. unended' \in BOOLEAN
      BY <2>1, Zenon
    <3> QED BY <2>1, <3>1, <3>2 DEF PersistenceTypeOK, counters
  <2>2. Replayed(tag_index', updates') = memory'
    BY <1>0, <1>9, <2>1, ReplayedNone DEF RemoveLog
  <2> QED BY <2>1, <2>2, <2>3 DEF NothingToLose, SnapshotAgrees
<1>10. CASE Crash
  <2>1. PersistenceTypeOK' /\ (unended' => updates' # <<>>)
    BY <1>10, CutShortLeaves, LinesType DEF Crash, PersistenceTypeOK
  <2> QED BY <1>10, <2>1 DEF Crash, NothingToLose, SnapshotAgrees
<1>11. CASE Load
  <2>1. PersistenceTypeOK'
    BY <1>0, <1>11, ReplayedType DEF Load, PersistenceTypeOK, disk, log, counters
  <2>2. /\ memory' = Replayed(tag_index, updates) /\ pc' = "idle" /\ Parses(updates)
        /\ UNCHANGED <<tag_index, updates, unended>>
    BY <1>11 DEF Load, disk, log
  <2>3. NothingToLose' /\ SnapshotAgrees'
    BY <1>0, <2>2, ReplayedNothing DEF NothingToLose, SnapshotAgrees
  <2> QED BY <2>1, <2>2, <2>3
<1>12. CASE LoadRaises
  BY <1>12 DEF LoadRaises, PersistenceTypeOK, NothingToLose, SnapshotAgrees, disk, log, counters
<1>13. CASE UNCHANGED persistenceVars
  BY <1>13 DEF persistenceVars, disk, log, counters, PersistenceTypeOK, NothingToLose, SnapshotAgrees
<1> QED
  BY <1>1, <1>2, <1>4, <1>5, <1>6, <1>7, <1>8, <1>9, <1>10, <1>11, <1>12, <1>13 DEF PersistenceNext

-----------------------------------------------------------------------------
(* The refinement *)

DurableMap == IF Parses(updates) THEN Replayed(tag_index, updates) ELSE Unreadable
FrayedMap == unended /\ Parses(updates)
LiveMap == IF pc \in {"down", "unreadable"} THEN Down ELSE memory
mapped == <<DurableMap, FrayedMap, LiveMap>>

LEMMA InitRefines == PersistenceInit => Durable!Init
BY ReplayedNone DEF PersistenceInit, Durable!Init

\* The operators of TagIndex that DurableIndex takes are the same.
LEMMA SameUpdates ==
    /\ Durable!Update = Update
    /\ \A index, x : Durable!Apply(index, x) = Apply(index, x)
BY DEF Durable!Update, Update, Durable!Apply, Apply, Durable!AddEntry, AddEntry,
       Durable!RemoveLocation, RemoveLocation

\* What a failed append does to what the files would bring back.
Unharmed == UNCHANGED <<DurableMap, FrayedMap>>
Ruined == DurableMap' = Unreadable /\ FrayedMap' = FALSE
Reached ==
    /\ DurableMap # Unreadable /\ ~FrayedMap
    /\ \E x \in Update : DurableMap' = Apply(DurableMap, x)
    /\ FrayedMap' \in BOOLEAN

LEMMA Readable ==
    ASSUME IInv
    PROVE  /\ memory # Down /\ memory # Unreadable
           /\ Parses(updates) => /\ DurableMap = Replayed(tag_index, updates)
                                 /\ DurableMap # Unreadable /\ DurableMap # Down
           /\ ~Parses(updates) => DurableMap = Unreadable /\ FrayedMap = FALSE
<1>1. /\ updates \in Seq(LinesOf(Update)) /\ memory \in SUBSET Entry
      /\ tag_index \in SUBSET Entry
  BY LinesType DEF IInv, PersistenceTypeOK
<1>2. Parses(updates) => Replayed(tag_index, updates) \in SUBSET Entry
  BY <1>1, ReplayedType
<1> QED BY <1>1, <1>2, PersistenceAssumption DEF DurableMap, FrayedMap

LEMMA CutShortMaps ==
    ASSUME IInv, CutShort, tag_index' = tag_index
    PROVE  Unharmed \/ Ruined \/ Reached
<1>1. CASE UNCHANGED log
  BY <1>1 DEF log, Unharmed, DurableMap, FrayedMap
<1>2. CASE ~Parses(updates')
  BY <1>2 DEF Ruined, DurableMap, FrayedMap
<1>3. CASE pc = "appending" /\ op \in Update /\ updates' = AppendLine(Opened, op) /\ Parses(updates')
  <2>1. Parses(Opened) /\ Opened \in Seq(LinesOf(Update))
    BY <1>3, OpenedLog, StaysUnreadable
  <2>2. ~unended /\ Opened = updates /\ Parses(updates) /\ tag_index \in SUBSET Entry
    BY <2>1, OpenedLog DEF IInv, PersistenceTypeOK
  <2>3. Replayed(tag_index', updates') = Apply(Replayed(tag_index, updates), op)
    BY <1>3, <2>1, <2>2, ReplayedAppend
  <2>4. DurableMap' = Apply(DurableMap, op)
    BY <1>3, <2>2, <2>3 DEF DurableMap
  <2>5. FrayedMap' \in BOOLEAN /\ ~FrayedMap /\ DurableMap # Unreadable
    BY <2>2, Readable DEF FrayedMap
  <2> QED BY <1>3, <2>4, <2>5 DEF Reached
<1> QED BY <1>1, <1>2, <1>3, CutShortLeaves

LEMMA NextRefines == IInv /\ [PersistenceNext]_persistenceVars => [Durable!Next]_mapped
<1> SUFFICES ASSUME IInv, [PersistenceNext]_persistenceVars
             PROVE  Durable!Next \/ UNCHANGED mapped
  BY DEF mapped
<1>0. /\ updates \in Seq(LinesOf(Update)) /\ memory \in SUBSET Entry
      /\ tag_index \in SUBSET Entry
  BY LinesType DEF IInv, PersistenceTypeOK
\* The actions of DurableIndex on the mapped variables.
<1>2. ASSUME LiveMap # Down, NEW x \in Update, LiveMap' = Apply(LiveMap, x), FrayedMap' = FALSE,
             DurableMap' = IF DurableMap = Unreadable \/ FrayedMap THEN Unreadable
                                                                  ELSE Apply(DurableMap, x)
      PROVE  Durable!Next
  BY <1>2, SameUpdates DEF Durable!Next, Durable!Change, DurableMap, FrayedMap, LiveMap
<1>3. ASSUME LiveMap # Down, Ruined \/ Reached, LiveMap' = LiveMap
      PROVE  Durable!Next
  BY <1>3, SameUpdates
     DEF Ruined, Reached, Durable!Next, Durable!Fail, Durable!Ruined, Durable!Reached,
         DurableMap, FrayedMap, LiveMap
<1>4. ASSUME LiveMap # Down, DurableMap' = LiveMap, FrayedMap' = FALSE, LiveMap' = LiveMap
      PROVE  Durable!Next
  BY <1>4 DEF Durable!Next, Durable!Mend, DurableMap, FrayedMap, LiveMap
<1>5. ASSUME LiveMap # Down, LiveMap' = Down, Unharmed \/ Ruined \/ Reached
      PROVE  Durable!Next
  BY <1>5, SameUpdates
     DEF Unharmed, Ruined, Reached, Durable!Next, Durable!Die, Durable!Unharmed,
         Durable!Ruined, Durable!Reached, DurableMap, FrayedMap, LiveMap
<1>6. ASSUME LiveMap = Down, DurableMap # Unreadable, LiveMap' = DurableMap, Unharmed
      PROVE  Durable!Next
  BY <1>6 DEF Unharmed, Durable!Next, Durable!Restart, DurableMap, FrayedMap, LiveMap
\* The actions of the code.
<1>7. CASE AppendUpdate
  <2>1. /\ LiveMap = memory /\ LiveMap' = Apply(memory, op) /\ op \in Update
        /\ updates' = AppendLine(Opened, op) /\ tag_index' = tag_index /\ FrayedMap' = FALSE
    BY <1>7 DEF AppendUpdate, LiveMap, FrayedMap, IInv
  <2>2. DurableMap' = IF DurableMap = Unreadable \/ FrayedMap THEN Unreadable
                                                              ELSE Apply(DurableMap, op)
    <3>1. CASE Parses(updates) /\ ~unended
      <4>1. /\ Parses(updates')
            /\ Replayed(tag_index', updates') = Apply(Replayed(tag_index, updates), op)
        BY <1>0, <2>1, <3>1, OpenedLog, ReplayedAppend
      <4> QED BY <3>1, <4>1, Readable DEF DurableMap, FrayedMap
    <3>2. CASE ~Parses(updates) \/ unended
      <4>1. ~Parses(Opened) /\ Opened \in Seq(LinesOf(Update))
        BY <3>2, OpenedLog
      <4>2. ~Parses(updates')
        BY <2>1, <4>1, StaysUnreadable
      <4> QED BY <3>2, <4>2, Readable DEF DurableMap, FrayedMap
    <3> QED BY <3>1, <3>2
  <2> QED BY <1>2, <2>1, <2>2, Readable
<1>9. CASE AppendError
  <2>1. LiveMap = memory /\ LiveMap' = LiveMap
    BY <1>9 DEF AppendError, LiveMap
  <2>2. Unharmed \/ Ruined \/ Reached
    BY <1>9, CutShortMaps DEF AppendError
  <2>3. CASE Unharmed
    BY <2>1, <2>3 DEF Unharmed, mapped
  <2> QED BY <1>3, <2>1, <2>2, <2>3, Readable
<1>10. CASE AppendBegin \/ CompactBegin \/ SaveBegin \/ SaveError \/ LoadRaises \/ UNCHANGED persistenceVars
  <2>1. UNCHANGED <<updates, unended, tag_index>>
    BY <1>10 DEF AppendBegin, CompactBegin, SaveBegin, SaveError, LoadRaises, persistenceVars,
                 disk, log
  <2>2. UNCHANGED LiveMap
    BY <1>10 DEF AppendBegin, CompactBegin, SaveBegin, SaveError, LoadRaises, persistenceVars, LiveMap
  <2> QED BY <2>1, <2>2 DEF DurableMap, FrayedMap, mapped
<1>11. CASE ReplaceSnapshot
  <2>1. UNCHANGED LiveMap /\ UNCHANGED FrayedMap
    BY <1>11 DEF ReplaceSnapshot, LiveMap, FrayedMap, log
  <2>2. UNCHANGED DurableMap
    <3>1. CASE Parses(updates)
      <4>1. tag_index' = memory /\ updates' = updates
        BY <1>11 DEF ReplaceSnapshot, log
      <4>2. Replayed(memory, updates) = Replayed(tag_index, updates)
        BY <1>0, <1>11, <3>1, ReplayedAbout DEF ReplaceSnapshot, SnapshotAgrees, IInv
      <4> QED BY <3>1, <4>1, <4>2 DEF DurableMap
    <3>2. CASE ~Parses(updates)
      BY <1>11, <3>2 DEF ReplaceSnapshot, DurableMap, log
    <3> QED BY <3>1, <3>2
  <2> QED BY <2>1, <2>2 DEF mapped
<1>12. CASE RemoveLog
  <2>1. LiveMap = memory /\ LiveMap' = memory /\ FrayedMap' = FALSE
    BY <1>12 DEF RemoveLog, LiveMap, FrayedMap
  <2>2. DurableMap' = memory
    <3>1. tag_index' = memory /\ updates' = <<>>
      BY <1>12 DEF RemoveLog, IInv
    <3> QED BY <1>0, <3>1, ReplayedNone DEF DurableMap
  <2> QED BY <1>4, <2>1, <2>2, Readable
<1>13. CASE Crash
  <2>1. LiveMap = memory /\ LiveMap' = Down
    BY <1>13 DEF Crash, LiveMap
  <2>2. Unharmed \/ Ruined \/ Reached
    BY <1>13, CutShortMaps DEF Crash
  <2> QED BY <1>5, <2>1, <2>2, Readable
<1>14. CASE Load
  <2>1. LiveMap = Down /\ LiveMap' = Replayed(tag_index, updates) /\ Parses(updates)
    BY <1>14 DEF Load, LiveMap
  <2>2. Unharmed
    BY <1>14 DEF Load, Unharmed, DurableMap, FrayedMap, disk, log
  <2> QED BY <1>6, <2>1, <2>2, Readable
<1> QED
  BY <1>7, <1>9, <1>10, <1>11, <1>12, <1>13, <1>14 DEF PersistenceNext

-----------------------------------------------------------------------------
(* The theorems *)

THEOREM Inductive == PersistenceSpec => []IInv
BY InitIInv, NextIInv, PTL DEF PersistenceSpec

\* Type correctness, for every set of tags and locations and every bound.
THEOREM TypeCorrect == PersistenceSpec => []PersistenceTypeOK
<1>1. IInv => PersistenceTypeOK
  BY DEF IInv
<1> QED BY <1>1, Inductive, PTL

\* Whenever the log can be read, the snapshot and the log of append_update and
\* compact hold what the caller has in memory.
THEOREM Nothing_to_lose == PersistenceSpec => []NothingToLose
<1>1. IInv => NothingToLose
  BY DEF IInv
<1> QED BY <1>1, Inductive, PTL

\* IndexPersistence with its caller implements DurableIndex: the files change
\* with the index in memory, one update at a time, through crashes, saves and
\* compactions; what a failed append_update may do, and the next one behind it, is
\* what DurableIndex allows.
THEOREM Implements == PersistenceSpec => ImplementsDurable
<1>1. [Durable!Next]_mapped =>
         [Durable!Next]_<<IF Parses(updates) THEN Replayed(tag_index, updates) ELSE Unreadable,
                          unended /\ Parses(updates),
                          IF pc \in {"down", "unreadable"} THEN Down ELSE memory>>
  BY DEF mapped, DurableMap, FrayedMap, LiveMap
<1> QED
  BY <1>1, InitIInv, NextIInv, InitRefines, NextRefines, PTL
     DEF PersistenceSpec, ImplementsDurable, Durable!Spec
=============================================================================
