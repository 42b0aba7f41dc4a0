---------------------------- MODULE MCComponents ----------------------------
(***************************************************************************)
(* Six components that keep state and share none, in one run: `subject'     *)
(* says which of them runs, and the others stay as they begin.             *)
(***************************************************************************)
EXTENDS IndexReads, IndexPersistence, WriteCache, FileManager, PartitionMetadata, SeriesKeys, TLC

CONSTANTS l1, l2, a, b

VARIABLE subject

Subject == {"reads", "persistence", "cache", "file", "metadata", "series"}

Init ==
    /\ subject \in Subject
    /\ ReadsInit /\ PersistenceInit /\ CacheInit /\ FileInit /\ MetadataInit /\ SeriesInit

Next ==
    /\ UNCHANGED subject
    /\ \/ /\ subject = "reads" /\ ReadsNext
          /\ UNCHANGED <<persistenceVars, cacheVars, fileVars, metadataVars, seriesVars>>
       \/ /\ subject = "persistence" /\ PersistenceNext
          /\ UNCHANGED <<readVars, cacheVars, fileVars, metadataVars, seriesVars>>
       \/ /\ subject = "cache" /\ CacheNext
          /\ UNCHANGED <<readVars, persistenceVars, fileVars, metadataVars, seriesVars>>
       \/ /\ subject = "file" /\ FileNext
          /\ UNCHANGED <<readVars, persistenceVars, cacheVars, metadataVars, seriesVars>>
       \/ /\ subject = "metadata" /\ MetadataNext
          /\ UNCHANGED <<readVars, persistenceVars, cacheVars, fileVars, seriesVars>>
       \/ /\ subject = "series" /\ SeriesNext
          /\ UNCHANGED <<readVars, persistenceVars, cacheVars, fileVars, metadataVars>>

Spec == Init /\ [][Next]_<<subject, readVars, persistenceVars, cacheVars, fileVars, metadataVars, seriesVars>>

-----------------------------------------------------------------------------
(* Indexes: three moments, two locations and tags whose bits overlap *)

MCLocation == {l1, l2}
MCTag == {a, b}
MCTime == 0..2
MCNegInf == -1
MCSample == {[ts |-> 0, tags |-> {a}, hot |-> TRUE], [ts |-> 1, tags |-> {a, b}, hot |-> FALSE],
             [ts |-> 2, tags |-> {b}, hot |-> TRUE]}
MCHash == a :> {1, 2} @@ b :> {2, 3}

-----------------------------------------------------------------------------
(* Write cache: points added alone or in pairs *)

MCPoint == {"p1", "p2", "p3"}
MCBatches == {{"p1"}, {"p2", "p3"}, {"p3"}}

(* Metadata: sequences of up to two points *)

MCMetaPoints ==
    {[ts |-> 1, tags |-> <<>>], [ts |-> 1, tags |-> "a" :> "x"], [ts |-> 2, tags |-> "a" :> "y"],
     [ts |-> 2, tags |-> "a" :> "x" @@ "b" :> "y"], [ts |-> 3, tags |-> "b" :> "x"]}
MCRecords == {<<p>> : p \in MCMetaPoints} \cup {<<p, q>> : p \in MCMetaPoints, q \in MCMetaPoints}

(* Series: names of separators and backslashes, with no tag, one or two *)

MCNames == {<<c>> : c \in 1..4} \cup {<<1, 2>>, <<4, 2>>, <<4, 4>>, <<1, 3>>}
MCSeries ==
    {[measurement |-> m, tags |-> {}] : m \in MCNames \cup {<<2, 3, 1>>}}
    \cup {[measurement |-> m, tags |-> {<<k, <<1>>>>}] : m \in {<<1>>, <<4>>}, k \in MCNames}
    \cup {[measurement |-> <<1>>, tags |-> {<<k, v>>}] : k \in {<<1>>, <<4>>}, v \in MCNames}
    \cup {[measurement |-> <<1>>, tags |-> {<<<<1>>, v>>, <<<<1, 1>>, <<1>>>>}] : v \in MCNames}
=============================================================================
