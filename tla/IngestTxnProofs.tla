---------------------------- MODULE IngestTxnProofs ---------------------------
(***************************************************************************)
(* Theorems about IngestTxn for any set of requests and jobs, any texts    *)
(* and any settings.                                                       *)
(***************************************************************************)
EXTENDS IngestTxn, FiniteSetTheorems, TLAPS

\* Between AdvisoryLock and the end of the transaction.
Inside == {"decide", "save", "erase", "erasing", "embed", "store"}

\* The advisory lock is held exactly by the ingest that is inside.
LockHeld == \A p \in Ingests : pc[p] \in Inside <=> adv = p

-------------------------------------------------------------------------------
\* The empty database and no request started.
LEMMA TypeInit == Init => TypeOK
  BY KindsAssumption, TextsAssumption DEF Init, TypeOK, PcStates, Processes, Ingests, Erasers, Configs

\* The row an upsert leaves is a row, if the inserted and the updated one are.
LEMMA UpsertType ==
  ASSUME TypeOK, NEW i \in Rows, NEW u, source # NoRow => u \in Rows, Upsert(i, u)
  PROVE  source' \in Rows /\ source' # NoRow /\ nextId' \in Nat
  BY NullsAssumption DEF Upsert, TypeOK

\* Every step keeps the types.
LEMMA TypeStep == TypeOK /\ [Next]_vars => TypeOK'
<1> SUFFICES ASSUME TypeOK, [Next]_vars PROVE TypeOK'
  OBVIOUS
<1>a. Processes = Puts \cup Files \cup Deletes \cup Purges \cup Patches
  BY DEF Processes, Ingests, Erasers
<1> USE DEF db, local, Unwritten, Go, EndTxn, PcStates
<1>1. CASE UNCHANGED vars
  BY <1>1 DEF TypeOK, vars
<1>2. ASSUME NEW p \in Puts, StartPut(p) PROVE TypeOK'
  BY <1>2, <1>a DEF TypeOK, StartPut, Ingests
<1>3. ASSUME NEW p \in Files, QueueFile(p) PROVE TypeOK'
  <2>1. source' \in Rows /\ nextId' \in Nat
    <3>1. TextOf[p] \in Texts
      BY TextsAssumption DEF Ingests
    <3> QED
      BY <1>3, <3>1, UpsertType DEF QueueFile, TypeOK, Rows
  <2> QED
    BY <1>3, <2>1, <1>a DEF TypeOK, QueueFile
<1>11. ASSUME NEW p \in Files, LoadModel(p) PROVE TypeOK'
  BY <1>11, <1>a DEF TypeOK, LoadModel, Ingests
<1>4. ASSUME NEW p \in Files, StartFileJob(p) PROVE TypeOK'
  <2>1. source \in Rows
    BY <1>4 DEF TypeOK, StartFileJob
  <2>2. source.raw \in Texts \cup {NoText}
    BY <2>1 DEF Rows
  <2> QED
    BY <1>4, <2>1, <2>2, <1>a DEF TypeOK, StartFileJob, Ingests
<1>5. ASSUME NEW p \in Files, NoSourceToRead(p) PROVE TypeOK'
  BY <1>5, <1>a DEF TypeOK, NoSourceToRead
<1>6. ASSUME NEW p \in Ingests, IngestStep(p) \/ Abort(p) PROVE TypeOK'
  <2>1. p \in Processes /\ NewHash(p) \in Hashes /\ text[p] \in Texts
    BY DEF Processes, TypeOK, NewHash, Hash, Hashes
  <2>2. Existing(p) \in Rows \cup {NoRow}
    BY <2>1 DEF Existing, TypeOK
  <2>3. CASE AdvisoryLock(p)
    BY <2>1, <2>3 DEF AdvisoryLock, TypeOK
  <2>4. CASE Skip(p)
    BY <2>1, <2>2, <2>4 DEF Skip, TypeOK
  <2>5. CASE SkipSave(p)
    <3>1. source' \in Rows \cup {NoRow}
      BY <2>5 DEF SkipSave, TypeOK, Rows
    <3> QED
      BY <2>1, <2>5, <3>1 DEF SkipSave, TypeOK
  <2>6. CASE Replace(p)
    BY <2>1, <2>2, <2>6 DEF Replace, TypeOK
  <2>7. CASE DeleteOldChunks(p)
    BY <2>1, <2>7 DEF DeleteOldChunks, StartDelete, FinishDelete, TypeOK
  <2>8. CASE RecordEmpty(p)
    <3>1. source' \in Rows /\ nextId' \in Nat
      BY <2>1, <2>8, UpsertType DEF RecordEmpty, TypeOK, Rows
    <3> QED
      BY <2>1, <2>8, <3>1 DEF RecordEmpty, Survivors, TypeOK
  <2>9. CASE Embed(p)
    BY <2>1, <2>9 DEF Embed, TypeOK
  <2>10. CASE Store(p)
    <3>1. source' \in Rows /\ nextId' \in Nat
      BY <2>1, <2>10, UpsertType DEF Store, TypeOK, Rows
    <3>2. stored' \subseteq Batches
      BY <2>1, <2>10 DEF Store, Survivors, TypeOK, Batches
    <3> QED
      BY <2>1, <2>10, <3>1, <3>2 DEF Store, TypeOK
  <2>11. CASE Abort(p)
    BY <2>1, <2>11 DEF Abort, TypeOK
  <2> QED
    BY <1>6, <2>3, <2>4, <2>5, <2>6, <2>7, <2>8, <2>9, <2>10, <2>11 DEF IngestStep
<1>7. ASSUME NEW p \in Deletes, SelectSource(p) PROVE TypeOK'
  BY <1>7, <1>a DEF TypeOK, SelectSource
<1>8. ASSUME NEW p \in Purges, StartPurge(p) PROVE TypeOK'
  BY <1>8, <1>a DEF TypeOK, StartPurge
<1>9. ASSUME NEW p \in Erasers, DeleteChunks(p) \/ DropSource(p) PROVE TypeOK'
  BY <1>9, <1>a DEF TypeOK, DeleteChunks, StartDelete, FinishDelete, DropSource, Survivors, Erasers
<1>10. ASSUME NEW p \in Patches, CheckContent(p) \/ SaveModel(p) PROVE TypeOK'
  BY <1>10, <1>a DEF TypeOK, CheckContent, SaveModel, Configs
<1> QED
  BY <1>1, <1>2, <1>3, <1>4, <1>5, <1>6, <1>7, <1>8, <1>9, <1>10, <1>11 DEF Next

\* Every variable keeps its type, whatever requests and jobs run.
THEOREM TypeCorrect == Spec => []TypeOK
  BY TypeInit, TypeStep, PTL DEF Spec

-------------------------------------------------------------------------------
(* The advisory lock *)

\* Whatever runs, exactly the holder of the advisory lock is inside its transaction.
LEMMA LockStep == TypeOK /\ LockHeld /\ [Next]_vars => LockHeld'
<1> SUFFICES ASSUME TypeOK, LockHeld, [Next]_vars PROVE LockHeld'
  OBVIOUS
<1>a. /\ Ingests \subseteq Processes /\ Nobody \notin Ingests
      /\ Ingests \cap Erasers = {} /\ Ingests \cap Patches = {}
      /\ Puts \subseteq Ingests /\ Files \subseteq Ingests
      /\ Deletes \subseteq Erasers /\ Purges \subseteq Erasers
      /\ Erasers \subseteq Processes /\ Patches \subseteq Processes
      /\ pc \in [Processes -> PcStates]
      /\ adv \in Ingests \cup {Nobody}
  BY KindsAssumption DEF Processes, Ingests, Erasers, TypeOK
<1> USE <1>a DEF LockHeld, Inside, Go, Unwritten, EndTxn
<1>1. CASE UNCHANGED vars
  BY <1>1 DEF vars
<1>2. ASSUME NEW p \in Puts, StartPut(p) PROVE LockHeld'
  BY <1>2 DEF StartPut
<1>3. ASSUME NEW p \in Files, QueueFile(p) \/ LoadModel(p) \/ StartFileJob(p) \/ NoSourceToRead(p)
      PROVE  LockHeld'
  BY <1>3 DEF QueueFile, LoadModel, StartFileJob, NoSourceToRead
<1>4. ASSUME NEW p \in Ingests, IngestStep(p) \/ Abort(p) PROVE LockHeld'
  <2>1. CASE AdvisoryLock(p)
    BY <2>1 DEF AdvisoryLock
  <2>2. CASE Skip(p) \/ SkipSave(p)
    BY <2>2 DEF Skip, SkipSave
  <2>3. CASE Replace(p) \/ Embed(p)
    BY <2>3 DEF Replace, Embed
  <2>4. CASE DeleteOldChunks(p)
    BY <2>4 DEF DeleteOldChunks, StartDelete, FinishDelete
  <2>5. CASE RecordEmpty(p) \/ Store(p)
    BY <2>5 DEF RecordEmpty, Store
  <2>6. CASE Abort(p)
    BY <2>6 DEF Abort
  <2> QED
    BY <1>4, <2>1, <2>2, <2>3, <2>4, <2>5, <2>6 DEF IngestStep
<1>5. ASSUME NEW p \in Deletes \cup Purges, SelectSource(p) \/ StartPurge(p) PROVE LockHeld'
  BY <1>5 DEF SelectSource, StartPurge
<1>6. ASSUME NEW p \in Erasers, DeleteChunks(p) \/ DropSource(p) PROVE LockHeld'
  BY <1>6 DEF DeleteChunks, StartDelete, FinishDelete, DropSource
<1>7. ASSUME NEW p \in Patches, CheckContent(p) \/ SaveModel(p) PROVE LockHeld'
  BY <1>7 DEF CheckContent, SaveModel
<1> QED
  BY <1>1, <1>2, <1>3, <1>4, <1>5, <1>6, <1>7 DEF Next

-------------------------------------------------------------------------------
(* Check-and-replace, when nothing is deleted meanwhile *)

(***************************************************************************)
(* The strengthening.  No row disappears, so a row once read is still the  *)
(* row; the holder of the lock is the only writer of chunks, so what its   *)
(* DELETE found is all there is, and what it has deleted is everything.    *)
(***************************************************************************)
ReadsCurrent == \A p \in Ingests : read[p] # NoRow => source # NoRow /\ read[p].id = source.id
FoundAll == \A p \in Ingests : pc[p] = "erasing" => target[p] = stored
DeletedAll == \A p \in Ingests : pc[p] \in {"embed", "store"} => stored \subseteq doomed[p]

ReplaceInv == /\ TypeOK /\ LockHeld
              /\ SourceDescribesChunks
              /\ ReadsCurrent /\ FoundAll /\ DeletedAll

\* The strengthening holds of the empty database.
LEMMA ReplaceInit == Init => ReplaceInv
<1> SUFFICES ASSUME Init PROVE ReplaceInv
  OBVIOUS
<1>1. Nobody \notin Ingests /\ Ingests \subseteq Processes
  BY KindsAssumption DEF Processes
<1>2. LockHeld /\ ReadsCurrent /\ FoundAll /\ DeletedAll
  BY <1>1 DEF Init, LockHeld, Inside, ReadsCurrent, FoundAll, DeletedAll
<1> QED
  BY <1>2, TypeInit DEF Init, ReplaceInv, SourceDescribesChunks

\* At most one ingest is inside.
LEMMA OneInside ==
  ASSUME LockHeld, NEW p \in Ingests, pc[p] \in Inside, NEW q \in Ingests, q # p
  PROVE  pc[q] \notin Inside
  BY DEF LockHeld

\* What most steps of p do: they leave the chunks alone, keep the row's id, hash and
\* count or add a row without chunks, and give p no unfounded claim about the chunks.
Quiet(p) ==
    /\ stored' = stored
    /\ \/ source' = source
       \/ source = NoRow /\ source' # NoRow /\ source'.count = 0
       \/ /\ source # NoRow /\ source' # NoRow
          /\ source'.id = source.id /\ source'.hash = source.hash
          /\ source'.count = source.count
    /\ \A q \in Ingests \ {p} : /\ pc'[q] = pc[q] /\ read'[q] = read[q]
                               /\ target'[q] = target[q] /\ doomed'[q] = doomed[q]
    /\ p \in Ingests =>
          /\ read'[p] # NoRow => source' # NoRow /\ read'[p].id = source'.id
          /\ pc'[p] = "erasing" => target'[p] = stored
          /\ pc'[p] \in {"embed", "store"} => stored \subseteq doomed'[p]

\* Such steps keep the strengthening.
LEMMA QuietStep ==
  ASSUME ReplaceInv, TypeOK', LockHeld', NEW p \in Processes, Quiet(p)
  PROVE  ReplaceInv'
<1> USE DEF Quiet
<1>a. Ingests \subseteq Processes
  BY DEF Processes
<1>1. SourceDescribesChunks'
  BY FS_EmptySet DEF ReplaceInv, SourceDescribesChunks
<1>2. ReadsCurrent'
  BY <1>a DEF ReplaceInv, ReadsCurrent
<1>3. FoundAll'
  BY <1>a DEF ReplaceInv, FoundAll
<1>4. DeletedAll'
  BY <1>a DEF ReplaceInv, DeletedAll
<1> QED
  BY <1>1, <1>2, <1>3, <1>4 DEF ReplaceInv

\* The two commits that write chunks leave exactly what the row then says.
LEMMA CommitStep ==
  ASSUME ReplaceInv, NEW p \in Ingests, RecordEmpty(p) \/ Store(p), TypeOK', LockHeld'
  PROVE  ReplaceInv'
<1>a. p \in Processes /\ Ingests \subseteq Processes
  BY DEF Processes
<1>b. \A q \in Ingests : pc'[q] \notin Inside
  BY <1>a, OneInside DEF ReplaceInv, TypeOK, RecordEmpty, Store, Go, Inside
<1>1. Survivors(p) = {}
  BY DEF ReplaceInv, DeletedAll, RecordEmpty, Store, Go, Survivors
<1>2. /\ source' # NoRow /\ source'.hash = NewHash(p)
      /\ source # NoRow => source'.id = source.id
  <2>1. NewHash(p) \in Hashes /\ text[p] \in Texts
    BY DEF NewHash, Hash, Hashes, ReplaceInv, TypeOK
  <2>2. source' \in Rows
    BY <2>1, UpsertType DEF RecordEmpty, Store, Rows, ReplaceInv, TypeOK
  <2>3. source # NoRow => source \in Rows
    BY DEF ReplaceInv, TypeOK
  <2>4. source' # NoRow
    BY <2>2, NullsAssumption
  <2>5. CASE RecordEmpty(p)
    <3>1. source'.hash = NewHash(p)
      BY <2>3, <2>5 DEF RecordEmpty, Upsert, Rows
    <3>2. source # NoRow => source'.id = source.id
      BY <2>3, <2>5 DEF RecordEmpty, Upsert, Rows
    <3> QED
      BY <2>4, <3>1, <3>2
  <2>6. CASE Store(p)
    <3>1. source'.hash = NewHash(p)
      BY <2>3, <2>6 DEF Store, Upsert, Rows
    <3>2. source # NoRow => source'.id = source.id
      BY <2>3, <2>6 DEF Store, Upsert, Rows
    <3> QED
      BY <2>4, <3>1, <3>2
  <2> QED
    BY <2>5, <2>6
<1>3. SourceDescribesChunks'
  <2>1. CASE RecordEmpty(p)
    <3>1. stored' = {} /\ source'.count = 0
      BY <1>1, <2>1 DEF RecordEmpty, Upsert, ReplaceInv, TypeOK, Rows
    <3> QED
      BY <1>2, <3>1, FS_EmptySet DEF SourceDescribesChunks
  <2>2. CASE Store(p)
    <3> DEFINE b == [by |-> p, hash |-> NewHash(p)]
    <3>1. stored' = {b} /\ source'.count = 1
      BY <1>1, <2>2 DEF Store, Upsert, ReplaceInv, TypeOK, Rows
    <3>2. Cardinality({b}) = 1 /\ b.hash = NewHash(p)
      BY FS_Singleton
    <3> HIDE DEF b
    <3> QED
      BY <1>2, <3>1, <3>2 DEF SourceDescribesChunks
  <2> QED
    BY <2>1, <2>2
<1>4. ReadsCurrent'
  <2>1. read' = read
    BY DEF RecordEmpty, Store, local
  <2> QED
    BY <1>2, <2>1 DEF ReadsCurrent, ReplaceInv
<1>5. FoundAll' /\ DeletedAll'
  BY <1>b DEF FoundAll, DeletedAll, Inside
<1> QED
  BY <1>3, <1>4, <1>5 DEF ReplaceInv

\* Every step keeps the strengthening, as long as nobody deletes or purges.
LEMMA ReplaceStep ==
  ASSUME Erasers = {}, ReplaceInv, [Next]_vars
  PROVE  ReplaceInv'
<1>a. /\ Ingests \subseteq Processes /\ Puts \subseteq Ingests /\ Files \subseteq Ingests
      /\ Patches \subseteq Processes /\ Patches \cap Ingests = {}
      /\ Deletes = {} /\ Purges = {}
  BY KindsAssumption DEF Processes, Ingests, Erasers
<1>b. TypeOK' /\ LockHeld'
  BY TypeStep, LockStep DEF ReplaceInv
<1>c. TypeOK
  BY DEF ReplaceInv
<1>d. \A p \in Ingests : pc[p] \in Inside <=> adv = p
  BY DEF ReplaceInv, LockHeld
<1>e. /\ pc \in [Processes -> PcStates] /\ read \in [Processes -> Rows \cup {NoRow}]
      /\ target \in [Processes -> SUBSET Batches] /\ doomed \in [Processes -> SUBSET Batches]
      /\ source \in Rows \cup {NoRow}
  BY DEF ReplaceInv, TypeOK
<1>f. \A p \in Ingests : read[p] # NoRow => source # NoRow /\ read[p].id = source.id
  BY DEF ReplaceInv, ReadsCurrent
<1>g. \A p \in Ingests : /\ pc[p] = "erasing" => target[p] = stored
                        /\ pc[p] \in {"embed", "store"} => stored \subseteq doomed[p]
  BY DEF ReplaceInv, FoundAll, DeletedAll
<1>h. source = NoRow => stored = {}
  BY DEF ReplaceInv, SourceDescribesChunks
<1> USE <1>a, <1>e DEF Go, Unwritten, EndTxn, db, local
<1>1. CASE UNCHANGED vars
  BY <1>1, <1>b DEF vars, ReplaceInv, SourceDescribesChunks, ReadsCurrent, FoundAll, DeletedAll
<1>2. ASSUME NEW p \in Puts, StartPut(p) PROVE ReplaceInv'
  <2>1. Quiet(p)
    BY <1>2, <1>f DEF Quiet, StartPut
  <2> QED
    BY <1>b, <2>1, QuietStep
<1>3. ASSUME NEW p \in Files, QueueFile(p) \/ LoadModel(p) \/ StartFileJob(p) \/ NoSourceToRead(p)
      PROVE  ReplaceInv'
  <2>1. CASE QueueFile(p)
    <3>a. TextOf[p] \in Texts
      BY TextsAssumption
    <3>1. source' # NoRow
      BY <1>c, <2>1, <3>a, UpsertType DEF QueueFile, Rows, TypeOK
    <3>2. Quiet(p)
      BY <1>f, <1>g, <2>1, <3>1 DEF Quiet, QueueFile, Upsert, Rows
    <3> QED
      BY <1>b, <3>2, QuietStep
  <2>2. CASE StartFileJob(p)
    <3>1. Quiet(p)
      BY <2>2 DEF Quiet, StartFileJob
    <3> QED
      BY <1>b, <3>1, QuietStep
  <2>3. CASE LoadModel(p) \/ NoSourceToRead(p)
    <3>1. Quiet(p)
      BY <1>f, <2>3 DEF Quiet, LoadModel, NoSourceToRead
    <3> QED
      BY <1>b, <3>1, QuietStep
  <2> QED
    BY <1>3, <2>1, <2>2, <2>3
<1>4. ASSUME NEW p \in Ingests, IngestStep(p) \/ Abort(p) PROVE ReplaceInv'
  <2>a. p \in Processes
    OBVIOUS
  <2>b. Existing(p) # NoRow => source # NoRow /\ Existing(p).id = source.id
    BY <1>f DEF Existing
  <2>1. CASE RecordEmpty(p) \/ Store(p)
    BY <1>b, <2>1, CommitStep
  <2>2. CASE AdvisoryLock(p)
    <3>1. Quiet(p)
      BY <1>f, <2>2 DEF Quiet, AdvisoryLock
    <3> QED
      BY <1>b, <2>a, <3>1, QuietStep
  <2>3. CASE Skip(p)
    <3>1. Quiet(p)
      BY <2>3, <2>b DEF Quiet, Skip
    <3> QED
      BY <1>b, <2>a, <3>1, QuietStep
  <2>4. CASE SkipSave(p)
    <3>1. \/ source' = source
          \/ source # NoRow /\ source' = [source EXCEPT !.status = "complete"]
      BY <2>4 DEF SkipSave
    <3>2. source' = source \/ (source \in Rows /\ source' \in Rows /\ source' # NoRow
             /\ source'.id = source.id /\ source'.hash = source.hash /\ source'.count = source.count)
      BY ZenonT(60), <3>1, NullsAssumption DEF Rows
    <3>3. Quiet(p)
      BY <1>f, <2>4, <3>2, NullsAssumption DEF Quiet, SkipSave
    <3> QED
      BY <1>b, <2>a, <3>3, QuietStep
  <2>5. CASE Replace(p)
    <3>1. Existing(p) = NoRow => source = NoRow
      BY DEF Existing
    <3>2. Quiet(p)
      BY <1>h, <2>5, <2>b, <3>1 DEF Quiet, Replace
    <3> QED
      BY <1>b, <2>a, <3>2, QuietStep
  <2>6. CASE DeleteOldChunks(p)
    <3>1. CASE StartDelete(p, "erasing")
      <4>1. Quiet(p)
        BY <1>f, <3>1 DEF Quiet, StartDelete
      <4> QED
        BY <1>b, <2>a, <4>1, QuietStep
    <3>2. CASE FinishDelete(p, "embed")
      <4>1. doomed'[p] = stored
        <5>1. pc[p] = "erasing"
          BY <3>2 DEF FinishDelete
        <5>3. target[p] = stored
          BY <5>1, Zenon DEF ReplaceInv, FoundAll
        <5>2. doomed'[p] = target[p] \cap stored
          BY <2>a, <3>2 DEF FinishDelete
        <5> QED
          BY <5>2, <5>3
      <4>2. Quiet(p)
        BY <1>f, <3>2, <4>1 DEF Quiet, FinishDelete
      <4> QED
        BY <1>b, <2>a, <4>2, QuietStep
    <3> QED
      BY <2>6, <3>1, <3>2 DEF DeleteOldChunks
  <2>7. CASE Embed(p)
    <3>1. Quiet(p)
      BY <1>f, <1>g, <2>7 DEF Quiet, Embed
    <3> QED
      BY <1>b, <2>a, <3>1, QuietStep
  <2>8. CASE Abort(p)
    <3>1. Quiet(p)
      BY <1>f, <2>8 DEF Quiet, Abort
    <3> QED
      BY <1>b, <2>a, <3>1, QuietStep
  <2> QED
    BY <1>4, <2>1, <2>2, <2>3, <2>4, <2>5, <2>6, <2>7, <2>8 DEF IngestStep
<1>5. ASSUME NEW p \in Patches, CheckContent(p) \/ SaveModel(p) PROVE ReplaceInv'
  <2>1. Quiet(p)
    BY <1>5 DEF Quiet, CheckContent, SaveModel
  <2> QED
    BY <1>b, <2>1, QuietStep
<1> QED
  BY <1>1, <1>2, <1>3, <1>4, <1>5 DEF Next, ReplaceInv

\* Concurrent PUTs and file jobs of one source, aborted at any point, never leave a row
\* that lies about its chunks, stacked batches included, if nothing is deleted meanwhile.
THEOREM SourceTellsTruth == Erasers = {} /\ Spec => []SourceDescribesChunks
<1> SUFFICES ASSUME Erasers = {} PROVE Spec => []SourceDescribesChunks
  OBVIOUS
<1>1. ReplaceInv /\ [Next]_vars => ReplaceInv'
  BY ReplaceStep
<1>2. ReplaceInv => SourceDescribesChunks
  BY DEF ReplaceInv
<1> QED
  BY <1>1, <1>2, ReplaceInit, PTL DEF Spec
-------------------------------------------------------------------------------
(* With deletes and purges at any time *)

(***************************************************************************)
(* Ids are given out once, so a row that was read and is gone is told from *)
(* one made since; a DELETE that has read a row never read a later one.    *)
(***************************************************************************)
IdsBelow == /\ source # NoRow => source.id < nextId
            /\ \A p \in Processes : read[p] # NoRow => read[p].id < nextId

\* How a step may change the row: leave its id, remove it, or make one of a new id.
RowStep ==
    \/ UNCHANGED <<source, nextId>>
    \/ source' = NoRow /\ UNCHANGED nextId
    \/ source = NoRow /\ source' # NoRow /\ source'.id = nextId /\ nextId' = nextId + 1
    \/ source # NoRow /\ source' # NoRow /\ source'.id = source.id /\ UNCHANGED nextId

\* Every step is.
LEMMA RowsMove == ASSUME TypeOK, [Next]_vars PROVE RowStep
<1> USE DEF db, Unwritten
<1>a. source # NoRow => source \in Rows
  BY DEF TypeOK
<1>b. nextId \in Nat
  BY DEF TypeOK
<1>1. ASSUME NEW p \in Files, QueueFile(p) PROVE RowStep
  <2>1. TextOf[p] \in Texts
    BY TextsAssumption DEF Ingests
  <2>2. source' # NoRow
    BY <1>1, <2>1, UpsertType DEF QueueFile, Rows, TypeOK
  <2>3. source # NoRow => source'.id = source.id
    BY <1>1, <1>a DEF QueueFile, Upsert, Rows
  <2>4. source = NoRow => source'.id = nextId
    BY <1>1 DEF QueueFile, Upsert
  <2> QED
    BY <1>1, <2>2, <2>3, <2>4 DEF QueueFile, Upsert, RowStep
<1>2. ASSUME NEW p \in Ingests, RecordEmpty(p) \/ Store(p) PROVE RowStep
  <2>1. NewHash(p) \in Hashes /\ text[p] \in Texts
    BY DEF NewHash, Hash, Hashes, TypeOK
  <2>2. CASE RecordEmpty(p)
    <3>1. source' # NoRow
      BY <2>1, <2>2, UpsertType DEF RecordEmpty, Rows, TypeOK
    <3>2. source # NoRow => source'.id = source.id
      BY <2>2, <1>a DEF RecordEmpty, Upsert, Rows
    <3>3. source = NoRow => source'.id = nextId
      BY <2>2 DEF RecordEmpty, Upsert
    <3> QED
      BY <2>2, <3>1, <3>2, <3>3 DEF RecordEmpty, Upsert, RowStep
  <2>3. CASE Store(p)
    <3>1. source' # NoRow
      BY <2>1, <2>3, UpsertType DEF Store, Rows, TypeOK
    <3>2. source # NoRow => source'.id = source.id
      BY <2>3, <1>a DEF Store, Upsert, Rows
    <3>3. source = NoRow => source'.id = nextId
      BY <2>3 DEF Store, Upsert
    <3> QED
      BY <2>3, <3>1, <3>2, <3>3 DEF Store, Upsert, RowStep
  <2> QED
    BY <1>2, <2>2, <2>3
<1>3. ASSUME NEW p \in Ingests, SkipSave(p) PROVE RowStep
  <2>1. source # NoRow => [source EXCEPT !.status = "complete"] \in Rows
                          /\ [source EXCEPT !.status = "complete"].id = source.id
    BY <1>a DEF Rows
  <2> QED
    BY <1>3, <2>1, NullsAssumption DEF SkipSave, RowStep
<1>4. ASSUME NEW p \in Erasers, DropSource(p) PROVE RowStep
  BY <1>4 DEF DropSource, RowStep
<1>5. CASE UNCHANGED <<source, nextId>>
  BY <1>5 DEF RowStep
<1> QED
  BY <1>1, <1>2, <1>3, <1>4, <1>5 DEF Next, vars, StartPut, LoadModel, StartFileJob, NoSourceToRead,
     IngestStep, AdvisoryLock, Skip, Replace, DeleteOldChunks, Embed, Abort, SelectSource,
     StartPurge, DeleteChunks, StartDelete, FinishDelete, CheckContent, SaveModel

\* What a process reads is the committed row, or the copy it has.
LEMMA ReadsMove ==
  ASSUME TypeOK, [Next]_vars, NEW p \in Processes
  PROVE  read'[p] \in {read[p], source}
<1> USE DEF local, Unwritten, TypeOK
<1>a. Processes = Puts \cup Files \cup Deletes \cup Purges \cup Patches
  BY DEF Processes, Ingests, Erasers
<1>1. ASSUME NEW q \in Processes, NEW r \in {read[q], source}, read' = [read EXCEPT ![q] = r]
      PROVE  read'[p] \in {read[p], source}
  BY <1>1
<1>2. ASSUME NEW q \in Files, StartFileJob(q) PROVE read'[p] \in {read[p], source}
  BY <1>1, <1>2, <1>a DEF StartFileJob
<1>3. ASSUME NEW q \in Ingests, Skip(q) \/ Replace(q) PROVE read'[p] \in {read[p], source}
  <2>1. Existing(q) \in {read[q], source} /\ q \in Processes
    BY DEF Existing, Processes
  <2> QED
    BY <1>1, <1>3, <2>1 DEF Skip, Replace
<1>4. ASSUME NEW q \in Deletes, SelectSource(q) PROVE read'[p] \in {read[p], source}
  BY <1>1, <1>4, <1>a DEF SelectSource
<1>5. CASE UNCHANGED read
  BY <1>5
<1> QED
  BY <1>2, <1>3, <1>4, <1>5 DEF Next, vars, StartPut, QueueFile, LoadModel, NoSourceToRead, IngestStep,
     AdvisoryLock, SkipSave, DeleteOldChunks, RecordEmpty, Embed, Store, Abort, StartPurge,
     DeleteChunks, DropSource, StartDelete, FinishDelete, CheckContent, SaveModel

\* So ids stay below the next one.
LEMMA IdsStep == ASSUME TypeOK, IdsBelow, [Next]_vars PROVE IdsBelow'
<1>1. RowStep /\ nextId \in Nat
  BY RowsMove DEF TypeOK
<1>2. source # NoRow => source.id \in Nat
  BY DEF TypeOK, Rows
<1>3. \A p \in Processes : read[p] # NoRow => read[p].id \in Nat
  BY DEF TypeOK, Rows
<1>4. source' # NoRow => source'.id < nextId'
  BY <1>1, <1>2 DEF RowStep, IdsBelow
<1>5. ASSUME NEW p \in Processes, read'[p] # NoRow PROVE read'[p].id < nextId'
  <2>1. read'[p] \in {read[p], source}
    BY ReadsMove
  <2>2. nextId <= nextId' /\ nextId' \in Nat
    BY <1>1 DEF RowStep
  <2> QED
    BY <1>2, <1>3, <1>5, <2>1, <2>2, <1>1 DEF IdsBelow
<1> QED
  BY <1>4, <1>5 DEF IdsBelow

\* A step that leaves the advisory lock with p keeps everybody else out.
LEMMA NoOtherWriter ==
  ASSUME LockHeld, NEW p \in Ingests, pc[p] = "save", [Next]_vars, source # NoRow,
         source' # NoRow, source'.id = source.id, TypeOK, ~SkipSave(p)
  PROVE  source'.hash = source.hash
<1> USE DEF db, Unwritten, Go
<1>a. source \in Rows
  BY DEF TypeOK
<1>1. ASSUME NEW q \in Files, QueueFile(q) PROVE source'.hash = source.hash
  BY <1>1, <1>a DEF QueueFile, Upsert, Rows
<1>2. ASSUME NEW q \in Ingests, SkipSave(q) \/ RecordEmpty(q) \/ Store(q) PROVE FALSE
  <2>1. pc[q] \in Inside /\ pc[p] \in Inside
    BY <1>2 DEF SkipSave, RecordEmpty, Store, Inside
  <2>2. q # p
    BY <1>2 DEF RecordEmpty, Store
  <2> QED
    BY <2>1, <2>2, OneInside
<1>3. ASSUME NEW q \in Erasers, DropSource(q) PROVE source'.hash = source.hash
  BY <1>3 DEF DropSource
<1>4. CASE UNCHANGED source
  BY <1>4
<1> QED
  BY <1>1, <1>2, <1>3, <1>4 DEF Next, vars, StartPut, LoadModel, StartFileJob, NoSourceToRead,
     IngestStep, AdvisoryLock, Skip, Replace, DeleteOldChunks, Embed, Abort, SelectSource,
     StartPurge, DeleteChunks, StartDelete, FinishDelete, CheckContent, SaveModel

-------------------------------------------------------------------------------
(***************************************************************************)
(* PUT: what it reads under the lock is the committed row, and while it    *)
(* repairs the status of an unchanged source, that row keeps its hash      *)
(* unless it is deleted, which the repair then notices.                    *)
(***************************************************************************)
ReadsLate == \A p \in Puts : pc[p] \in {"idle", "lock", "decide"} => read[p] = NoRow

RepairsItsText ==
    \A p \in Puts : pc[p] = "save" =>
        /\ read[p] # NoRow /\ read[p].hash = NewHash(p)
        /\ source # NoRow /\ source.id = read[p].id => source.hash = NewHash(p)

PutInv == TypeOK /\ LockHeld /\ IdsBelow /\ ReadsLate /\ RepairsItsText

\* An ingest's progress, text and settings change by its own steps only.
OwnStep(p) == \/ p \in Puts /\ StartPut(p)
              \/ p \in Files /\ (QueueFile(p) \/ LoadModel(p) \/ StartFileJob(p) \/ NoSourceToRead(p))
              \/ IngestStep(p) \/ Abort(p)

\* No step of another process moves an ingest or touches its text, row and settings.
LEMMA OthersStep ==
  ASSUME TypeOK, NEW p \in Ingests, [Next]_vars, ~OwnStep(p)
  PROVE  pc'[p] = pc[p] /\ read'[p] = read[p] /\ text'[p] = text[p] /\ cfg'[p] = cfg[p]
<1> USE DEF local, Unwritten, TypeOK, Go
<1>a. /\ p \in Processes /\ p \notin Deletes /\ p \notin Purges /\ p \notin Patches
  BY KindsAssumption DEF Processes, Ingests, Erasers
<1>b. /\ Processes = Puts \cup Files \cup Deletes \cup Purges \cup Patches
      /\ Ingests = Puts \cup Files
  BY DEF Processes, Ingests, Erasers
<1>2. ASSUME NEW q \in Puts, StartPut(q)
      PROVE  pc'[p] = pc[p] /\ read'[p] = read[p] /\ text'[p] = text[p] /\ cfg'[p] = cfg[p]
  <2>1. q # p
    BY <1>2 DEF OwnStep
  <2> QED
    BY <1>2, <1>a, <1>b, <2>1 DEF StartPut
<1>3. ASSUME NEW q \in Files, QueueFile(q) \/ LoadModel(q) \/ StartFileJob(q) \/ NoSourceToRead(q)
      PROVE  pc'[p] = pc[p] /\ read'[p] = read[p] /\ text'[p] = text[p] /\ cfg'[p] = cfg[p]
  <2>1. q # p
    BY <1>3 DEF OwnStep
  <2> QED
    BY <1>3, <1>a, <1>b, <2>1 DEF QueueFile, LoadModel, StartFileJob, NoSourceToRead
<1>4. ASSUME NEW q \in Ingests, q # p, IngestStep(q) \/ Abort(q)
      PROVE  pc'[p] = pc[p] /\ read'[p] = read[p] /\ text'[p] = text[p] /\ cfg'[p] = cfg[p]
  <2>1. CASE Abort(q)
    BY <1>a, <1>4, <2>1 DEF Abort
  <2>2. CASE Skip(q) \/ Replace(q)
    BY <1>a, <1>4, <2>2 DEF Skip, Replace
  <2>3. CASE AdvisoryLock(q) \/ SkipSave(q) \/ Embed(q)
    BY <1>a, <1>4, <2>3 DEF AdvisoryLock, SkipSave, Embed
  <2>4. CASE DeleteOldChunks(q)
    BY <1>a, <1>4, <2>4 DEF DeleteOldChunks, StartDelete, FinishDelete
  <2>5. CASE RecordEmpty(q) \/ Store(q)
    BY <1>a, <1>4, <2>5 DEF RecordEmpty, Store
  <2> QED
    BY <1>4, <2>1, <2>2, <2>3, <2>4, <2>5 DEF IngestStep
<1>5. ASSUME NEW q \in Erasers, SelectSource(q) \/ StartPurge(q) \/ DeleteChunks(q) \/ DropSource(q)
      PROVE  pc'[p] = pc[p] /\ read'[p] = read[p] /\ text'[p] = text[p] /\ cfg'[p] = cfg[p]
  <2>1. q # p
    BY <1>a DEF Erasers
  <2> QED
    BY <1>5, <1>a, <2>1 DEF SelectSource, StartPurge, DeleteChunks, DropSource, StartDelete,
                           FinishDelete
<1>6. ASSUME NEW q \in Patches, CheckContent(q) \/ SaveModel(q)
      PROVE  pc'[p] = pc[p] /\ read'[p] = read[p] /\ text'[p] = text[p] /\ cfg'[p] = cfg[p]
  BY <1>6, <1>a DEF CheckContent, SaveModel
<1>7. CASE UNCHANGED vars
  BY <1>7 DEF vars
<1> QED
  BY <1>2, <1>3, <1>4, <1>5, <1>6, <1>7 DEF Next, OwnStep, Erasers

\* A PUT is answered with the source at its content's hash: it found it, stored it, or
\* repaired a row that still had it.
LEMMA PutStep ==
  ASSUME PutInv, [Next]_vars, NEW p \in Puts
  PROVE  /\ pc'[p] \in {"idle", "lock", "decide"} => read'[p] = NoRow
         /\ pc'[p] = "save" =>
              /\ read'[p] # NoRow /\ read'[p].hash = NewHash(p)'
              /\ source' # NoRow /\ source'.id = read'[p].id => source'.hash = NewHash(p)'
         /\ pc[p] # "done" /\ pc'[p] = "done" => source' # NoRow /\ source'.hash = NewHash(p)
<1> DEFINE Goal == /\ pc'[p] \in {"idle", "lock", "decide"} => read'[p] = NoRow
                   /\ pc'[p] = "save" =>
                        /\ read'[p] # NoRow /\ read'[p].hash = NewHash(p)'
                        /\ source' # NoRow /\ source'.id = read'[p].id => source'.hash = NewHash(p)'
                   /\ pc[p] # "done" /\ pc'[p] = "done" => source' # NoRow /\ source'.hash = NewHash(p)
<1>a. /\ p \in Processes /\ p \in Ingests /\ p \notin Files /\ pc \in [Processes -> PcStates]
      /\ read \in [Processes -> Rows \cup {NoRow}] /\ source \in Rows \cup {NoRow}
      /\ cfg \in [Ingests -> Configs] /\ text \in [Ingests -> Texts]
  BY KindsAssumption DEF Processes, Ingests, PutInv, TypeOK
<1>b. /\ pc[p] \in {"idle", "lock", "decide"} => read[p] = NoRow
      /\ pc[p] = "save" => /\ read[p] # NoRow /\ read[p].hash = NewHash(p)
                           /\ source # NoRow /\ source.id = read[p].id => source.hash = NewHash(p)
  BY DEF PutInv, ReadsLate, RepairsItsText
<1> USE <1>a DEF Go, Unwritten, local, db
<1>1. CASE ~OwnStep(p)
  <2>1. /\ pc'[p] = pc[p] /\ read'[p] = read[p] /\ text'[p] = text[p] /\ cfg'[p] = cfg[p]
        /\ NewHash(p)' = NewHash(p)
    BY <1>1, OthersStep DEF PutInv, NewHash
  <2>2. ASSUME pc[p] = "save", source' # NoRow, source'.id = read[p].id
        PROVE  source'.hash = NewHash(p)
    <3>1. RowStep /\ read[p].id < nextId /\ read[p].id \in Nat /\ nextId \in Nat
      BY <1>b, <2>2, RowsMove DEF PutInv, IdsBelow, TypeOK, Rows
    <3>2. source # NoRow /\ source.id = source'.id
      BY <2>2, <3>1 DEF RowStep
    <3>3. source'.hash = source.hash
      BY <1>1, <2>2, <3>2, NoOtherWriter DEF PutInv, OwnStep, IngestStep
    <3> QED
      BY <1>b, <2>2, <3>2, <3>3
  <2> QED
    BY <1>b, <2>1, <2>2
<1>2. CASE StartPut(p)
  BY <1>2, <1>b DEF StartPut
<1>3. CASE AdvisoryLock(p)
  BY <1>3, <1>b DEF AdvisoryLock
<1>4. CASE Skip(p)
  <2>1. /\ Existing(p) = source /\ source # NoRow /\ source.hash = NewHash(p)
        /\ NewHash(p)' = NewHash(p) /\ read'[p] = source /\ source' = source
    BY <1>4, <1>b DEF Skip, Unchanged, Existing, NewHash
  <2>2. pc'[p] \in {"done", "save"}
    BY <1>4 DEF Skip
  <2> QED
    BY <2>1, <2>2
<1>5. CASE SkipSave(p)
  <2>1. CASE source # NoRow /\ source.id = read[p].id
    <3>1. source' = [source EXCEPT !.status = "complete"] /\ source \in Rows /\ pc'[p] = "done"
      BY <1>5, <2>1 DEF SkipSave
    <3>2. source' \in Rows /\ source'.hash = source.hash
      BY <3>1 DEF Rows
    <3> QED
      BY <1>5, <1>b, <2>1, <3>1, <3>2, NullsAssumption DEF SkipSave
  <2>2. CASE ~(source # NoRow /\ source.id = read[p].id)
    BY <1>5, <2>2 DEF SkipSave
  <2> QED
    BY <2>1, <2>2
<1>6. CASE RecordEmpty(p) \/ Store(p)
  <2>1. NewHash(p) \in Hashes /\ text[p] \in Texts
    BY DEF NewHash, Hash, Hashes
  <2>2. CASE RecordEmpty(p)
    <3>1. source' # NoRow
      BY <2>1, <2>2, UpsertType DEF PutInv, RecordEmpty, Rows, TypeOK
    <3>2. source'.hash = NewHash(p)
      BY <2>2 DEF RecordEmpty, Upsert, Rows
    <3>3. pc'[p] = "done"
      BY <2>2 DEF RecordEmpty
    <3> QED
      BY <3>1, <3>2, <3>3
  <2>3. CASE Store(p)
    <3>1. source' # NoRow
      BY <2>1, <2>3, UpsertType DEF PutInv, Store, Rows, TypeOK
    <3>2. source'.hash = NewHash(p)
      BY <2>3 DEF Store, Upsert, Rows
    <3>3. pc'[p] = "done"
      BY <2>3 DEF Store
    <3> QED
      BY <3>1, <3>2, <3>3
  <2> QED
    BY <1>6, <2>2, <2>3
<1>7. CASE Replace(p) \/ DeleteOldChunks(p) \/ Embed(p) \/ Abort(p)
  <2>1. pc'[p] \in {"embed", "erase", "erasing", "store", "failed"}
    BY <1>7 DEF Replace, DeleteOldChunks, StartDelete, FinishDelete, Embed, Abort
  <2> QED
    BY <2>1
<1> QED
  BY <1>1, <1>2, <1>3, <1>4, <1>5, <1>6, <1>7 DEF OwnStep, IngestStep

\* A PUT that is answered 200 has taken effect, for any number of PUTs, file jobs, deletes,
\* purges and changed settings.
THEOREM PutsTakeEffect == Spec => PutTakesEffect
<1>1. Init => PutInv
  <2> SUFFICES ASSUME Init PROVE PutInv
    OBVIOUS
  <2>1. TypeOK /\ Puts \subseteq Processes /\ Ingests \subseteq Processes /\ Nobody \notin Ingests
    BY TypeInit, KindsAssumption DEF Processes, Ingests
  <2> QED
    BY <2>1 DEF Init, PutInv, LockHeld, Inside, IdsBelow, ReadsLate, RepairsItsText
<1>2. PutInv /\ [Next]_vars => PutInv'
  <2> SUFFICES ASSUME PutInv, [Next]_vars PROVE PutInv'
    OBVIOUS
  <2>1. TypeOK' /\ LockHeld' /\ IdsBelow'
    BY TypeStep, LockStep, IdsStep DEF PutInv
  <2>2. ReadsLate' /\ RepairsItsText'
    BY PutStep DEF ReadsLate, RepairsItsText
  <2> QED
    BY <2>1, <2>2 DEF PutInv
<1>3. PutInv /\ [Next]_vars =>
        \A p \in Puts : pc[p] # "done" /\ pc'[p] = "done" =>
           source' # NoRow /\ source'.hash = NewHash(p)
  BY PutStep
<1>4. PutInv /\ [Next]_vars =>
        [\A p \in Puts : pc[p] # "done" /\ pc'[p] = "done" =>
           source' # NoRow /\ source'.hash = NewHash(p)]_vars
  BY <1>3
<1> QED
  BY <1>1, <1>2, <1>4, PTL DEF Spec, PutTakesEffect
-------------------------------------------------------------------------------
(***************************************************************************)
(* DELETE: the row it has read is the row, or an earlier one.  So what     *)
(* takes a source's chunks and leaves its row is a DELETE that had read an *)
(* earlier row; whoever else removes chunks removes or empties the row.    *)
(***************************************************************************)
ReadsEarlier == \A p \in Deletes : read[p] # NoRow /\ source # NoRow => read[p].id <= source.id

HasRead == \A p \in Deletes : pc[p] \in {"erase", "erasing", "drop", "done"} => read[p] # NoRow

LossInv == TypeOK /\ IdsBelow /\ ReadsEarlier /\ HasRead /\ LossExplained

\* Reading the row or moving on keeps both facts about it.
LEMMA EarlierStep == ASSUME TypeOK, IdsBelow, ReadsEarlier, [Next]_vars PROVE ReadsEarlier'
<1> SUFFICES ASSUME NEW p \in Deletes, read'[p] # NoRow, source' # NoRow
             PROVE  read'[p].id <= source'.id
  BY DEF ReadsEarlier
<1>1. p \in Processes
  BY DEF Processes, Erasers
<1>2. RowStep /\ read'[p] \in {read[p], source}
  BY <1>1, RowsMove, ReadsMove
<1>3. /\ source # NoRow => source.id \in Nat
      /\ read[p] # NoRow => read[p].id \in Nat
      /\ nextId \in Nat
  BY <1>1 DEF TypeOK, Rows
<1> QED
  BY <1>1, <1>2, <1>3 DEF RowStep, IdsBelow, ReadsEarlier

\* A DELETE's own steps, and the others'.
LEMMA DeletesMove ==
  ASSUME TypeOK, [Next]_vars, NEW p \in Deletes
  PROVE  \/ pc'[p] = pc[p] /\ read'[p] = read[p]
         \/ SelectSource(p) \/ DeleteChunks(p) \/ DropSource(p)
<1> USE DEF local, Unwritten, TypeOK, Go
<1>a. /\ p \in Processes /\ p \notin Ingests /\ p \notin Puts /\ p \notin Files
      /\ p \notin Purges /\ p \notin Patches
  BY KindsAssumption DEF Processes, Ingests, Erasers
<1>b. Processes = Puts \cup Files \cup Deletes \cup Purges \cup Patches
  BY DEF Processes, Ingests, Erasers
<1>1. ASSUME NEW q \in Puts, StartPut(q) PROVE pc'[p] = pc[p] /\ read'[p] = read[p]
  BY <1>1, <1>a, <1>b DEF StartPut
<1>2. ASSUME NEW q \in Files, QueueFile(q) \/ LoadModel(q) \/ StartFileJob(q) \/ NoSourceToRead(q)
      PROVE  pc'[p] = pc[p] /\ read'[p] = read[p]
  BY <1>2, <1>a, <1>b DEF QueueFile, LoadModel, StartFileJob, NoSourceToRead
<1>3. ASSUME NEW q \in Ingests, IngestStep(q) \/ Abort(q) PROVE pc'[p] = pc[p] /\ read'[p] = read[p]
  <2>0. q # p /\ q \in Processes
    BY <1>a DEF Processes
  <2>1. CASE Abort(q)
    BY <1>a, <2>0, <2>1 DEF Abort
  <2>2. CASE Skip(q) \/ Replace(q)
    BY <1>a, <2>0, <2>2 DEF Skip, Replace
  <2>3. CASE AdvisoryLock(q) \/ SkipSave(q) \/ Embed(q)
    BY <1>a, <2>0, <2>3 DEF AdvisoryLock, SkipSave, Embed
  <2>4. CASE DeleteOldChunks(q)
    BY <1>a, <2>0, <2>4 DEF DeleteOldChunks, StartDelete, FinishDelete
  <2>5. CASE RecordEmpty(q) \/ Store(q)
    BY <1>a, <2>0, <2>5 DEF RecordEmpty, Store
  <2> QED
    BY <1>3, <2>1, <2>2, <2>3, <2>4, <2>5 DEF IngestStep
<1>4. ASSUME NEW q \in Erasers, q # p,
             SelectSource(q) \/ StartPurge(q) \/ DeleteChunks(q) \/ DropSource(q)
      PROVE  pc'[p] = pc[p] /\ read'[p] = read[p]
  <2>1. q \in Processes
    BY DEF Processes
  <2> QED
    BY <1>4, <1>a, <2>1 DEF SelectSource, StartPurge, DeleteChunks, DropSource, StartDelete,
                           FinishDelete
<1>5. ASSUME NEW q \in Patches, CheckContent(q) \/ SaveModel(q)
      PROVE  pc'[p] = pc[p] /\ read'[p] = read[p]
  BY <1>5, <1>a DEF CheckContent, SaveModel
<1>6. CASE UNCHANGED vars
  BY <1>6 DEF vars
<1> QED
  BY <1>a, <1>1, <1>2, <1>3, <1>4, <1>5, <1>6 DEF Next, Erasers

\* A process keeps the row it has read until its transaction ends.
LEMMA HasReadStep == ASSUME TypeOK, HasRead, [Next]_vars PROVE HasRead'
<1> SUFFICES ASSUME NEW p \in Deletes, pc'[p] \in {"erase", "erasing", "drop", "done"}
             PROVE  read'[p] # NoRow
  BY DEF HasRead
<1>a. p \in Processes /\ read \in [Processes -> Rows \cup {NoRow}] /\ pc \in [Processes -> PcStates]
  BY DEF Processes, Erasers, TypeOK
<1>1. CASE SelectSource(p)
  BY <1>1, <1>a DEF SelectSource, Go
<1>2. CASE DeleteChunks(p) \/ DropSource(p)
  BY <1>2, <1>a DEF DeleteChunks, StartDelete, FinishDelete, DropSource, Go, local, HasRead
<1> QED
  BY <1>1, <1>2, DeletesMove DEF HasRead

\* The row that lost its chunks has a DELETE behind it.
LEMMA LossStep == ASSUME LossInv, [Next]_vars PROVE LossExplained'
<1> SUFFICES ASSUME source' # NoRow, source'.count = 1, stored' = {}
             PROVE  \E p \in Deletes : pc'[p] = "done" /\ read'[p].id < source'.id
  BY DEF LossExplained
<1> USE DEF db, Unwritten, LossInv
<1>a. /\ source # NoRow => source \in Rows
      /\ stored \subseteq Batches
  BY DEF TypeOK
\* Those who explain a loss stay what they are.
<1>1. ASSUME source # NoRow, source.count = 1, stored = {}, source'.id = source.id
      PROVE  \E p \in Deletes : pc'[p] = "done" /\ read'[p].id < source'.id
  <2>1. PICK p \in Deletes : pc[p] = "done" /\ read[p].id < source.id
    BY <1>1 DEF LossExplained
  <2>2. pc'[p] = pc[p] /\ read'[p] = read[p]
    BY <2>1, DeletesMove DEF SelectSource, DeleteChunks, StartDelete, FinishDelete, DropSource, Go
  <2> QED
    BY <1>1, <2>1, <2>2
<1>2. CASE UNCHANGED <<source, stored>>
  BY <1>1, <1>2
<1>3. ASSUME NEW p \in Files, QueueFile(p)
      PROVE  \E q \in Deletes : pc'[q] = "done" /\ read'[q].id < source'.id
  <2>1. CASE source = NoRow
    BY <1>3, <2>1 DEF QueueFile, Upsert
  <2>2. CASE source # NoRow
    <3>1. source'.count = source.count /\ source'.id = source.id /\ stored' = stored
      BY <1>3, <1>a, <2>2 DEF QueueFile, Upsert, Rows
    <3> QED
      BY <1>1, <2>2, <3>1
  <2> QED
    BY <2>1, <2>2
<1>4. ASSUME NEW p \in Ingests, SkipSave(p)
      PROVE  \E q \in Deletes : pc'[q] = "done" /\ read'[q].id < source'.id
  <2>1. source' = source \/ (source # NoRow /\ source' = [source EXCEPT !.status = "complete"])
    BY <1>4 DEF SkipSave
  <2>2. source # NoRow /\ source'.count = source.count /\ source'.id = source.id /\ stored' = stored
    BY <1>4, <1>a, <2>1 DEF SkipSave, Rows
  <2> QED
    BY <1>1, <2>2
<1>5. ASSUME NEW p \in Ingests, RecordEmpty(p) PROVE FALSE
  <2>1. source'.count = 0
    BY <1>5, <1>a DEF RecordEmpty, Upsert, Rows
  <2> QED
    BY <2>1
<1>6. ASSUME NEW p \in Ingests, Store(p) PROVE FALSE
  BY <1>6 DEF Store
<1>7. ASSUME NEW p \in Erasers, DropSource(p)
      PROVE  \E q \in Deletes : pc'[q] = "done" /\ read'[q].id < source'.id
  <2>1. source' = source /\ p \in Deletes /\ source.id # read[p].id
    BY <1>7 DEF DropSource, Erasers
  <2>2. pc[p] = "drop" /\ pc'[p] = "done" /\ read' = read
    BY <1>7 DEF DropSource, Go, local, TypeOK, Processes
  <2>3. read[p] # NoRow /\ read[p].id <= source.id
    BY <2>1, <2>2 DEF HasRead, ReadsEarlier
  <2>4. read[p].id \in Nat /\ source.id \in Nat
    BY <1>a, <2>1, <2>3 DEF TypeOK, Rows, Processes
  <2> QED
    BY <2>1, <2>2, <2>3, <2>4
<1> QED
  BY <1>2, <1>3, <1>4, <1>5, <1>6, <1>7 DEF Next, vars, StartPut, LoadModel, StartFileJob, NoSourceToRead,
     IngestStep, AdvisoryLock, Skip, Replace, DeleteOldChunks, Embed, Abort, SelectSource,
     StartPurge, DeleteChunks, StartDelete, FinishDelete, CheckContent, SaveModel

\* A row that says it has chunks has them, unless a DELETE by an older id took them.
THEOREM LossesExplained == Spec => []LossExplained
<1>1. Init => LossInv
  <2> SUFFICES ASSUME Init PROVE LossInv
    OBVIOUS
  <2>1. TypeOK /\ Deletes \subseteq Processes
    BY TypeInit DEF Processes, Erasers
  <2> QED
    BY <2>1 DEF Init, LossInv, IdsBelow, ReadsEarlier, HasRead, LossExplained
<1>2. LossInv /\ [Next]_vars => LossInv'
  BY TypeStep, IdsStep, EarlierStep, HasReadStep, LossStep DEF LossInv
<1>3. LossInv => LossExplained
  BY DEF LossInv
<1> QED
  BY <1>1, <1>2, <1>3, PTL DEF Spec

\* A reader never finds a source between its old chunks and its new ones.
THEOREM ReplacementsAtomic == Erasers = {} /\ Spec => ReplacedAtomically
<1> SUFFICES ASSUME Erasers = {} PROVE Spec => ReplacedAtomically
  OBVIOUS
<1>1. ReplaceInv /\ [Next]_vars => ReplaceInv'
  BY ReplaceStep
<1>2. ReplaceInv /\ [Next]_vars =>
        [stored # {} /\ stored' = {} => source' # NoRow /\ source'.detail = "no text"]_vars
  <2> SUFFICES ASSUME ReplaceInv, Next, stored # {}, stored' = {}
               PROVE  source' # NoRow /\ source'.detail = "no text"
    OBVIOUS
  <2> USE DEF db, Unwritten
  <2>1. ASSUME NEW p \in Ingests, RecordEmpty(p) PROVE source' # NoRow /\ source'.detail = "no text"
    <3>1. source \in Rows
      BY DEF ReplaceInv, SourceDescribesChunks, TypeOK
    <3>2. source'.detail = "no text"
      BY <2>1, <3>1 DEF RecordEmpty, Upsert, Rows
    <3>3. source' # NoRow
      <4>1. NewHash(p) \in Hashes
        BY DEF NewHash, Hash, Hashes, ReplaceInv, TypeOK
      <4> QED
        BY <2>1, <4>1, UpsertType DEF RecordEmpty, Rows, ReplaceInv, TypeOK
    <3> QED
      BY <3>2, <3>3
  <2>2. ASSUME NEW p \in Ingests, Store(p) PROVE FALSE
    BY <2>2 DEF Store
  <2>3. UNCHANGED stored \/ \E p \in Ingests : RecordEmpty(p) \/ Store(p)
    BY DEF Next, vars, StartPut, LoadModel, StartFileJob, NoSourceToRead, QueueFile, SkipSave,
     IngestStep, AdvisoryLock, Skip, Replace, DeleteOldChunks, Embed, Abort, SelectSource,
     StartPurge, DeleteChunks, StartDelete, FinishDelete, CheckContent, SaveModel, Erasers
  <2> QED
    BY <2>1, <2>2, <2>3
<1> QED
  BY <1>1, <1>2, ReplaceInit, PTL DEF Spec, ReplacedAtomically
-------------------------------------------------------------------------------
(* Ingests are serializable, when nothing is deleted meanwhile *)

(***************************************************************************)
(* The strengthening.  An upload whose job has not read the row yet has    *)
(* left a text in it, and a job at work has read a row.  What an ingest    *)
(* decided under the lock still holds of the row it decided by: for a PUT  *)
(* the committed row, whose hash nobody else can change, for a job the one *)
(* it has read.                                                            *)
(***************************************************************************)
HasText == source # NoRow /\ source.raw \in Texts

TextQueued == \A p \in Files : pc[p] \in {"queued", "loaded"} => HasText

JobsHaveRead == \A p \in Files : pc[p] = "lock" \/ pc[p] \in Inside => read[p] # NoRow

Replacing == {"erase", "erasing", "embed", "store"}

Held(p) == IF p \in Files THEN read[p] ELSE source

Decided ==
    \A p \in Ingests :
        /\ pc[p] = "save" => /\ Held(p) # NoRow /\ Held(p).hash = NewHash(p)
                             /\ p \in Files => read[p].status # "complete"
        /\ pc[p] \in Replacing => Held(p) = NoRow \/ Held(p).hash # NewHash(p)
        /\ pc[p] = "store" => text[p] \notin Blanks

SerialInv == ReplaceInv /\ ReadsLate /\ TextQueued /\ JobsHaveRead /\ Decided

\* A row never loses its text.
LEMMA TextStays == ASSUME Erasers = {}, TypeOK, HasText, [Next]_vars PROVE HasText'
<1> USE DEF db, Unwritten, HasText
<1>a. source \in Rows
  BY DEF TypeOK
<1>b. ASSUME NEW r \in Rows, source' = r, r.raw \in Texts PROVE HasText'
  BY <1>b, NullsAssumption
<1>1. ASSUME NEW p \in Files, QueueFile(p) PROVE HasText'
  <2>1. TextOf[p] \in Texts
    BY TextsAssumption DEF Ingests
  <2>2. source' = [source EXCEPT !.status = "pending", !.raw = TextOf[p]]
    BY <1>1 DEF QueueFile, Upsert
  <2> QED
    BY <1>a, <1>b, <2>1, <2>2 DEF Rows
<1>2. ASSUME NEW p \in Ingests, SkipSave(p) PROVE HasText'
  <2>1. source' = source \/ source' = [source EXCEPT !.status = "complete"]
    BY <1>2 DEF SkipSave
  <2> QED
    BY <1>a, <1>b, <2>1 DEF Rows
<1>3. ASSUME NEW p \in Ingests, RecordEmpty(p) \/ Store(p) PROVE HasText'
  <2>1. NewHash(p) \in Hashes /\ text[p] \in Texts
    BY DEF NewHash, Hash, Hashes, TypeOK
  <2>2. CASE RecordEmpty(p)
    <3>1. source' = [source EXCEPT !.hash = NewHash(p), !.count = 0, !.status = "failed",
                                   !.detail = "no text"]
      BY <2>2 DEF RecordEmpty, Upsert
    <3> QED
      BY <1>a, <1>b, <2>1, <3>1 DEF Rows
  <2>3. CASE Store(p)
    <3>1. source' = [source EXCEPT !.hash = NewHash(p), !.count = 1, !.status = "complete",
                                   !.detail = "null", !.raw = text[p]]
      BY <2>3 DEF Store, Upsert
    <3> QED
      BY <1>a, <1>b, <2>1, <3>1 DEF Rows
  <2> QED
    BY <1>3, <2>2, <2>3
<1>4. CASE UNCHANGED source
  BY <1>4
<1> QED
  BY <1>1, <1>2, <1>3, <1>4 DEF Next, vars, StartPut, LoadModel, StartFileJob, NoSourceToRead,
     IngestStep, AdvisoryLock, Skip, Replace, DeleteOldChunks, Embed, Abort, StartDelete,
     FinishDelete, CheckContent, SaveModel, Erasers

\* While an ingest holds the lock, the others leave the row's hash, or make a row without.
LEMMA HashStays ==
  ASSUME Erasers = {}, TypeOK, LockHeld, NEW p \in Ingests, pc[p] \in Inside,
         [Next]_vars, ~OwnStep(p)
  PROVE  \/ source' # NoRow /\ source'.hash = IF source = NoRow THEN NoHash ELSE source.hash
         \/ source' = source
<1> USE DEF db, Unwritten, Go
<1>1. ASSUME NEW q \in Files, QueueFile(q)
      PROVE  source' # NoRow /\ source'.hash = IF source = NoRow THEN NoHash ELSE source.hash
  <2>1. TextOf[q] \in Texts
    BY TextsAssumption DEF Ingests
  <2>2. source' # NoRow
    BY <1>1, <2>1, UpsertType DEF QueueFile, Rows, TypeOK
  <2> QED
    BY <1>1, <2>2 DEF QueueFile, Upsert, Rows, TypeOK
<1>2. ASSUME NEW q \in Ingests, SkipSave(q) \/ RecordEmpty(q) \/ Store(q) PROVE FALSE
  <2>1. pc[q] \in Inside
    BY <1>2 DEF SkipSave, RecordEmpty, Store, Inside
  <2>2. q # p
    BY <1>2 DEF OwnStep, IngestStep
  <2> QED
    BY <2>1, <2>2, OneInside
<1>3. CASE UNCHANGED source
  BY <1>3
<1> QED
  BY <1>1, <1>2, <1>3 DEF Next, vars, StartPut, LoadModel, StartFileJob, NoSourceToRead,
     IngestStep, AdvisoryLock, Skip, Replace, DeleteOldChunks, Embed, Abort,
     StartDelete, FinishDelete, CheckContent, SaveModel, Erasers

\* While nothing is deleted, a job's row is the one it has read.
LEMMA JobsRow ==
  ASSUME SerialInv, NEW p \in Files, pc[p] = "decide"
  PROVE  Existing(p) = read[p] /\ read[p] # NoRow
<1>1. read[p] # NoRow
  BY DEF SerialInv, JobsHaveRead, Inside
<1>2. source # NoRow /\ read[p].id = source.id
  BY <1>1 DEF SerialInv, ReplaceInv, ReadsCurrent, Ingests
<1> QED
  BY <1>1, <1>2 DEF Existing

\* A PUT's row is the committed one.
LEMMA PutsRow ==
  ASSUME ReadsLate, NEW p \in Puts, pc[p] = "decide"
  PROVE  Existing(p) = source
BY DEF ReadsLate, Existing

\* Either way an ingest decides by the row it holds.
LEMMA HeldRow ==
  ASSUME SerialInv, NEW p \in Ingests, pc[p] = "decide"
  PROVE  Existing(p) = Held(p)
BY JobsRow, PutsRow DEF SerialInv, Held, Ingests

\* No step of another process unsettles what an ingest has decided, and its own keep to it.
LEMMA DecidedStep ==
  ASSUME Erasers = {}, SerialInv, [Next]_vars, ReplaceInv', NEW p \in Ingests
  PROVE  /\ pc'[p] = "save" => /\ Held(p)' # NoRow /\ Held(p)'.hash = NewHash(p)'
                               /\ p \in Files => read'[p].status # "complete"
         /\ pc'[p] \in Replacing => Held(p)' = NoRow \/ Held(p)'.hash # NewHash(p)'
         /\ pc'[p] = "store" => text'[p] \notin Blanks
<1>a. /\ p \in Processes /\ pc \in [Processes -> PcStates]
      /\ read \in [Processes -> Rows \cup {NoRow}] /\ source \in Rows \cup {NoRow}
      /\ TypeOK /\ LockHeld
      /\ p \in Puts <=> p \notin Files
  BY KindsAssumption DEF Processes, Ingests, SerialInv, ReplaceInv, TypeOK
<1>b. /\ pc[p] = "save" => /\ Held(p) # NoRow /\ Held(p).hash = NewHash(p)
                           /\ p \in Files => read[p].status # "complete"
      /\ pc[p] \in Replacing => Held(p) = NoRow \/ Held(p).hash # NewHash(p)
      /\ pc[p] = "store" => text[p] \notin Blanks
  BY DEF SerialInv, Decided
<1>c. NewHash(p) \in Hashes /\ NewHash(p) # NoHash
  BY NullsAssumption, <1>a DEF NewHash, Hash, Hashes, TypeOK
<1> USE <1>a DEF Go, Unwritten, local, db
<1>1. CASE ~OwnStep(p)
  <2>1. /\ pc'[p] = pc[p] /\ read'[p] = read[p] /\ NewHash(p)' = NewHash(p) /\ text'[p] = text[p]
    BY <1>1, OthersStep DEF NewHash
  <2>2. CASE p \in Files
    BY <1>b, <2>1, <2>2 DEF Held
  <2>3. CASE p \notin Files /\ (pc[p] = "save" \/ pc[p] \in Replacing)
    <3>1. \/ source' # NoRow /\ source'.hash = IF source = NoRow THEN NoHash ELSE source.hash
          \/ source' = source
      BY <1>1, <2>3, HashStays DEF Inside, Replacing
    <3> QED
      BY <1>b, <1>c, <2>1, <2>3, <3>1 DEF Held
  <2> QED
    BY <1>b, <2>1, <2>2, <2>3
<1>2. CASE Skip(p)
  <2>1. /\ Existing(p) = Held(p) /\ Held(p) # NoRow /\ Held(p).hash = NewHash(p)
        /\ NewHash(p)' = NewHash(p)
    BY <1>2, HeldRow DEF Skip, Unchanged, NewHash
  <2>2. Held(p)' = Held(p)
    BY <1>2, <2>1 DEF Skip, Held
  <2>3. pc'[p] = "done" \/ (pc'[p] = "save" /\ Held(p).status # "complete")
    BY <1>2, <2>1 DEF Skip
  <2>4. p \in Files => read'[p] = Held(p)
    BY <1>2, <2>1 DEF Skip
  <2> QED
    BY <2>1, <2>2, <2>3, <2>4 DEF Replacing
<1>3. CASE Replace(p)
  <2>1. Existing(p) = Held(p) /\ NewHash(p)' = NewHash(p)
    BY <1>3, HeldRow DEF Replace, NewHash
  <2>2. Held(p)' = Held(p)
    BY <1>3, <2>1 DEF Replace, Held
  <2>3. pc'[p] \notin {"save", "store"} /\ (Held(p) = NoRow \/ Held(p).hash # NewHash(p))
    BY <1>3, <2>1 DEF Replace, Unchanged
  <2> QED
    BY <2>1, <2>2, <2>3
<1>4. CASE DeleteOldChunks(p) \/ Embed(p)
  <2>1. pc[p] \in Replacing /\ pc'[p] # "save"
    BY <1>4 DEF DeleteOldChunks, StartDelete, FinishDelete, Embed, Replacing
  <2>2. NewHash(p)' = NewHash(p) /\ Held(p)' = Held(p)
    BY <1>4 DEF DeleteOldChunks, StartDelete, FinishDelete, Embed, NewHash, Held
  <2>3. pc'[p] = "store" => text'[p] \notin Blanks
    BY <1>4 DEF DeleteOldChunks, StartDelete, FinishDelete, Embed
  <2> QED
    BY <1>b, <2>1, <2>2, <2>3
<1>5. ASSUME pc'[p] \notin {"save"} \cup Replacing
      PROVE  /\ pc'[p] = "save" => /\ Held(p)' # NoRow /\ Held(p)'.hash = NewHash(p)'
                                   /\ p \in Files => read'[p].status # "complete"
             /\ pc'[p] \in Replacing => Held(p)' = NoRow \/ Held(p)'.hash # NewHash(p)'
             /\ pc'[p] = "store" => text'[p] \notin Blanks
  BY <1>5 DEF Replacing
<1>6. CASE p \in Puts /\ StartPut(p)
  BY <1>5, <1>6 DEF StartPut, Replacing
<1>7. CASE p \in Files /\ (QueueFile(p) \/ LoadModel(p) \/ StartFileJob(p) \/ NoSourceToRead(p))
  BY <1>5, <1>7 DEF QueueFile, LoadModel, StartFileJob, NoSourceToRead, Replacing
<1>8. CASE AdvisoryLock(p) \/ SkipSave(p) \/ RecordEmpty(p) \/ Store(p) \/ Abort(p)
  BY <1>5, <1>8 DEF AdvisoryLock, SkipSave, RecordEmpty, Store, Abort, Replacing
<1> QED
  BY <1>1, <1>2, <1>3, <1>4, <1>6, <1>7, <1>8 DEF OwnStep, IngestStep

\* Uploads leave their text, jobs start by reading the row, PUTs read under the lock.
LEMMA ReadingStep ==
  ASSUME Erasers = {}, SerialInv, [Next]_vars
  PROVE  TextQueued' /\ JobsHaveRead' /\ ReadsLate'
<1>a. /\ pc \in [Processes -> PcStates] /\ Ingests \subseteq Processes
      /\ read \in [Processes -> Rows \cup {NoRow}]
      /\ TypeOK /\ LockHeld
      /\ Puts \subseteq Ingests /\ Files \subseteq Ingests /\ Puts \cap Files = {}
  BY KindsAssumption DEF Processes, Ingests, SerialInv, ReplaceInv, TypeOK
<1> USE <1>a DEF Go, Unwritten, local, db
<1>1. ASSUME NEW p \in Files
      PROVE  /\ pc'[p] \in {"queued", "loaded"} => HasText'
             /\ pc'[p] = "lock" \/ pc'[p] \in Inside => read'[p] # NoRow
  <2>b. /\ pc[p] \in {"queued", "loaded"} => HasText
        /\ pc[p] = "lock" \/ pc[p] \in Inside => read[p] # NoRow
    BY DEF SerialInv, TextQueued, JobsHaveRead
  <2>1. CASE ~OwnStep(p)
    <3>1. pc'[p] = pc[p] /\ read'[p] = read[p]
      BY <2>1, OthersStep
    <3> QED
      BY <2>b, <3>1, TextStays
  <2>2. CASE QueueFile(p)
    <3>1. TextOf[p] \in Texts
      BY TextsAssumption
    <3>2. source' # NoRow
      BY <2>2, <3>1, UpsertType DEF QueueFile, Rows, TypeOK
    <3>3. source'.raw = TextOf[p]
      BY <2>2 DEF QueueFile, Upsert, Rows, TypeOK
    <3> QED
      BY <2>2, <3>1, <3>2, <3>3 DEF QueueFile, Inside, HasText
  <2>7. CASE LoadModel(p)
    BY <2>b, <2>7, TextStays DEF LoadModel, Inside
  <2>3. CASE StartFileJob(p)
    BY <2>3 DEF StartFileJob, Inside
  <2>4. CASE NoSourceToRead(p) \/ Abort(p)
    BY <2>4 DEF NoSourceToRead, Abort, Inside
  <2>5. CASE Skip(p) \/ Replace(p)
    <3>1. Existing(p) # NoRow
      BY <2>5, JobsRow DEF Skip, Replace
    <3> QED
      BY <2>5, <3>1 DEF Skip, Replace
  <2>6. CASE AdvisoryLock(p) \/ SkipSave(p) \/ DeleteOldChunks(p) \/ RecordEmpty(p)
             \/ Embed(p) \/ Store(p)
    <3>1. (pc[p] = "lock" \/ pc[p] \in Inside) /\ read' = read
          /\ pc'[p] \notin {"queued", "loaded"}
      BY <2>6 DEF AdvisoryLock, SkipSave, DeleteOldChunks, StartDelete, FinishDelete,
                  RecordEmpty, Embed, Store, Inside
    <3> QED
      BY <2>b, <3>1
  <2> QED
    BY <2>1, <2>2, <2>3, <2>4, <2>5, <2>6, <2>7 DEF OwnStep, IngestStep
<1>2. ASSUME NEW p \in Puts, pc'[p] \in {"idle", "lock", "decide"} PROVE read'[p] = NoRow
  <2>1. CASE ~OwnStep(p)
    BY <1>2, <2>1, OthersStep DEF SerialInv, ReadsLate
  <2>2. CASE StartPut(p) \/ AdvisoryLock(p)
    BY <1>2, <2>2 DEF StartPut, AdvisoryLock, SerialInv, ReadsLate
  <2>3. CASE (IngestStep(p) /\ ~AdvisoryLock(p)) \/ Abort(p)
    <3>1. pc'[p] \notin {"idle", "lock", "decide"}
      BY <2>3 DEF IngestStep, Skip, SkipSave, Replace, DeleteOldChunks, StartDelete, FinishDelete,
                  RecordEmpty, Embed, Store, Abort
    <3> QED
      BY <1>2, <3>1
  <2> QED
    BY <2>1, <2>2, <2>3 DEF OwnStep
<1> QED
  BY <1>1, <1>2 DEF TextQueued, JobsHaveRead, ReadsLate

\* The strengthening is an invariant.
LEMMA SerialStep == ASSUME Erasers = {}, SerialInv, [Next]_vars PROVE SerialInv'
<1>1. ReplaceInv'
  BY ReplaceStep DEF SerialInv
<1>2. TextQueued' /\ JobsHaveRead' /\ ReadsLate'
  BY ReadingStep
<1>3. Decided'
  BY <1>1, DecidedStep DEF Decided
<1> QED
  BY <1>1, <1>2, <1>3 DEF SerialInv

\* It holds of the empty database.
LEMMA SerialInit == Init => SerialInv
<1> SUFFICES ASSUME Init PROVE SerialInv
  OBVIOUS
<1>1. ReplaceInv /\ Ingests \subseteq Processes /\ Puts \subseteq Ingests /\ Files \subseteq Ingests
  BY ReplaceInit DEF Processes, Ingests
<1> QED
  BY <1>1 DEF Init, SerialInv, ReadsLate, TextQueued, JobsHaveRead, Decided, Inside, Replacing

\* A step that moves one ingest or change of settings moves it in AtomicIngest.
LEMMA ProgressMoves ==
  ASSUME TypeOK, NEW p \in Ingests \cup Patches, NEW from, NEW to, Go(p, from, to)
  PROVE  Progress[p] = PhaseOf(from) /\ Progress' = [Progress EXCEPT ![p] = PhaseOf(to)]
<1>1. p \in Processes /\ pc \in [Processes -> PcStates] /\ Ingests \cup Patches \subseteq Processes
  BY DEF Processes, TypeOK
<1> QED
  BY <1>1 DEF Progress, Go

\* A job that reads a row makes it known; what it reads again is what it knows.
LEMMA KnownMoves ==
  ASSUME TypeOK, NEW p \in Ingests, NEW r, read' = [read EXCEPT ![p] = r]
  PROVE  Known' = IF p \in Files THEN [Known EXCEPT ![p] = View(r)] ELSE Known
<1>1. p \in Processes /\ read \in [Processes -> Rows \cup {NoRow}] /\ Files \subseteq Processes
  BY DEF Processes, Ingests, TypeOK
<1> QED
  BY <1>1 DEF Known, View

\* A step inside a transaction that commits nothing is no step of AtomicIngest.
LEMMA HiddenStep ==
  ASSUME TypeOK, NEW p \in Ingests, NEW from, NEW to, Go(p, from, to),
         PhaseOf(from) = PhaseOf(to), Known' = Known,
         UNCHANGED <<source, stored, config, cfg, text>>
  PROVE  UNCHANGED Atomic!vars
<1>1. Progress[p] = PhaseOf(from) /\ Progress' = [Progress EXCEPT ![p] = PhaseOf(to)]
  BY ProgressMoves
<1>2. Progress' = Progress
  BY <1>1 DEF Progress
<1>3. RowView' = RowView /\ Chunks' = Chunks
  BY DEF RowView, Chunks
<1> QED
  BY <1>2, <1>3 DEF Atomic!vars

\* What an ingest decides by is what AtomicIngest has it decide by.
LEMMA BasisHeld ==
  ASSUME NEW p \in Ingests
  PROVE  Atomic!Basis(p) = View(Held(p)) /\ Atomic!New(p) = NewHash(p)
BY DEF Atomic!Basis, Atomic!New, Held, Known, RowView, NewHash, Hash

\* Between decision and commit, the row decided by has another hash.
LEMMA BasisDiffers ==
  ASSUME SerialInv, NEW p \in Ingests, pc[p] \in Replacing
  PROVE  Atomic!Basis(p).hash # Atomic!New(p)
<1>1. NewHash(p) # NoHash
  BY NullsAssumption DEF NewHash, Hash, Hashes, SerialInv, ReplaceInv, TypeOK
<1>2. Held(p) = NoRow \/ Held(p).hash # NewHash(p)
  BY DEF SerialInv, Decided
<1> QED
  BY <1>1, <1>2, BasisHeld DEF View

\* The commits are where an ingest happens.
LEMMA CommitsFinish ==
  ASSUME SerialInv, NEW p \in Ingests, RecordEmpty(p) \/ Store(p)
  PROVE  Atomic!Finish(p)
<1>a. /\ source \in Rows \cup {NoRow} /\ TypeOK /\ NewHash(p) \in Hashes
      /\ text[p] \in Texts
  BY DEF SerialInv, ReplaceInv, TypeOK, NewHash, Hash, Hashes
<1>b. Survivors(p) = {}
  BY DEF SerialInv, ReplaceInv, DeletedAll, RecordEmpty, Store, Go, Survivors
<1>c. source' \in Rows /\ source' # NoRow
  <2>1. CASE RecordEmpty(p)
    BY <1>a, <2>1, UpsertType DEF RecordEmpty, Rows, TypeOK
  <2>2. CASE Store(p)
    BY <1>a, <2>2, UpsertType DEF Store, Rows, TypeOK
  <2> QED
    BY <2>1, <2>2
<1>d. RowView' = [hash |-> source'.hash, state |-> source'.status, raw |-> source'.raw]
  BY <1>c DEF RowView, View
<1>e. Atomic!Basis(p).hash # Atomic!New(p) /\ Atomic!New(p) = NewHash(p)
  BY BasisDiffers, BasisHeld DEF RecordEmpty, Store, Go, Replacing
<1>f. Known' = Known /\ UNCHANGED <<config, cfg, text>>
  BY DEF RecordEmpty, Store, local, Known
<1>1. CASE RecordEmpty(p)
  <2>1. Go(p, "embed", "done")
    BY <1>1 DEF RecordEmpty
  <2>2. Atomic!Move(p, "open", "done")
    BY <1>a, <2>1, ProgressMoves DEF Atomic!Move, PhaseOf
  <2>3. Chunks' = {}
    BY <1>1, <1>b DEF RecordEmpty, Chunks
  <2>4. RowView' = [RowView EXCEPT !.hash = NewHash(p), !.state = "failed"]
    <3>1. source'.hash = NewHash(p) /\ source'.status = "failed"
      BY <1>1, <1>a DEF RecordEmpty, Upsert, Rows
    <3>2. source'.raw = IF source = NoRow THEN NoText ELSE source.raw
      BY <1>1, <1>a DEF RecordEmpty, Upsert, Rows
    <3>3. PICK h, s : RowView = [hash |-> h, state |-> s, raw |-> source'.raw]
      <4>1. CASE source = NoRow
        <5>1. RowView = [hash |-> NoHash, state |-> "none", raw |-> source'.raw]
          BY <3>2, <4>1 DEF RowView, View
        <5> QED
          BY <5>1
      <4>2. CASE source # NoRow
        <5>1. RowView = [hash |-> source.hash, state |-> source.status, raw |-> source'.raw]
          BY <3>2, <4>2 DEF RowView, View
        <5> QED
          BY <5>1
      <4> QED
        BY <4>1, <4>2
    <3> DEFINE hashed == [RowView EXCEPT !.hash = NewHash(p)]
    <3>4. hashed = [hash |-> NewHash(p), state |-> s, raw |-> source'.raw]
      BY <3>3
    <3>5. [RowView EXCEPT !.hash = NewHash(p), !.state = "failed"] = [hashed EXCEPT !.state = "failed"]
      BY <3>3
    <3> HIDE DEF hashed
    <3>6. [hashed EXCEPT !.state = "failed"]
             = [hash |-> NewHash(p), state |-> "failed", raw |-> source'.raw]
      BY <3>4
    <3> QED
      BY <1>d, <3>1, <3>5, <3>6
  <2>5. text[p] \in Blanks
    BY <1>1 DEF RecordEmpty
  <2> QED
    BY <1>e, <1>f, <2>2, <2>3, <2>4, <2>5 DEF Atomic!Finish, Atomic!Clear
<1>2. CASE Store(p)
  <2>1. Go(p, "store", "done")
    BY <1>2 DEF Store
  <2>2. Atomic!Move(p, "open", "done")
    BY <1>a, <2>1, ProgressMoves DEF Atomic!Move, PhaseOf
  <2>3. Chunks' = {NewHash(p)}
    BY <1>2, <1>b DEF Store, Chunks
  <2>4. source'.hash = NewHash(p) /\ source'.status = "complete" /\ source'.raw = text[p]
    BY <1>2, <1>a DEF Store, Upsert, Rows
  <2>5. text[p] \notin Blanks
    BY <1>2 DEF Store, Go, SerialInv, Decided
  <2> QED
    BY <1>d, <1>e, <1>f, <2>2, <2>3, <2>4, <2>5 DEF Atomic!Finish, Atomic!Replace
<1> QED
  BY <1>1, <1>2

\* An ingest that finds its text stored keeps it, or repairs the row's status.
LEMMA SkipsFinish ==
  ASSUME SerialInv, NEW p \in Ingests, Skip(p) \/ SkipSave(p)
  PROVE  Atomic!Finish(p) \/ Atomic!Fail(p) \/ UNCHANGED Atomic!vars
<1>a. source \in Rows \cup {NoRow} /\ TypeOK
  BY DEF SerialInv, ReplaceInv, TypeOK
<1>b. Atomic!Basis(p) = View(Held(p)) /\ Atomic!New(p) = NewHash(p)
  BY BasisHeld
<1>1. CASE Skip(p)
  <2>1. Existing(p) = Held(p) /\ Held(p) # NoRow /\ Held(p).hash = NewHash(p)
    BY <1>1, HeldRow DEF Skip, Unchanged, Go
  <2>2. read' = [read EXCEPT ![p] = Held(p)]
    BY <1>1, <2>1 DEF Skip
  <2>3. Known' = Known
    <3>1. CASE p \in Files
      <4>1. read' = read
        BY <2>2, <3>1, <1>a DEF Held, TypeOK, Processes
      <4> QED
        BY <4>1 DEF Known
    <3>2. CASE p \notin Files
      BY <1>a, <2>2, <3>2, KnownMoves
    <3> QED
      BY <3>1, <3>2
  <2>4. UNCHANGED <<source, stored, config, cfg, text>>
    BY <1>1 DEF Skip, db
  <2>5. CASE Held(p).status = "complete"
    <3>1. Go(p, "decide", "done")
      BY <1>1, <2>1, <2>5 DEF Skip
    <3>2. Atomic!Move(p, "open", "done")
      BY <1>a, <3>1, ProgressMoves DEF Atomic!Move, PhaseOf
    <3>3. Atomic!Keep(p)
      BY <1>b, <2>1, <2>4, <2>5 DEF Atomic!Keep, View, RowView, Chunks
    <3> QED
      BY <2>3, <2>4, <3>2, <3>3 DEF Atomic!Finish
  <2>6. CASE Held(p).status # "complete"
    <3>1. Go(p, "decide", "save")
      BY <1>1, <2>1, <2>6 DEF Skip
    <3> QED
      BY <1>a, <2>3, <2>4, <3>1, HiddenStep DEF PhaseOf
  <2> QED
    BY <2>5, <2>6
<1>2. CASE SkipSave(p)
  <2>1. pc[p] = "save" /\ UNCHANGED <<stored, config, cfg, text>> /\ Known' = Known
    BY <1>2 DEF SkipSave, local, Known
  <2>2. /\ Held(p) # NoRow /\ Held(p).hash = NewHash(p)
        /\ p \in Files => Held(p).status # "complete"
    BY <2>1 DEF SerialInv, Decided, Held
  <2>3. CASE source # NoRow /\ source.id = read[p].id
    <3>1. Go(p, "save", "done") /\ source' = [source EXCEPT !.status = "complete"]
      BY <1>2, <2>3 DEF SkipSave
    <3>2. Atomic!Move(p, "open", "done")
      BY <1>a, <3>1, ProgressMoves DEF Atomic!Move, PhaseOf
    <3>3. source' \in Rows /\ source' # NoRow
      BY <1>a, <2>3, <3>1, NullsAssumption DEF Rows
    <3>4. source'.status = "complete" /\ source'.hash = source.hash /\ source'.raw = source.raw
      BY <1>a, <2>3, <3>1 DEF Rows
    <3>5. RowView' = [hash |-> source.hash, state |-> "complete", raw |-> source.raw]
      BY <3>3, <3>4 DEF RowView, View
    <3>6. RowView = [hash |-> source.hash, state |-> source.status, raw |-> source.raw]
      BY <2>3 DEF RowView, View
    <3>7. RowView' = [RowView EXCEPT !.state = "complete"]
      BY <3>5, <3>6
    <3>8. Atomic!Basis(p).hash = Atomic!New(p) /\ Atomic!Basis(p).state = Held(p).status
      BY <1>b, <2>2 DEF View
    <3>9. Chunks' = Chunks
      BY <2>1 DEF Chunks
    <3>10. CASE Held(p).status # "complete"
      BY <2>1, <3>2, <3>7, <3>8, <3>9, <3>10 DEF Atomic!Finish, Atomic!Repair
    <3>11. CASE Held(p).status = "complete"
      <4>1. Held(p) = source
        BY <2>2, <3>11 DEF Held
      <4>2. RowView' = RowView
        BY <3>5, <3>6, <3>11, <4>1
      <4> QED
        BY <2>1, <3>2, <3>8, <3>9, <3>11, <4>2 DEF Atomic!Finish, Atomic!Keep
    <3> QED
      BY <3>10, <3>11
  <2>4. CASE ~(source # NoRow /\ source.id = read[p].id)
    <3>1. Go(p, "save", "failed") /\ source' = source
      BY <1>2, <2>4 DEF SkipSave
    <3>2. Atomic!Move(p, "open", "failed")
      BY <1>a, <3>1, ProgressMoves DEF Atomic!Move, PhaseOf
    <3>3. RowView' = RowView /\ Chunks' = Chunks
      BY <2>1, <3>1 DEF RowView, Chunks
    <3> QED
      BY <2>1, <3>2, <3>3 DEF Atomic!Fail
  <2> QED
    BY <2>3, <2>4
<1> QED
  BY <1>1, <1>2

\* Waiting for the lock, deciding to replace, deleting and embedding show nothing.
LEMMA WorkHidden ==
  ASSUME SerialInv, NEW p \in Ingests,
         AdvisoryLock(p) \/ Replace(p) \/ DeleteOldChunks(p) \/ Embed(p)
  PROVE  UNCHANGED Atomic!vars
<1>a. TypeOK
  BY DEF SerialInv, ReplaceInv
<1>1. UNCHANGED <<source, stored, config, cfg, text>>
  BY DEF AdvisoryLock, Replace, DeleteOldChunks, StartDelete, FinishDelete, Embed, db, local,
         Unwritten
<1>2. Known' = Known
  <2>1. CASE Replace(p)
    <3>1. read' = [read EXCEPT ![p] = Held(p)]
      BY <2>1, HeldRow DEF Replace, Go
    <3>2. CASE p \in Files
      <4>1. read' = read
        BY <1>a, <3>1, <3>2 DEF Held, TypeOK, Processes
      <4> QED
        BY <4>1 DEF Known
    <3>3. CASE p \notin Files
      BY <1>a, <3>1, <3>3, KnownMoves
    <3> QED
      BY <3>2, <3>3
  <2>2. CASE read' = read
    BY <2>2 DEF Known
  <2> QED
    BY <2>1, <2>2 DEF AdvisoryLock, DeleteOldChunks, StartDelete, FinishDelete, Embed, local
<1>3. \E from, to \in {"lock"} \cup Inside : Go(p, from, to)
  BY DEF AdvisoryLock, Replace, DeleteOldChunks, StartDelete, FinishDelete, Embed, Inside
<1>4. \A at \in {"lock"} \cup Inside : PhaseOf(at) = "open"
  BY DEF PhaseOf, Inside
<1> QED
  BY <1>a, <1>1, <1>2, <1>3, <1>4, HiddenStep

\* How an ingest begins, and how it fails.
LEMMA EndsSeen ==
  ASSUME SerialInv, NEW p \in Ingests,
         \/ p \in Puts /\ StartPut(p)
         \/ p \in Files /\ (QueueFile(p) \/ LoadModel(p) \/ StartFileJob(p) \/ NoSourceToRead(p))
         \/ Abort(p)
  PROVE  \/ p \in Puts /\ Atomic!Request(p)
         \/ p \in Files /\ (Atomic!Upload(p) \/ Atomic!Load(p) \/ Atomic!StartJob(p))
         \/ Atomic!Fail(p)
<1>a. source \in Rows \cup {NoRow} /\ TypeOK
  BY DEF SerialInv, ReplaceInv, TypeOK
<1>b. source' = source /\ stored' = stored => RowView' = RowView /\ Chunks' = Chunks
  BY DEF RowView, Chunks
<1>c. read' = read => Known' = Known
  BY DEF Known
<1>1. CASE p \in Puts /\ StartPut(p)
  <2>1. Go(p, "idle", "lock")
    BY <1>1 DEF StartPut
  <2>2. Atomic!Move(p, "idle", "open")
    BY <1>a, <2>1, ProgressMoves DEF Atomic!Move, PhaseOf
  <2> QED
    BY <1>1, <1>b, <1>c, <2>2 DEF StartPut, Unwritten, db, Atomic!Request
<1>2. CASE p \in Files /\ QueueFile(p)
  <2>1. Go(p, "idle", "queued")
    BY <1>2 DEF QueueFile
  <2>2. Atomic!Move(p, "idle", "queued")
    BY <1>a, <2>1, ProgressMoves DEF Atomic!Move, PhaseOf
  <2>3. TextOf[p] \in Texts
    BY TextsAssumption
  <2>4. source' \in Rows /\ source' # NoRow
    BY <1>2, <1>a, <2>3, UpsertType DEF QueueFile, Rows, TypeOK
  <2>5. /\ source'.status = "pending" /\ source'.raw = TextOf[p]
        /\ source'.hash = IF source = NoRow THEN NoHash ELSE source.hash
    BY <1>2, <1>a DEF QueueFile, Upsert, Rows
  <2>6. RowView' = [hash |-> source'.hash, state |-> "pending", raw |-> TextOf[p]]
    BY <2>4, <2>5 DEF RowView, View
  <2>7. PICK s, t : RowView = [hash |-> source'.hash, state |-> s, raw |-> t]
    <3>1. CASE source = NoRow
      <4>1. RowView = [hash |-> source'.hash, state |-> "none", raw |-> NoText]
        BY <2>5, <3>1 DEF RowView, View
      <4> QED
        BY <4>1
    <3>2. CASE source # NoRow
      <4>1. RowView = [hash |-> source'.hash, state |-> source.status, raw |-> source.raw]
        BY <2>5, <3>2 DEF RowView, View
      <4> QED
        BY <4>1
    <3> QED
      BY <3>1, <3>2
  <2>8. RowView' = [RowView EXCEPT !.state = "pending", !.raw = TextOf[p]]
    <3> DEFINE queued == [RowView EXCEPT !.state = "pending"]
    <3>1. queued = [hash |-> source'.hash, state |-> "pending", raw |-> t]
      BY <2>7
    <3>2. [RowView EXCEPT !.state = "pending", !.raw = TextOf[p]] = [queued EXCEPT !.raw = TextOf[p]]
      BY <2>7
    <3> HIDE DEF queued
    <3>3. [queued EXCEPT !.raw = TextOf[p]]
             = [hash |-> source'.hash, state |-> "pending", raw |-> TextOf[p]]
      BY <3>1
    <3> QED
      BY <2>6, <3>2, <3>3
  <2>9. UNCHANGED <<stored, config, read, cfg, text>>
    BY <1>2 DEF QueueFile, local
  <2> QED
    BY <1>2, <1>c, <2>2, <2>8, <2>9 DEF Chunks, Atomic!Upload
<1>3. CASE p \in Files /\ StartFileJob(p)
  <2>1. pc[p] = "loaded"
    BY <1>3 DEF StartFileJob, Go
  <2>2. source # NoRow /\ source.raw \in Texts
    BY <1>3, <2>1 DEF SerialInv, TextQueued, HasText
  <2>3. source.raw # NoText
    BY <2>2, TextsAssumption
  <2>4. Go(p, "loaded", "lock")
    BY <1>3, <2>3 DEF StartFileJob
  <2>5. Atomic!Move(p, "loaded", "open")
    BY <1>a, <2>4, ProgressMoves DEF Atomic!Move, PhaseOf
  <2>6. Known' = [Known EXCEPT ![p] = RowView]
    BY <1>3, <1>a, KnownMoves DEF StartFileJob, RowView
  <2>7. RowView.raw = source.raw
    BY <2>2 DEF RowView, View
  <2>8. /\ text' = [text EXCEPT ![p] = source.raw]
        /\ UNCHANGED <<source, stored, config, cfg>>
    BY <1>3, <2>3 DEF StartFileJob, Unwritten, db
  <2> QED
    BY <1>3, <1>b, <2>2, <2>5, <2>6, <2>7, <2>8 DEF Atomic!StartJob
<1>4. CASE p \in Files /\ NoSourceToRead(p)
  BY <1>4 DEF NoSourceToRead, Go, SerialInv, TextQueued, HasText
<1>6. CASE p \in Files /\ LoadModel(p)
  <2>1. Go(p, "queued", "loaded")
    BY <1>6 DEF LoadModel
  <2>2. Atomic!Move(p, "queued", "loaded")
    BY <1>a, <2>1, ProgressMoves DEF Atomic!Move, PhaseOf
  <2> QED
    BY <1>6, <1>b, <1>c, <2>2 DEF LoadModel, Unwritten, db, Atomic!Load
<1>5. CASE Abort(p)
  <2>1. PICK at \in {"loaded", "lock"} \cup Inside : Go(p, at, "failed")
    BY <1>5 DEF Abort, Go, Inside
  <2>2. PhaseOf(at) \in {"loaded", "open"} /\ PhaseOf("failed") = "failed"
    BY DEF PhaseOf, Inside
  <2>3. Atomic!Move(p, "loaded", "failed") \/ Atomic!Move(p, "open", "failed")
    BY <1>a, <2>1, <2>2, ProgressMoves DEF Atomic!Move
  <2> QED
    BY <1>5, <1>b, <1>c, <2>3 DEF Abort, db, local, Atomic!Fail
<1> QED
  BY <1>1, <1>2, <1>3, <1>4, <1>5, <1>6

\* A change of settings is checked and saved in two steps.
LEMMA PatchSeen ==
  ASSUME TypeOK, NEW p \in Patches, CheckContent(p) \/ SaveModel(p)
  PROVE  Atomic!Check(p) \/ Atomic!Refuse(p) \/ Atomic!Save(p)
<1>a. /\ source \in Rows \cup {NoRow}
      /\ \A r \in Rows : r.status # "none"
  BY DEF TypeOK, Rows
<1>b. RowView.state = "none" <=> source = NoRow
  BY <1>a DEF RowView, View
<1>c. UNCHANGED <<source, stored, read>> => RowView' = RowView /\ Chunks' = Chunks /\ Known' = Known
  BY DEF RowView, Chunks, Known
<1>1. CASE CheckContent(p)
  <2>1. UNCHANGED <<source, stored, config, read, cfg, text>>
    BY <1>1 DEF CheckContent, Unwritten, db, local
  <2>2. CASE source = NoRow
    <3>1. Go(p, "idle", "patch")
      BY <1>1, <2>2 DEF CheckContent
    <3>2. Atomic!Move(p, "idle", "open")
      BY <3>1, ProgressMoves DEF Atomic!Move, PhaseOf
    <3> QED
      BY <1>b, <1>c, <2>1, <2>2, <3>2 DEF Atomic!Check
  <2>3. CASE source # NoRow
    <3>1. Go(p, "idle", "failed")
      BY <1>1, <2>3 DEF CheckContent
    <3>2. Atomic!Move(p, "idle", "failed")
      BY <3>1, ProgressMoves DEF Atomic!Move, PhaseOf
    <3> QED
      BY <1>b, <1>c, <2>1, <2>3, <3>2 DEF Atomic!Refuse
  <2> QED
    BY <2>2, <2>3
<1>2. CASE SaveModel(p)
  <2>1. Go(p, "patch", "done")
    BY <1>2 DEF SaveModel
  <2>2. Atomic!Move(p, "open", "done")
    BY <2>1, ProgressMoves DEF Atomic!Move, PhaseOf
  <2> QED
    BY <1>2, <1>c, <2>2 DEF SaveModel, local, Atomic!Save
<1> QED
  BY <1>1, <1>2

\* Every step is a step of AtomicIngest, or none that it sees.
LEMMA SerialMaps ==
  ASSUME Erasers = {}, SerialInv, [Next]_vars
  PROVE  [Atomic!Next]_Atomic!vars
<1>a. /\ Puts \subseteq Ingests /\ Files \subseteq Ingests /\ Deletes = {} /\ Purges = {}
      /\ TypeOK
  BY DEF Ingests, Erasers, SerialInv, ReplaceInv
<1>1. ASSUME NEW p \in Ingests, OwnStep(p)
      PROVE  [Atomic!Next]_Atomic!vars
  <2>1. CASE RecordEmpty(p) \/ Store(p)
    BY <2>1, CommitsFinish DEF Atomic!Next, Atomic!Ingests, Ingests
  <2>2. CASE Skip(p) \/ SkipSave(p)
    BY <2>2, SkipsFinish DEF Atomic!Next, Atomic!Ingests, Ingests
  <2>3. CASE AdvisoryLock(p) \/ Replace(p) \/ DeleteOldChunks(p) \/ Embed(p)
    BY <2>3, WorkHidden
  <2>4. CASE \/ p \in Puts /\ StartPut(p)
             \/ p \in Files /\ (QueueFile(p) \/ LoadModel(p) \/ StartFileJob(p) \/ NoSourceToRead(p))
             \/ Abort(p)
    BY <2>4, EndsSeen DEF Atomic!Next, Atomic!Ingests, Ingests
  <2> QED
    BY <1>1, <2>1, <2>2, <2>3, <2>4 DEF OwnStep, IngestStep
<1>2. ASSUME NEW p \in Patches, CheckContent(p) \/ SaveModel(p)
      PROVE  [Atomic!Next]_Atomic!vars
  BY <1>2, <1>a, PatchSeen DEF Atomic!Next
<1>3. CASE UNCHANGED vars
  BY <1>3 DEF vars, db, local, RowView, Chunks, Progress, Known, PhaseOf, View, Atomic!vars
<1> QED
  BY <1>a, <1>1, <1>2, <1>3 DEF Next, OwnStep

\* Any number of PUTs, file jobs and changed settings, aborted at any point, act on the
\* source one at a time: ingest_content is serializable, if nothing is deleted meanwhile.
THEOREM IngestsSerialize == Erasers = {} /\ Spec => IngestsAtomic
<1> SUFFICES ASSUME Erasers = {} PROVE Spec => IngestsAtomic
  OBVIOUS
<1>1. Init => Atomic!Init
  <2> SUFFICES ASSUME Init PROVE Atomic!Init
    OBVIOUS
  <2>1. RowView = Atomic!Absent /\ Chunks = {}
    BY DEF Init, RowView, Chunks, View, Atomic!Absent
  <2>2. Progress = [p \in Atomic!Ingests \cup Patches |-> "idle"]
    BY DEF Init, Progress, PhaseOf, Processes, Ingests, Atomic!Ingests
  <2>3. Known = [p \in Files |-> Atomic!Absent]
    BY DEF Init, Known, View, Processes, Ingests, Atomic!Absent
  <2> QED
    BY <2>1, <2>2, <2>3 DEF Init, Atomic!Init, Atomic!Ingests, Ingests
<1>2. SerialInv /\ [Next]_vars => SerialInv'
  BY SerialStep
<1>3. SerialInv /\ [Next]_vars => [Atomic!Next]_Atomic!vars
  BY SerialMaps
<1> QED
  BY <1>1, <1>2, <1>3, SerialInit, PTL DEF Spec, IngestsAtomic, Atomic!Spec
===============================================================================
