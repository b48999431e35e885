------------------------ MODULE RedBoxVectorSlotProofs ------------------------
(***************************************************************************)
(* Proofs about RedBoxVector for clients that keep a discipline: they      *)
(* choose ids outside the range next_id counts through, and insert no id   *)
(* that is in use.  The slots, the index and the log are then in step, a   *)
(* search meets what was answered, and clients that use no id twice see    *)
(* the abstract map of VectorStore.                                        *)
(***************************************************************************)
EXTENDS RedBoxVectorProofs

AutoIds == 1 .. MaxAuto

-----------------------------------------------------------------------------
(* Which ids have slots.  Every id that memory or a log calls deleted has  *)
(* one; next_id is past every id of its range that has one or is about to  *)
(* get one; and an id insert_auto has taken but not inserted yet has none, *)
(* and no other thread has it.                                             *)

IdInv ==
    /\ \A id \in deleted_ids \cup tombstone_file.ids \cup tmp_file.ids : SlotsOf(id) # {}
    /\ \A id \in AutoIds : SlotsOf(id) # {} => id < next_id
    /\ \A t \in Threads :
          /\ pc[t] = "append" => arg[t].id \in deleted_ids
          /\ pc[t] = "publish" /\ arg[t].id \in AutoIds => arg[t].id < next_id
          /\ pc[t] = "id_taken" =>
                /\ arg[t].id \in AutoIds /\ arg[t].id < next_id /\ SlotsOf(arg[t].id) = {}
                /\ \A u \in Threads \ {t} :
                      pc[u] \in {"id_taken", "publish"} => arg[u].id # arg[t].id

LEMMA InitIdInv == Init => IdInv
BY DEF Init, CreateFile, NoLogFiles, NoFile, IdInv, SlotsOf, UsedSlots

LEMMA IdTypes ==
    ASSUME IndInv
    PROVE  /\ vector_count \in Nat /\ vector_count <= Capacity /\ next_id \in Nat /\ MaxAuto \in Nat
           /\ UsedSlots \subseteq Slots /\ vector_count \notin UsedSlots
           /\ id_block \in [Slots -> Ids \cup {NoId}]
           /\ float_block \in [Slots -> Vecs \cup {Garbage}]
           /\ deleted_flags \in [Slots -> BOOLEAN]
           /\ id_to_index \in [Ids -> Slots \cup {NoSlot}]
           /\ acked \in [Ids -> Vecs \cup {Missing, Unsure, Dropped}]
           /\ pc \in [Threads -> Steps]
           /\ arg \in [Threads -> [id : Ids \cup {NoId}, vec : Vecs \cup {Garbage}, slot : Slots \cup {NoSlot}]]
           /\ deleted_ids \subseteq Ids /\ tombstone_file.ids \subseteq Ids /\ tmp_file.ids \subseteq Ids
           /\ \A i \in Slots : i # NoSlot
BY CapacityAssumption, IdsAssumption DEF IndInv, TypeOK, StorageTypeOK, LogTypeOK, Logs,
   MemoryTypeOK, ThreadsTypeOK, UsedSlots, Slots, NoSlot

(* A slot in use keeps its id for ever.                                    *)
LEMMA SlotsStay ==
    ASSUME UNCHANGED vector_count, \A i \in UsedSlots : id_block'[i] = id_block[i]
    PROVE  UsedSlots' = UsedSlots /\ \A id : SlotsOf(id)' = SlotsOf(id)
BY DEF SlotsOf, UsedSlots

(* What the three ways into insert have in common.                         *)
LEMMA EnterInsertMeans ==
    ASSUME IndInv, NEW t \in Threads, NEW id \in Ids, NEW vec \in Vecs, EnterInsert(t, id, vec)
    PROVE  /\ UNCHANGED <<logFiles, vector_count, is_initialized, next_id, id_to_index,
                          cluster_index, tombstone_entries_on_disk, restarts, faults>>
           /\ \A i \in UsedSlots : id_block'[i] = id_block[i]
           /\ deleted_ids' = deleted_ids \ {id}
           /\ pc'[t] \in {"copy", "publish", "idle"}
           /\ pc'[t] # "idle" => arg'[t].id = id /\ arg'[t].vec = vec
           /\ \A u \in Threads \ {t} : pc'[u] = pc[u] /\ arg'[u] = arg[u]
           /\ acked' \in {[acked EXCEPT ![id] = Unsure], [acked EXCEPT ![id] = Dropped]}
           /\ pc'[t] # "idle" => acked'[id] = Unsure
<1>1. CASE BeginReinsert(t, id, vec)
  BY <1>1, IdTypes DEF BeginReinsert, CopyVector, Begin, dbFile
<1>2. CASE BeginFresh(t, id, vec)
  BY <1>2, IdTypes DEF BeginFresh, FillSlot, Begin
<1>3. CASE DropInsert(t, id)
  BY <1>3, IdTypes DEF DropInsert, Finish, dbFile
<1> QED BY <1>1, <1>2, <1>3 DEF EnterInsert

(* Steps that neither use nor hand out a slot or an id.                    *)
LEMMA QuietStepKeepsIds ==
    ASSUME IndInv, IdInv, NEW t \in Threads,
           UNCHANGED <<vector_count, next_id>>, \A i \in UsedSlots : id_block'[i] = id_block[i],
           \A id \in deleted_ids' \cup tombstone_file'.ids \cup tmp_file'.ids :
              id \in deleted_ids \cup tombstone_file.ids \cup tmp_file.ids,
           Free \/ pc[t] \notin Unlocked,
           pc'[t] \notin {"append", "publish", "id_taken"},
           \A u \in Threads \ {t} : pc'[u] = pc[u] /\ arg'[u] = arg[u]
    PROVE  IdInv'
<1>1. \A id : SlotsOf(id)' = SlotsOf(id)
  BY SlotsStay
<1>2. \A u \in Threads \ {t} : pc[u] = "append" => arg[u].id \in deleted_ids'
  BY OthersUnlocked DEF IdInv, Unlocked
<1>3. \A u \in Threads : pc'[u] \in {"append", "publish", "id_taken"} =>
         u # t /\ pc'[u] = pc[u] /\ arg'[u] = arg[u]
  OBVIOUS
<1> QED BY <1>1, <1>2, <1>3 DEF IdInv

(* The ids clients choose and the ids next_id hands out are different ids. *)
RangesApart == ManualIds \cap AutoIds = {}

(* What a thread that enters insert may be about to insert.                *)
Enters(t, id, vec) ==
    \/ Insert(t, id, vec)
    \/ InsertTakenId(t) /\ id = arg[t].id /\ vec = arg[t].vec

LEMMA EntersMeans ==
    ASSUME IndInv, IdInv, RangesApart, NEW t \in Threads, NEW id \in Ids, NEW vec \in Vecs,
           Enters(t, id, vec)
    PROVE  /\ EnterInsert(t, id, vec) /\ Free /\ pc[t] \in Unlocked
           /\ id \in AutoIds => id < next_id
           /\ \A u \in Threads \ {t} : pc[u] = "id_taken" => arg[u].id # id
<1> USE DEF IndInv
<1>1. EnterInsert(t, id, vec) /\ Free /\ pc[t] \in Unlocked
  BY DEF Enters, Insert, InsertTakenId, Unlocked
<1>2. CASE Insert(t, id, vec)
  <2>1. Live(id) \/ id \in deleted_ids \/ id \in ManualIds
    BY <1>2 DEF Insert
  <2>2. Live(id) => SlotsOf(id) # {}
    BY DEF MapInv
  <2>3. SlotsOf(id) # {} \/ id \in ManualIds
    BY <2>1, <2>2 DEF IdInv
  <2> QED BY <1>1, <2>3 DEF IdInv, RangesApart
<1>3. CASE InsertTakenId(t) /\ id = arg[t].id /\ vec = arg[t].vec
  BY <1>1, <1>3 DEF IdInv, InsertTakenId
<1> QED BY <1>1, <1>2, <1>3 DEF Enters

LEMMA EntersKeepsIds ==
    ASSUME IndInv, IdInv, RangesApart, NEW t \in Threads, NEW id \in Ids, NEW vec \in Vecs,
           Enters(t, id, vec)
    PROVE  IdInv'
<1>1. /\ EnterInsert(t, id, vec) /\ Free /\ pc[t] \in Unlocked
      /\ id \in AutoIds => id < next_id
      /\ \A u \in Threads \ {t} : pc[u] = "id_taken" => arg[u].id # id
  BY EntersMeans
<1>2. /\ UNCHANGED <<logFiles, vector_count, next_id>>
      /\ \A i \in UsedSlots : id_block'[i] = id_block[i]
      /\ deleted_ids' = deleted_ids \ {id}
      /\ pc'[t] \in {"copy", "publish", "idle"}
      /\ pc'[t] # "idle" => arg'[t].id = id
      /\ \A u \in Threads \ {t} : pc'[u] = pc[u] /\ arg'[u] = arg[u]
  BY <1>1, EnterInsertMeans
<1>3. \A other : SlotsOf(other)' = SlotsOf(other)
  BY <1>2, SlotsStay
<1>4. \A u \in Threads \ {t} : pc[u] \in Unlocked
  BY <1>1, OthersUnlocked
<1>5. \A u \in Threads : pc'[u] # "append" /\ (pc'[u] = "id_taken" => u # t)
                         /\ (pc'[u] = "publish" => u = t)
  BY <1>2, <1>4 DEF Unlocked
<1>6. tombstone_file' = tombstone_file /\ tmp_file' = tmp_file
  BY <1>2 DEF logFiles
<1> QED BY <1>1, <1>2, <1>3, <1>5, <1>6 DEF IdInv

LEMMA TakeAutoIdKeepsIds ==
    ASSUME IndInv, IdInv, RangesApart, NEW t \in Threads, NEW vec \in Vecs, TakeAutoId(t, vec)
    PROVE  /\ IdInv'
           /\ SlotsOf(arg'[t].id) = {}
           /\ \A u \in Threads \ {t} : pc[u] = "id_taken" => arg[u].id # arg'[t].id
<1>1. /\ Free /\ next_id' = next_id + 1 /\ next_id \in AutoIds
      /\ UNCHANGED <<vector_count, id_block, deleted_ids, tombstone_file, tmp_file>>
      /\ pc'[t] = "id_taken" /\ arg'[t].id = next_id
      /\ \A u \in Threads \ {t} : pc'[u] = pc[u] /\ arg'[u] = arg[u]
  BY IdTypes DEF TakeAutoId, TakeNextId, logFiles, memory, AutoIds, IndInv, TypeOK, StorageTypeOK
<1>2. \A id : SlotsOf(id)' = SlotsOf(id)
  BY <1>1, SlotsStay
<1>3. SlotsOf(next_id) = {}
  BY <1>1, IdTypes DEF IdInv
<1>4. \A u \in Threads \ {t} : pc'[u] \in Unlocked
  BY <1>1, OthersUnlocked
<1>5. \A u \in Threads : pc'[u] \in {"append", "publish"} => FALSE
  BY <1>1, <1>4 DEF Unlocked
<1>6. \A id \in AutoIds : id \in Nat
  BY DEF AutoIds
<1>7. \A u \in Threads \ {t} : pc[u] = "id_taken" => arg[u].id # next_id /\ arg[u].id < next_id'
  BY <1>1, <1>6, IdTypes DEF IdInv
<1>8. \A id \in AutoIds : SlotsOf(id)' # {} => id < next_id'
  BY <1>1, <1>2, <1>6, IdTypes DEF IdInv
<1>9. \A u \in Threads : pc'[u] = "id_taken" =>
         /\ arg'[u].id \in AutoIds /\ arg'[u].id < next_id' /\ SlotsOf(arg'[u].id) = {}
         /\ \A w \in Threads \ {u} : pc'[w] = "id_taken" => arg'[w].id # arg'[u].id
  <2>1. next_id < next_id'
    BY <1>1, IdTypes
  <2> QED BY <1>1, <1>3, <1>7, <2>1 DEF IdInv
<1> QED BY <1>1, <1>2, <1>3, <1>5, <1>7, <1>8, <1>9 DEF IdInv

LEMMA BeginRemoveKeepsIds ==
    ASSUME IndInv, IdInv, NEW t \in Threads, NEW id \in Ids, BeginRemove(t, id)
    PROVE  IdInv'
<1>1. /\ Free /\ deleted_ids' = deleted_ids \cup {id}
      /\ UNCHANGED <<vector_count, id_block, next_id, tombstone_file, tmp_file>>
      /\ pc'[t] = "append" /\ arg'[t].id = id
      /\ \A u \in Threads \ {t} : pc'[u] = pc[u] /\ arg'[u] = arg[u]
  BY IdTypes DEF BeginRemove, Begin, logFiles, dbFile
<1>2. \A other : SlotsOf(other)' = SlotsOf(other)
  BY <1>1, SlotsStay
<1>3. SlotsOf(id) # {}
  BY DEF BeginRemove, IndInv, MapInv
<1>4. \A u \in Threads : pc'[u] # "publish" /\ (pc'[u] \in {"append", "id_taken"} => u = t \/ pc[u] # "append")
  BY <1>1, OthersUnlocked DEF Unlocked
<1>5. \A u \in Threads : pc'[u] = "append" => arg'[u].id \in deleted_ids'
  BY <1>1, OthersUnlocked DEF Unlocked
<1>6. \A u \in Threads : pc'[u] = "id_taken" => u # t
  BY <1>1
<1> QED BY <1>1, <1>2, <1>3, <1>4, <1>5, <1>6 DEF IdInv

LEMMA PublishMeans ==
    ASSUME IndInv, NEW t \in Threads, Publish(t)
    PROVE  /\ vector_count' = vector_count + 1 /\ pc[t] = "publish"
           /\ arg[t].slot = vector_count /\ id_block[vector_count] = arg[t].id
           /\ vector_count \in Slots
           /\ UsedSlots' = UsedSlots \cup {vector_count}
           /\ \A id : SlotsOf(id)' = SlotsOf(id) \cup {i \in {vector_count} : id = arg[t].id}
           /\ UNCHANGED <<id_block, float_block, cluster_block, is_initialized, next_id, logFiles,
                          memory, rw_mutex, arg, acked, restarts, faults>>
           /\ pc' = [pc EXCEPT ![t] = AfterPublish] /\ pc'[t] = AfterPublish
           /\ AfterPublish \in {"list", "kmeans", "index"}
           /\ \A u \in Threads \ {t} : pc'[u] = pc[u] /\ pc[u] \in Unlocked
<1>1. /\ vector_count' = vector_count + 1 /\ pc[t] = "publish"
      /\ arg[t].slot = vector_count /\ id_block[vector_count] = arg[t].id
      /\ UNCHANGED <<id_block, float_block, cluster_block, is_initialized, next_id, logFiles,
                     memory, rw_mutex, arg, acked, restarts, faults>>
      /\ pc' = [pc EXCEPT ![t] = AfterPublish]
  BY DEF Publish, PublishSlot, Goto, ArgInv, ArgOK, IndInv
<1>2. vector_count \in Slots
  BY <1>1, IdTypes, CapacityAssumption DEF ArgInv, ArgOK, IndInv, Full, Slots
<1>3. UsedSlots' = UsedSlots \cup {vector_count}
  <2>1. vector_count \in Nat
    BY IdTypes
  <2>2. 0 .. (vector_count + 1) - 1 = (0 .. vector_count - 1) \cup {vector_count}
    BY <2>1
  <2> QED BY <1>1, <2>2 DEF UsedSlots
<1>4. \A id : SlotsOf(id)' = SlotsOf(id) \cup {i \in {vector_count} : id = arg[t].id}
  BY <1>1, <1>3 DEF SlotsOf
<1>5. AfterPublish \in {"list", "kmeans", "index"}
  BY DEF AfterPublish
<1>6. \A u \in Threads \ {t} : pc'[u] = pc[u] /\ pc[u] \in Unlocked
  BY <1>1, IdTypes, OthersUnlocked DEF Unlocked
<1> QED BY <1>1, <1>2, <1>3, <1>4, <1>5, <1>6, IdTypes

LEMMA PublishKeepsIds ==
    ASSUME IndInv, IdInv, NEW t \in Threads, Publish(t)
    PROVE  IdInv'
<1>1. /\ pc[t] = "publish" /\ UNCHANGED <<next_id, deleted_ids, tombstone_file, tmp_file, arg>>
      /\ \A id : SlotsOf(id) \subseteq SlotsOf(id)' /\ (id # arg[t].id => SlotsOf(id)' = SlotsOf(id))
      /\ pc'[t] \in {"list", "kmeans", "index"}
      /\ \A u \in Threads \ {t} : pc'[u] = pc[u] /\ pc[u] \in Unlocked
  <2>1. \A id : SlotsOf(id)' = SlotsOf(id) \cup {i \in {vector_count} : id = arg[t].id}
    BY PublishMeans
  <2>2. UNCHANGED <<next_id, deleted_ids, tombstone_file, tmp_file, arg>>
    BY PublishMeans DEF logFiles, memory
  <2>3. /\ pc[t] = "publish" /\ pc'[t] \in {"list", "kmeans", "index"}
        /\ \A u \in Threads \ {t} : pc'[u] = pc[u] /\ pc[u] \in Unlocked
    BY PublishMeans
  <2> QED BY <2>1, <2>2, <2>3
<1>2. \A u \in Threads : pc'[u] \notin {"append", "publish"} /\ (pc'[u] = "id_taken" => u # t)
  BY <1>1 DEF Unlocked
<1>3. \A id \in AutoIds : SlotsOf(id)' # {} => id < next_id
  BY <1>1 DEF IdInv
<1>4. \A u \in Threads : pc'[u] = "id_taken" => SlotsOf(arg[u].id)' = {}
  BY <1>1, <1>2 DEF IdInv
<1>5. \A id \in deleted_ids \cup tombstone_file.ids \cup tmp_file.ids : SlotsOf(id)' # {}
  BY <1>1 DEF IdInv
<1> QED BY <1>1, <1>2, <1>3, <1>4, <1>5 DEF IdInv

LEMMA QuietActionsKeepIds ==
    ASSUME IndInv, IdInv, NEW t \in Threads,
           \/ \E id \in Ids, vec \in Vecs : BeginUpdate(t, id, vec)
           \/ CopyIntoOldSlot(t) \/ RelinkOldSlot(t) \/ RunKMeans(t) \/ InitializeClusters(t)
           \/ ListNewSlot(t) \/ IndexNewSlot(t) \/ FinishUpdate(t)
           \/ RemoveStep(t) \/ RemoveFault(t)
    PROVE  IdInv'
<1>1. Free \/ pc[t] \notin Unlocked
  BY DEF BeginUpdate, CopyIntoOldSlot, RelinkOldSlot, RunKMeans, InitializeClusters, ListNewSlot,
     IndexNewSlot, FinishUpdate, RemoveStep, AppendTombstone, WriteTmp, RemoveOldLog, RenameTmp,
     RemoveFault, AppendFails, CompactionFails, RemoveOldLogThrows, Unlocked
<1>2. \A u \in Threads \ {t} : pc'[u] = pc[u] /\ arg'[u] = arg[u]
  BY OthersStay DEF Call, LockedStep, InsertStep
<1>3. UNCHANGED <<vector_count, id_block, next_id, deleted_ids>>
  BY DEF BeginUpdate, CopyIntoOldSlot, RelinkOldSlot, RunKMeans, InitializeClusters, ListNewSlot,
     IndexNewSlot, FinishUpdate, RemoveStep, AppendTombstone, WriteTmp, RemoveOldLog, RenameTmp,
     RemoveFault, AppendFails, CompactionFails, RemoveOldLogThrows, CopyVector, SetCluster,
     AssignClusters, SetClusterInitialized, dbFile, memory
<1>4. \E step \in {"overwrite", "relink", "initialize", "index", "idle", "write_tmp", "remove_log", "rename"} :
         pc' = [pc EXCEPT ![t] = step]
  BY DEF BeginUpdate, CopyIntoOldSlot, RelinkOldSlot, RunKMeans, InitializeClusters, ListNewSlot,
     IndexNewSlot, FinishUpdate, RemoveStep, AppendTombstone, WriteTmp, RemoveOldLog, RenameTmp,
     RemoveFault, AppendFails, CompactionFails, RemoveOldLogThrows, CompactOrFinish, Begin, Goto, Finish
<1>5. pc'[t] \notin {"append", "publish", "id_taken"}
  BY <1>4, IdTypes
<1>6. \A id \in tombstone_file'.ids \cup tmp_file'.ids :
         id \in deleted_ids \cup tombstone_file.ids \cup tmp_file.ids
  <2>1. CASE AppendTombstone(t)
    BY <2>1 DEF AppendTombstone, AppendEntry, IdInv
  <2>2. CASE WriteTmp(t) \/ RemoveOldLog(t) \/ RenameTmp(t)
    BY <2>2 DEF WriteTmp, WriteTmpFile, RemoveOldLog, RemoveLog, RenameTmp, RenameTmpFile, NoFile
  <2>3. CASE UNCHANGED logFiles
    BY <2>3 DEF logFiles
  <2> QED BY <2>1, <2>2, <2>3 DEF BeginUpdate, CopyIntoOldSlot, RelinkOldSlot, RunKMeans,
     InitializeClusters, ListNewSlot, IndexNewSlot, FinishUpdate, RemoveStep, RemoveFault,
     AppendFails, CompactionFails, RemoveOldLogThrows
<1> QED BY <1>1, <1>2, <1>3, <1>5, <1>6, QuietStepKeepsIds

LEMMA NextKeepsIds ==
    ASSUME RangesApart
    PROVE  IndInv /\ IdInv /\ [Next]_vars => IdInv'
<1> SUFFICES ASSUME IndInv, IdInv, [Next]_vars PROVE IdInv'
  OBVIOUS
<1>1. CASE \E t \in Threads : Call(t)
  <2>1. PICK t \in Threads : Call(t)
    BY <1>1
  <2> QED BY <2>1, EntersKeepsIds, TakeAutoIdKeepsIds, BeginRemoveKeepsIds, QuietActionsKeepIds
          DEF Call, Enters
<1>2. CASE \E t \in Threads : InsertTakenId(t)
  <2>1. PICK t \in Threads : InsertTakenId(t)
    BY <1>2
  <2>2. arg[t].id \in Ids /\ arg[t].vec \in Vecs
    BY <2>1 DEF InsertTakenId, IndInv, ArgInv, ArgOK
  <2> QED BY <2>1, <2>2, EntersKeepsIds DEF Enters
<1>3. CASE \E t \in Threads : LockedStep(t) \/ RemoveFault(t)
  BY <1>3, PublishKeepsIds, QuietActionsKeepIds DEF LockedStep, InsertStep
<1>4. CASE Restart
  <2>1. /\ UNCHANGED <<vector_count, id_block, next_id, tombstone_file, tmp_file>>
        /\ deleted_ids' = tombstone_file.ids /\ \A t \in Threads : pc'[t] = "idle"
    BY <1>4 DEF Restart, dbFile, logFiles
  <2>2. \A id : SlotsOf(id)' = SlotsOf(id)
    BY <2>1, SlotsStay
  <2> QED BY <2>1, <2>2 DEF IdInv
<1>5. CASE UNCHANGED vars
  <2>1. UNCHANGED <<vector_count, id_block, next_id, tombstone_file, tmp_file, deleted_ids, pc, arg>>
    BY <1>5 DEF vars, dbFile, logFiles, memory, threads
  <2>2. \A id : SlotsOf(id)' = SlotsOf(id)
    BY <2>1, SlotsStay
  <2> QED BY <2>1, <2>2 DEF IdInv
<1> QED BY <1>1, <1>2, <1>3, <1>4, <1>5 DEF Next

LEMMA IdInvariance ==
    ASSUME RangesApart
    PROVE  Spec => [](IndInv /\ IdInv)
BY InitIdInv, NextKeepsIds, Invariance, PTL DEF Spec

(* As long as clients choose ids outside the range next_id counts through, *)
(* insert_auto takes an id that no slot has, and no other thread on its    *)
(* way from taking an id to inserting it: through restarts, dropped        *)
(* inserts and any failure of the log.                                     *)
THEOREM NewAutoIds ==
    ASSUME ManualIds \cap 1 .. MaxAuto = {}
    PROVE  Spec => AutoIdsAreNew
<1>1. RangesApart
  BY DEF RangesApart, AutoIds
<1>2. ASSUME IndInv, IdInv, [Next]_vars, NEW t \in Threads, pc'[t] = "id_taken", pc[t] # "id_taken"
      PROVE  /\ SlotsOf(arg'[t].id) = {}
             /\ \A u \in Threads \ {t} : pc[u] = "id_taken" => arg[u].id # arg'[t].id
  <2>1. ~Restart /\ ~UNCHANGED vars
    BY <1>2 DEF Restart, vars, threads
  <2>2. Call(t) \/ InsertTakenId(t) \/ LockedStep(t) \/ RemoveFault(t)
    BY <1>2, <2>1, OthersStay DEF Next
  <2>3. \E vec \in Vecs : TakeAutoId(t, vec)
    <3>1. ~InsertTakenId(t)
      BY <1>2 DEF InsertTakenId
    <3>2. ~LockedStep(t) /\ ~RemoveFault(t)
      <4>1. CASE LockedStep(t) \/ RemoveFault(t)
        <5>1. \E step \in {"relink", "kmeans", "initialize", "list", "index", "idle", "write_tmp", "remove_log", "rename"} :
                 pc' = [pc EXCEPT ![t] = step]
          BY <4>1 DEF LockedStep, InsertStep, CopyIntoOldSlot, RelinkOldSlot, Publish, AfterPublish,
             RunKMeans, InitializeClusters, ListNewSlot, IndexNewSlot, FinishUpdate, RemoveStep,
             AppendTombstone, WriteTmp, RemoveOldLog, RenameTmp, RemoveFault, AppendFails,
             CompactionFails, RemoveOldLogThrows, CompactOrFinish, Goto, Finish
        <5> QED BY <1>2, <5>1, IdTypes
      <4> QED BY <4>1
    <3>3. \A id \in Ids, vec \in Vecs : ~Insert(t, id, vec)
      BY <1>2, EnterInsertMeans DEF Insert
    <3>4. \A id \in Ids : ~BeginRemove(t, id) /\ \A vec \in Vecs : ~BeginUpdate(t, id, vec)
      BY <1>2, IdTypes DEF BeginUpdate, BeginRemove, Begin
    <3>5. Call(t)
      BY <2>2, <3>1, <3>2
    <3> QED BY <3>3, <3>4, <3>5, Zenon DEF Call
  <2> QED BY <1>1, <1>2, <2>3, TakeAutoIdKeepsIds
<1>3. IndInv /\ IdInv /\ [Next]_vars =>
        [\A t \in Threads : pc'[t] = "id_taken" /\ pc[t] # "id_taken" =>
          /\ SlotsOf(arg'[t].id) = {}
          /\ \A u \in Threads \ {t} : pc[u] = "id_taken" => arg[u].id # arg'[t].id]_vars
  BY <1>2
<1> QED BY <1>1, <1>3, IdInvariance, PTL DEF Spec, AutoIdsAreNew

-----------------------------------------------------------------------------
(* One slot for each id.  If no client inserts an id that is in use, no    *)
(* two slots have the same id; between operations a slot is in use, in the *)
(* index and not flagged, or deleted, flagged and not in the index; and    *)
(* what an insert works on is in neither.                                  *)

InUse(i) ==
    id_to_index[id_block[i]] = i /\ ~deleted_flags[i] /\ id_block[i] \notin deleted_ids

IsDeleted(i) ==
    id_to_index[id_block[i]] = NoSlot /\ deleted_flags[i] /\ id_block[i] \in deleted_ids

BeingInserted(i) == \E t \in Threads : pc[t] \in InInsert \ {"publish"} /\ arg[t].slot = i

InsertOK(t) ==
    /\ ~Live(arg[t].id) /\ arg[t].id \notin deleted_ids
    /\ pc[t] \notin {"copy", "relink"} => ~deleted_flags[arg[t].slot]
    /\ pc[t] = "publish" => SlotsOf(arg[t].id) = {}

SlotInv ==
    /\ \A i, j \in UsedSlots : id_block[i] = id_block[j] => i = j
    /\ \A i \in UsedSlots : id_block[i] \in Ids /\ (InUse(i) \/ IsDeleted(i) \/ BeingInserted(i))
    /\ \A t \in Threads : pc[t] \in InInsert => InsertOK(t)

LEMMA InitSlotInv == Init => SlotInv
BY DEF Init, CreateFile, SlotInv, UsedSlots, InInsert

(* While nobody holds the lock.                                            *)
LEMMA FreeSlots ==
    ASSUME IndInv, SlotInv, Free
    PROVE  \A i \in UsedSlots : InUse(i) \/ IsDeleted(i)
<1>1. \A t \in Threads : pc[t] \notin InInsert
  BY ThreadsAssumption DEF IndInv, LockInv, Free, Unlocked, InInsert
<1> QED BY <1>1 DEF SlotInv, BeingInserted

LEMMA IndexedSlots ==
    ASSUME IndInv, SlotInv, Free, NEW id \in Ids
    PROVE  /\ Live(id) => InUse(id_to_index[id]) /\ id_to_index[id] \in UsedSlots
                          /\ id_block[id_to_index[id]] = id /\ id \notin deleted_ids
           /\ ~Live(id) => \A i \in SlotsOf(id) : IsDeleted(i)
<1>1. CASE Live(id)
  <2>1. id_to_index[id] \in UsedSlots /\ id_block[id_to_index[id]] = id /\ id_to_index[id] # NoSlot
    BY <1>1 DEF IndInv, MapInv, SlotsOf, Live
  <2>2. InUse(id_to_index[id]) \/ IsDeleted(id_to_index[id])
    BY <2>1, FreeSlots
  <2> QED BY <1>1, <2>1, <2>2 DEF InUse, IsDeleted
<1>2. CASE ~Live(id)
  <2>1. ASSUME NEW i \in SlotsOf(id) PROVE IsDeleted(i)
    <3>1. i \in UsedSlots /\ id_block[i] = id /\ i # NoSlot
      BY IdTypes DEF SlotsOf
    <3>2. ~InUse(i)
      BY <1>2, <3>1 DEF InUse, Live
    <3> QED BY <3>1, <3>2, FreeSlots
  <2> QED BY <1>2, <2>1
<1> QED BY <1>1, <1>2

(* An insert either takes the one slot of a deleted id, or is of an id     *)
(* that no slot has.                                                       *)
LEMMA EntersFresh ==
    ASSUME IndInv, IdInv, SlotInv, RangesApart, InsertLive = FALSE, NEW t \in Threads,
           NEW id \in Ids, NEW vec \in Vecs, Enters(t, id, vec)
    PROVE  \/ BeginReinsert(t, id, vec)
           \/ /\ SlotsOf(id) = {} /\ id \notin deleted_ids
              /\ BeginFresh(t, id, vec) \/ DropInsert(t, id)
<1>1. EnterInsert(t, id, vec) /\ Free
  BY EntersMeans
<1>2. CASE SlotsOf(id) = {}
  <2>1. id \notin deleted_ids
    BY <1>2 DEF IdInv
  <2> QED BY <1>1, <1>2, <2>1 DEF EnterInsert
<1>3. CASE SlotsOf(id) # {}
  <2>1. Insert(t, id, vec)
    BY <1>3 DEF Enters, IdInv, InsertTakenId
  <2>2. Live(id) => id \notin deleted_ids
    BY <1>1, IndexedSlots
  <2>3. ~Live(id)
    BY <2>1, <2>2 DEF Insert
  <2>4. PICK i \in SlotsOf(id) : TRUE
    BY <1>3
  <2>5. IsDeleted(i) /\ i \in UsedSlots /\ id_block[i] = id
    BY <1>1, <2>3, IndexedSlots DEF SlotsOf
  <2>6. \A j \in 0 .. i - 1 : j \in UsedSlots /\ j # i
    BY <2>5, IdTypes DEF UsedSlots
  <2>7. \A j \in 0 .. i - 1 : id_block[j] # id
    BY <2>5, <2>6 DEF SlotInv
  <2>8. GoesToOldSlot(id)
    BY <2>5, <2>7 DEF GoesToOldSlot, IsOldSlot, IsDeleted
  <2> QED BY <1>1, <2>8 DEF EnterInsert, BeginFresh, DropInsert
<1> QED BY <1>2, <1>3

(* Steps that change neither the slots in use nor the index, and do not    *)
(* begin or end an insert.                                                 *)
LEMMA QuietStepKeepsSlots ==
    ASSUME IndInv, SlotInv, NEW t \in Threads,
           UNCHANGED <<vector_count, id_block, deleted_ids, deleted_flags, id_to_index>>,
           \A u \in Threads \ {t} : pc'[u] = pc[u] /\ arg'[u] = arg[u],
           \/ pc[t] \notin InInsert /\ pc'[t] \notin InInsert
           \/ /\ pc[t] \in InInsert \ {"publish"} /\ pc'[t] \in InInsert \ {"publish"}
              /\ arg'[t] = arg[t] /\ (pc'[t] \in {"copy", "relink"} <=> pc[t] \in {"copy", "relink"})
    PROVE  SlotInv'
<1>1. UsedSlots' = UsedSlots
  BY DEF UsedSlots
<1>2. \A i : BeingInserted(i) => BeingInserted(i)'
  BY DEF BeingInserted
<1>3. \A i \in UsedSlots : id_block[i] \in Ids /\ (InUse(i)' \/ IsDeleted(i)' \/ BeingInserted(i)')
  BY <1>2 DEF SlotInv, InUse, IsDeleted
<1>4. ASSUME NEW u \in Threads, pc'[u] \in InInsert PROVE InsertOK(u)'
  <2>1. pc[u] \in InInsert /\ arg'[u] = arg[u] /\ InsertOK(u)
        /\ (pc'[u] \in {"copy", "relink"} <=> pc[u] \in {"copy", "relink"})
        /\ (pc'[u] = "publish" => pc[u] = "publish")
    BY <1>4 DEF SlotInv
  <2>2. \A id : SlotsOf(id)' = SlotsOf(id) /\ Live(id)' = Live(id)
    BY DEF SlotsOf, UsedSlots, Live
  <2> QED BY <2>1, <2>2 DEF InsertOK, Live
<1> QED BY <1>1, <1>3, <1>4 DEF SlotInv

LEMMA ReinsertKeepsSlots ==
    ASSUME IndInv, SlotInv, NEW t \in Threads, NEW id \in Ids, NEW vec \in Vecs, Free,
           BeginReinsert(t, id, vec)
    PROVE  SlotInv'
<1>1. PICK slot \in UsedSlots :
         /\ IsOldSlot(slot, id)
         /\ Begin(t, id, vec, slot, "copy")
         /\ UNCHANGED <<vector_count, id_block>>
  BY DEF BeginReinsert, CopyVector
<1>2. /\ id \in deleted_ids /\ deleted_ids' = deleted_ids \ {id}
      /\ UNCHANGED <<deleted_flags, id_to_index>>
  BY DEF BeginReinsert
<1>3. /\ pc'[t] = "copy" /\ arg'[t].slot = slot /\ arg'[t].id = id
      /\ \A u \in Threads \ {t} : pc'[u] = pc[u]
  BY <1>1, IdTypes DEF Begin
<1>4. id_block[slot] = id
  BY <1>1 DEF IsOldSlot
<1>5. ~Live(id)
  BY <1>2, IndexedSlots
<1>6. UsedSlots' = UsedSlots
  BY <1>1 DEF UsedSlots
<1>7. ASSUME NEW i \in UsedSlots PROVE InUse(i)' \/ IsDeleted(i)' \/ BeingInserted(i)'
  <2>1. CASE i = slot
    BY <1>3, <2>1 DEF BeingInserted, InInsert
  <2>2. CASE i # slot
    <3>1. id_block[i] # id /\ (InUse(i) \/ IsDeleted(i))
      BY <1>1, <1>4, <2>2, FreeSlots DEF SlotInv
    <3> QED BY <1>1, <1>2, <3>1 DEF InUse, IsDeleted
  <2> QED BY <2>1, <2>2
<1>8. \A u \in Threads : pc'[u] \in InInsert => u = t
  BY <1>3, OthersUnlocked DEF Unlocked, InInsert
<1>9. InsertOK(t)'
  BY <1>2, <1>3, <1>5 DEF InsertOK, Live
<1> QED BY <1>1, <1>6, <1>7, <1>8, <1>9 DEF SlotInv

LEMMA FreshKeepsSlots ==
    ASSUME IndInv, SlotInv, NEW t \in Threads, NEW id \in Ids, NEW vec \in Vecs, Free,
           pc[t] \in Unlocked, SlotsOf(id) = {}, id \notin deleted_ids,
           BeginFresh(t, id, vec) \/ DropInsert(t, id)
    PROVE  SlotInv'
<1>1. EnterInsert(t, id, vec)
  BY DEF EnterInsert
<1>2. /\ UNCHANGED <<vector_count, id_to_index, deleted_ids>>
      /\ \A i \in UsedSlots : id_block'[i] = id_block[i]
      /\ pc'[t] # "idle" => arg'[t].id = id
      /\ \A u \in Threads \ {t} : pc'[u] = pc[u]
  BY <1>1, EnterInsertMeans
<1>3. UsedSlots' = UsedSlots /\ SlotsOf(id)' = {}
  BY <1>2, SlotsStay
<1>4. \A i \in UsedSlots : deleted_flags'[i] = deleted_flags[i]
  BY IdTypes DEF BeginFresh, DropInsert, Flag
<1>5. \A i \in UsedSlots : InUse(i)' \/ IsDeleted(i)'
  BY <1>2, <1>4, FreeSlots DEF InUse, IsDeleted
<1>6. \A u \in Threads : pc'[u] \in InInsert => u = t
  BY <1>2, OthersUnlocked DEF Unlocked, InInsert
<1>7. ~Live(id)
  BY DEF IndInv, MapInv
<1>8. pc'[t] \in InInsert => InsertOK(t)'
  <2>1. CASE BeginFresh(t, id, vec)
    <3>1. arg'[t].slot = vector_count /\ deleted_flags' = [deleted_flags EXCEPT ![vector_count] = FALSE]
          /\ pc'[t] = "publish" /\ arg'[t].id = id
      BY <2>1, IdTypes DEF BeginFresh, Begin, Flag
    <3>2. ~deleted_flags'[arg'[t].slot]
      <4>1. vector_count \in Slots
        BY <2>1, IdTypes, CapacityAssumption DEF BeginFresh, FillSlot, Full, Slots
      <4> QED BY <3>1, <4>1, IdTypes
    <3> QED BY <1>2, <1>3, <1>7, <3>1, <3>2 DEF InsertOK, Live
  <2>2. CASE DropInsert(t, id)
    BY <2>2, IdTypes DEF DropInsert, Finish, InInsert
  <2> QED BY <2>1, <2>2
<1> QED BY <1>2, <1>3, <1>5, <1>6, <1>8 DEF SlotInv

LEMMA BeginRemoveKeepsSlots ==
    ASSUME IndInv, SlotInv, NEW t \in Threads, NEW id \in Ids, BeginRemove(t, id)
    PROVE  SlotInv'
<1> DEFINE slot == id_to_index[id]
<1>1. /\ Free /\ Live(id) /\ deleted_ids' = deleted_ids \cup {id}
      /\ UNCHANGED <<vector_count, id_block>>
      /\ deleted_flags' = [deleted_flags EXCEPT ![slot] = TRUE]
      /\ id_to_index' = [id_to_index EXCEPT ![id] = NoSlot]
      /\ pc'[t] = "append"
      /\ \A u \in Threads \ {t} : pc'[u] = pc[u]
  BY IdTypes DEF BeginRemove, Flag, Begin, dbFile
<1>2. UsedSlots' = UsedSlots
  BY <1>1 DEF UsedSlots
<1>3. slot \in UsedSlots /\ id_block[slot] = id
  BY <1>1, IndexedSlots
<1>4. \A u \in Threads : pc'[u] \notin InInsert
  BY <1>1, OthersUnlocked DEF Unlocked, InInsert
<1>5. ASSUME NEW i \in UsedSlots PROVE InUse(i)' \/ IsDeleted(i)'
  <2>1. i \in Slots /\ id_block[i] \in Ids /\ (InUse(i) \/ IsDeleted(i))
    BY <1>1, IdTypes, FreeSlots DEF SlotInv
  <2>2. CASE i = slot
    <3>1. deleted_flags'[i] /\ id_to_index'[id] = NoSlot
      BY <1>1, <2>1, <2>2, IdTypes
    <3> QED BY <1>1, <1>3, <2>2, <3>1 DEF IsDeleted
  <2>3. CASE i # slot
    <3>1. id_block[i] # id
      BY <1>3, <2>3 DEF SlotInv
    <3>2. deleted_flags'[i] = deleted_flags[i] /\ id_to_index'[id_block[i]] = id_to_index[id_block[i]]
      BY <1>1, <2>1, <2>3, <3>1, IdTypes
    <3> QED BY <1>1, <2>1, <3>1, <3>2 DEF InUse, IsDeleted
  <2> QED BY <2>2, <2>3
<1> QED BY <1>1, <1>2, <1>4, <1>5 DEF SlotInv

LEMMA PublishKeepsSlots ==
    ASSUME IndInv, SlotInv, NEW t \in Threads, Publish(t)
    PROVE  SlotInv'
<1> PICK new \in Slots : new = vector_count
  BY PublishMeans
<1>1. /\ pc[t] = "publish" /\ arg[t].slot = new /\ id_block[new] = arg[t].id
      /\ UsedSlots' = UsedSlots \cup {new}
      /\ UNCHANGED <<id_block, deleted_ids, deleted_flags, id_to_index, arg>>
      /\ pc'[t] \in {"list", "kmeans", "index"}
      /\ \A u \in Threads \ {t} : pc'[u] = pc[u] /\ pc[u] \in Unlocked
  BY PublishMeans DEF memory
<1>2. InsertOK(t) /\ SlotsOf(arg[t].id) = {} /\ arg[t].id \in Ids
  BY <1>1 DEF SlotInv, InsertOK, InInsert, IndInv, ArgInv, ArgOK
<1>3. \A i \in UsedSlots : id_block[i] # id_block[new]
  BY <1>1, <1>2 DEF SlotsOf
<1>4. \A u \in Threads : pc'[u] \in InInsert => u = t
  BY <1>1 DEF Unlocked, InInsert
<1>5. \A u \in Threads : pc[u] \notin InInsert \ {"publish"}
  BY <1>1 DEF Unlocked, InInsert
<1>6. \A i \in UsedSlots : InUse(i)' \/ IsDeleted(i)'
  BY <1>1, <1>5 DEF SlotInv, BeingInserted, InUse, IsDeleted
<1>7. BeingInserted(new)'
  BY <1>1 DEF BeingInserted, InInsert
<1>8. InsertOK(t)'
  BY <1>1, <1>2 DEF InsertOK, Live
<1>9. \A i \in UsedSlots' : id_block[i] \in Ids /\ (InUse(i)' \/ IsDeleted(i)' \/ BeingInserted(i)')
  BY <1>1, <1>2, <1>6, <1>7 DEF SlotInv
<1>10. \A i, j \in UsedSlots' : id_block[i] = id_block[j] => i = j
  BY <1>1, <1>3 DEF SlotInv
<1> QED BY <1>1, <1>4, <1>8, <1>9, <1>10 DEF SlotInv

(* The last step of an insert puts its slot in use.                        *)
LEMMA IndexKeepsSlots ==
    ASSUME IndInv, SlotInv, NEW t \in Threads, RelinkOldSlot(t) \/ IndexNewSlot(t)
    PROVE  SlotInv'
<1> PICK slot \in Slots : slot = arg[t].slot
  BY IdTypes DEF RelinkOldSlot, IndexNewSlot, IndInv, ArgInv, ArgOK, InInsert, SlotsOf
<1> PICK id \in Ids : id = arg[t].id
  BY DEF RelinkOldSlot, IndexNewSlot, IndInv, ArgInv, ArgOK
<1>1. slot \in UsedSlots /\ id_block[slot] = id /\ pc[t] \in {"relink", "index"}
  BY DEF RelinkOldSlot, IndexNewSlot, IndInv, ArgInv, ArgOK, InInsert, SlotsOf
<1>2. InsertOK(t)
  BY <1>1 DEF SlotInv, InInsert
<1>3. /\ UNCHANGED <<vector_count, id_block, deleted_ids>>
      /\ id_to_index' = [id_to_index EXCEPT ![id] = slot]
      /\ pc' = [pc EXCEPT ![t] = "idle"]
  BY DEF RelinkOldSlot, IndexNewSlot, SetCluster, Finish, dbFile
<1>4. /\ ~deleted_flags'[slot]
      /\ \A i \in Slots \ {slot} : deleted_flags'[i] = deleted_flags[i]
  <2>1. CASE RelinkOldSlot(t)
    BY <2>1, IdTypes DEF RelinkOldSlot, Flag
  <2>2. CASE IndexNewSlot(t)
    BY <1>2, <2>2 DEF IndexNewSlot, InsertOK
  <2> QED BY <2>1, <2>2
<1>5. \A u \in Threads : pc'[u] \notin InInsert
  BY <1>1, <1>3, IdTypes, OthersUnlocked DEF Unlocked, InInsert
<1>6. UsedSlots' = UsedSlots
  BY <1>3 DEF UsedSlots
<1>7. \A u \in Threads \ {t} : pc[u] \notin InInsert
  BY <1>1, OthersUnlocked DEF Unlocked, InInsert
<1>8. ASSUME NEW i \in UsedSlots PROVE InUse(i)' \/ IsDeleted(i)'
  <2>1. i \in Slots /\ id_block[i] \in Ids
    BY IdTypes DEF SlotInv
  <2>2. CASE i = slot
    <3>1. id_to_index'[id] = slot /\ id \notin deleted_ids
      BY <1>2, <1>3, IdTypes DEF InsertOK
    <3> QED BY <1>1, <1>3, <1>4, <2>2, <3>1 DEF InUse
  <2>3. CASE i # slot
    <3>1. id_block[i] # id
      BY <1>1, <2>3 DEF SlotInv
    <3>2. InUse(i) \/ IsDeleted(i)
      BY <1>7, <2>3 DEF SlotInv, BeingInserted
    <3>3. deleted_flags'[i] = deleted_flags[i] /\ id_to_index'[id_block[i]] = id_to_index[id_block[i]]
      BY <1>3, <1>4, <2>1, <2>3, <3>1, IdTypes
    <3> QED BY <1>3, <3>2, <3>3 DEF InUse, IsDeleted
  <2> QED BY <2>2, <2>3
<1> QED BY <1>3, <1>5, <1>6, <1>8 DEF SlotInv

LEMMA QuietActionsKeepSlots ==
    ASSUME IndInv, SlotInv, NEW t \in Threads,
           \/ \E id \in Ids, vec \in Vecs : BeginUpdate(t, id, vec)
           \/ \E vec \in Vecs : TakeAutoId(t, vec)
           \/ CopyIntoOldSlot(t) \/ RunKMeans(t) \/ InitializeClusters(t) \/ ListNewSlot(t)
           \/ FinishUpdate(t) \/ RemoveStep(t) \/ RemoveFault(t)
    PROVE  SlotInv'
<1>1. \A u \in Threads \ {t} : pc'[u] = pc[u] /\ arg'[u] = arg[u]
  BY OthersStay DEF Call, LockedStep, InsertStep
<1>2. UNCHANGED <<vector_count, id_block, deleted_ids, deleted_flags, id_to_index>>
  BY DEF BeginUpdate, TakeAutoId, TakeNextId, CopyIntoOldSlot, RunKMeans, InitializeClusters,
     ListNewSlot, FinishUpdate, RemoveStep, AppendTombstone, WriteTmp, RemoveOldLog, RenameTmp,
     RemoveFault, AppendFails, CompactionFails, RemoveOldLogThrows, CopyVector, AssignClusters,
     SetClusterInitialized, dbFile, memory
<1>3. CASE CopyIntoOldSlot(t) \/ RunKMeans(t) \/ InitializeClusters(t) \/ ListNewSlot(t)
  <2>1. /\ pc[t] \in InInsert \ {"publish"} /\ arg'[t] = arg[t]
        /\ \/ pc[t] = "copy" /\ pc' = [pc EXCEPT ![t] = "relink"]
           \/ pc[t] \notin {"copy", "relink"}
              /\ \E step \in {"initialize", "index"} : pc' = [pc EXCEPT ![t] = step]
    BY <1>3 DEF CopyIntoOldSlot, RunKMeans, InitializeClusters, ListNewSlot, Goto, InInsert
  <2>2. pc'[t] \in InInsert \ {"publish"} /\ (pc'[t] \in {"copy", "relink"} <=> pc[t] \in {"copy", "relink"})
    BY <2>1, IdTypes DEF InInsert
  <2> QED BY <1>1, <1>2, <2>1, <2>2, QuietStepKeepsSlots
<1>4. CASE \/ \E id \in Ids, vec \in Vecs : BeginUpdate(t, id, vec)
           \/ \E vec \in Vecs : TakeAutoId(t, vec)
           \/ FinishUpdate(t) \/ RemoveStep(t) \/ RemoveFault(t)
  <2>1. /\ pc[t] \notin InInsert
        /\ \E step \in {"overwrite", "id_taken", "idle", "write_tmp", "remove_log", "rename"} :
              pc' = [pc EXCEPT ![t] = step]
    BY <1>4 DEF BeginUpdate, TakeAutoId, FinishUpdate, RemoveStep, AppendTombstone, WriteTmp, RemoveOldLog,
       RenameTmp, RemoveFault, AppendFails, CompactionFails, RemoveOldLogThrows, CompactOrFinish,
       Begin, Goto, Finish, InInsert
  <2>2. pc'[t] \notin InInsert
    BY <2>1, IdTypes DEF InInsert
  <2> QED BY <1>1, <1>2, <2>1, <2>2, QuietStepKeepsSlots
<1> QED BY <1>3, <1>4

LEMMA RestartMeans ==
    ASSUME IndInv, SlotInv, NEW id \in Ids
    PROVE  /\ id \in tombstone_file.ids \/ SlotsOf(id) = {} => KeptSlot(id) = NoSlot
           /\ \A i \in SlotsOf(id) : id \notin tombstone_file.ids => KeptSlot(id) = i
<1>1. ASSUME NEW i \in SlotsOf(id), id \notin tombstone_file.ids PROVE KeptSlot(id) = i
  <2>1. LastSlotOf(id) \in SlotsOf(id)
    BY LastSlotExists DEF IndInv, TypeOK
  <2>2. \A j \in SlotsOf(id) : j = i
    BY DEF SlotsOf, SlotInv
  <2> QED BY <1>1, <2>1, <2>2 DEF KeptSlot
<1> QED BY <1>1 DEF KeptSlot

LEMMA RestartKeepsSlots ==
    ASSUME IndInv, SlotInv, Restart
    PROVE  SlotInv'
<1>1. /\ UNCHANGED <<vector_count, id_block>> /\ deleted_ids' = tombstone_file.ids
      /\ deleted_flags' = [i \in Slots |-> i \in UsedSlots \ KeptSlots]
      /\ id_to_index' = [id \in Ids |-> KeptSlot(id)]
      /\ \A t \in Threads : pc'[t] = "idle"
  BY DEF Restart, dbFile
<1>2. UsedSlots' = UsedSlots
  BY <1>1 DEF UsedSlots
<1>3. ASSUME NEW i \in UsedSlots PROVE InUse(i)' \/ IsDeleted(i)'
  <2>1. i \in Slots /\ id_block[i] \in Ids /\ i \in SlotsOf(id_block[i])
    BY IdTypes DEF SlotInv, SlotsOf
  <2>2. id_to_index'[id_block[i]] = KeptSlot(id_block[i]) /\ (deleted_flags'[i] <=> i \notin KeptSlots)
    BY <1>1, <2>1
  <2>3. CASE id_block[i] \in tombstone_file.ids
    BY <1>1, <2>1, <2>2, <2>3, RestartMeans DEF IsDeleted, KeptSlots
  <2>4. CASE id_block[i] \notin tombstone_file.ids
    BY <1>1, <2>1, <2>2, <2>4, RestartMeans DEF InUse, KeptSlots
  <2> QED BY <2>3, <2>4
<1> QED BY <1>1, <1>2, <1>3 DEF SlotInv, InInsert

LEMMA NextKeepsSlots ==
    ASSUME RangesApart, InsertLive = FALSE
    PROVE  IndInv /\ IdInv /\ SlotInv /\ [Next]_vars => SlotInv'
<1> SUFFICES ASSUME IndInv, IdInv, SlotInv, [Next]_vars PROVE SlotInv'
  OBVIOUS
<1>1. ASSUME NEW t \in Threads, NEW id \in Ids, NEW vec \in Vecs, Enters(t, id, vec)
      PROVE  SlotInv'
  BY <1>1, EntersMeans, EntersFresh, ReinsertKeepsSlots, FreshKeepsSlots
<1>2. CASE \E t \in Threads : Call(t)
  <2>1. PICK t \in Threads : Call(t)
    BY <1>2
  <2> QED BY <1>1, <2>1, BeginRemoveKeepsSlots, QuietActionsKeepSlots DEF Call, Enters
<1>3. CASE \E t \in Threads : InsertTakenId(t)
  <2>1. PICK t \in Threads : InsertTakenId(t)
    BY <1>3
  <2>2. arg[t].id \in Ids /\ arg[t].vec \in Vecs
    BY <2>1 DEF InsertTakenId, IndInv, ArgInv, ArgOK
  <2> QED BY <1>1, <2>1, <2>2 DEF Enters
<1>4. CASE \E t \in Threads : LockedStep(t) \/ RemoveFault(t)
  BY <1>4, PublishKeepsSlots, IndexKeepsSlots, QuietActionsKeepSlots DEF LockedStep, InsertStep
<1>5. CASE Restart
  BY <1>5, RestartKeepsSlots
<1>6. CASE UNCHANGED vars
  BY <1>6 DEF vars, dbFile, memory, threads, SlotInv, InUse, IsDeleted, BeingInserted, InsertOK,
     UsedSlots, SlotsOf, Live
<1> QED BY <1>2, <1>3, <1>4, <1>5, <1>6 DEF Next

SlotsInv == IndInv /\ IdInv /\ SlotInv

LEMMA SlotInvariance ==
    ASSUME RangesApart, InsertLive = FALSE
    PROVE  Spec => []SlotsInv
<1>1. IndInv /\ IdInv /\ SlotInv /\ [Next]_vars => SlotInv'
  BY NextKeepsSlots
<1> QED BY <1>1, InitSlotInv, IdInvariance, PTL DEF Spec, SlotsInv

(* If clients insert no id that is in use, and appending to the log and    *)
(* renaming it succeed, then whenever nobody is writing a restart would    *)
(* show a client exactly what it sees now, but for the ids that were       *)
(* inserted again after a deletion the log still has.                      *)
THEOREM RestartLosesReinserted ==
    ASSUME InsertLive = FALSE, ManualIds \cap 1 .. MaxAuto = {},
           FailingCalls \cap {"append", "rename"} = {}
    PROVE  Spec => []RestartLosesOnlyReinserted
<1>1. RangesApart
  BY DEF RangesApart, AutoIds
<1>2. ASSUME IndInv, SlotInv, TombInv, Free, NEW id \in Ids \ StaleTombstones
      PROVE  OnDisk(id) = InMemory(id)
  <2>1. CASE id \in tombstone_file.ids
    BY <1>2, <2>1, RestartMeans DEF StaleTombstones, OnDisk, InMemory
  <2>2. CASE id \notin tombstone_file.ids /\ SlotsOf(id) = {}
    BY <1>2, <2>2, RestartMeans DEF OnDisk, InMemory, IndInv, MapInv
  <2>3. CASE id \notin tombstone_file.ids /\ SlotsOf(id) # {}
    <3>1. PICK i \in SlotsOf(id) : KeptSlot(id) = i
      BY <1>2, <2>3, RestartMeans
    <3>2. i # NoSlot
      BY <1>2, IdTypes DEF SlotsOf
    <3>3. id \notin deleted_ids
      BY <1>2, <2>3, ThreadsAssumption DEF TombInv, Recorded, IndInv, LockInv, Free, Unlocked
    <3>4. ~IsDeleted(i)
      BY <3>3 DEF IsDeleted, SlotsOf
    <3>5. Live(id) /\ InUse(id_to_index[id])
      BY <1>2, <3>4, IndexedSlots
    <3>6. id_to_index[id] = i
      BY <1>2, <3>5, IndexedSlots DEF SlotInv, SlotsOf
    <3> QED BY <3>1, <3>2, <3>5, <3>6 DEF OnDisk, InMemory
  <2> QED BY <2>1, <2>2, <2>3
<1>3. IndInv /\ SlotInv /\ TombInv => RestartLosesOnlyReinserted
  BY <1>2 DEF RestartLosesOnlyReinserted
<1>4. Init => TombInv
  BY DEF Init, TombInv, Recorded
<1>5. IndInv /\ TombInv /\ [Next]_vars => TombInv'
  BY NextKeepsTombInv
<1> QED BY <1>1, <1>3, <1>4, <1>5, SlotInvariance, PTL DEF Spec, SlotsInv

-----------------------------------------------------------------------------
(* The log of clients that use no id twice: it lists deleted ids only,     *)
(* each once, so it is never too long and never compacted; and unless a    *)
(* call on it has failed it lists all of them.                             *)

LoggedOnce ==
    /\ tombstone_file.ids \subseteq deleted_ids
    /\ tombstone_file.entries = Cardinality(tombstone_file.ids)
    /\ tombstone_entries_on_disk = Cardinality(tombstone_file.ids)

OnceLogInv ==
    /\ LoggedOnce
    /\ \A t \in Threads :
          /\ pc[t] \notin InRemove \ {"append"}
          /\ pc[t] = "append" => arg[t].id \notin tombstone_file.ids
    /\ faults = 0 => \A id \in deleted_ids :
          id \in tombstone_file.ids \/ \E t \in Threads : pc[t] = "append" /\ arg[t].id = id

LEMMA InitOnceLogInv == Init => OnceLogInv
<1>1. Cardinality({}) = 0
  BY FS_EmptySet
<1> QED BY <1>1 DEF Init, NoLogFiles, NoFile, OnceLogInv, LoggedOnce, InRemove

LEMMA EntersOnce ==
    ASSUME IndInv, IdInv, SlotInv, RangesApart, InsertLive = FALSE, Reinsert = FALSE, NEW t \in Threads,
           NEW id \in Ids, NEW vec \in Vecs, Enters(t, id, vec)
    PROVE  /\ SlotsOf(id) = {} /\ id \notin deleted_ids
           /\ BeginFresh(t, id, vec) \/ DropInsert(t, id)
<1>1. Free
  BY EntersMeans
<1>2. ASSUME id \in deleted_ids PROVE FALSE
  <2>1. SlotsOf(id) # {}
    BY <1>2 DEF IdInv
  <2>2. Insert(t, id, vec)
    BY <2>1 DEF Enters, IdInv, InsertTakenId
  <2>3. ~Live(id)
    BY <1>1, <1>2, IndexedSlots
  <2> QED BY <1>2, <2>2, <2>3 DEF Insert
<1> QED BY <1>2, EntersFresh DEF BeginReinsert

(* Steps that neither delete nor log.                                      *)
LEMMA QuietStepKeepsOnceLog ==
    ASSUME IndInv, OnceLogInv, NEW t \in Threads, Free \/ pc[t] \notin Unlocked, pc[t] # "append",
           UNCHANGED <<tombstone_file, deleted_ids, tombstone_entries_on_disk, faults>>,
           pc'[t] \notin InRemove,
           \A u \in Threads \ {t} : pc'[u] = pc[u] /\ arg'[u] = arg[u]
    PROVE  OnceLogInv'
<1>1. \A u \in Threads : pc[u] # "append" /\ pc'[u] \notin InRemove
  BY OthersUnlocked DEF InRemove
<1> QED BY <1>1 DEF OnceLogInv, LoggedOnce, InRemove

LEMMA EntersKeepsOnceLog ==
    ASSUME IndInv, IdInv, SlotInv, OnceLogInv, RangesApart, InsertLive = FALSE, Reinsert = FALSE,
           NEW t \in Threads, NEW id \in Ids, NEW vec \in Vecs, Enters(t, id, vec)
    PROVE  OnceLogInv'
<1>1. id \notin deleted_ids /\ EnterInsert(t, id, vec) /\ Free /\ pc[t] \in Unlocked
  BY EntersOnce, EntersMeans
<1>2. /\ UNCHANGED <<logFiles, tombstone_entries_on_disk, faults>> /\ deleted_ids' = deleted_ids \ {id}
      /\ pc'[t] \in {"copy", "publish", "idle"}
      /\ \A u \in Threads \ {t} : pc'[u] = pc[u] /\ arg'[u] = arg[u]
  BY <1>1, EnterInsertMeans
<1>3. deleted_ids' = deleted_ids /\ pc[t] # "append" /\ pc'[t] \notin InRemove
  BY <1>1, <1>2 DEF Unlocked, InRemove
<1> QED BY <1>1, <1>2, <1>3, QuietStepKeepsOnceLog DEF logFiles

LEMMA BeginRemoveKeepsOnceLog ==
    ASSUME IndInv, OnceLogInv, NEW t \in Threads, NEW id \in Ids, BeginRemove(t, id)
    PROVE  OnceLogInv'
<1>1. /\ Free /\ id \notin deleted_ids /\ deleted_ids' = deleted_ids \cup {id}
      /\ UNCHANGED <<tombstone_file, tombstone_entries_on_disk, faults>>
      /\ pc'[t] = "append" /\ arg'[t].id = id
      /\ \A u \in Threads \ {t} : pc'[u] = pc[u]
  BY IdTypes DEF BeginRemove, Begin, logFiles
<1>2. \A u \in Threads : pc[u] \notin InRemove
  BY <1>1, OthersUnlocked DEF InRemove, Unlocked, BeginRemove
<1>3. \A u \in Threads : pc'[u] \in InRemove => u = t
  BY <1>1, <1>2
<1>4. faults = 0 => deleted_ids \subseteq tombstone_file.ids
  BY <1>2 DEF OnceLogInv, InRemove
<1> QED BY <1>1, <1>3, <1>4 DEF OnceLogInv, LoggedOnce, InRemove

LEMMA LogNotTooLong ==
    ASSUME IndInv, NEW logged \in SUBSET deleted_ids
    PROVE  Cardinality(logged) \in Nat /\ ~NeedsCompaction(Cardinality(logged))
<1>1. IsFiniteSet(deleted_ids)
  BY FiniteIds, FS_Subset, IdTypes
<1>2. Cardinality(logged) \in Nat /\ Cardinality(deleted_ids) \in Nat
      /\ Cardinality(logged) <= Cardinality(deleted_ids)
  BY <1>1, FS_Subset, FS_CardinalityType
<1> QED BY <1>2, SlackAssumption DEF NeedsCompaction

LEMMA RemoveStepKeepsOnceLog ==
    ASSUME IndInv, IdInv, OnceLogInv, NEW t \in Threads, RemoveStep(t) \/ RemoveFault(t)
    PROVE  OnceLogInv'
<1>1. pc[t] = "append" /\ (AppendTombstone(t) \/ AppendFails(t))
  BY DEF OnceLogInv, InRemove, RemoveStep, RemoveFault, AppendTombstone, WriteTmp, RemoveOldLog,
     RenameTmp, AppendFails, CompactionFails, RemoveOldLogThrows
<1> PICK id \in Ids : id = arg[t].id
  BY <1>1 DEF IndInv, ArgInv, ArgOK
<1>2. id \in deleted_ids /\ id \notin tombstone_file.ids
  BY <1>1 DEF IdInv, OnceLogInv
<1>3. \A u \in Threads \ {t} : pc'[u] = pc[u] /\ pc[u] \notin InRemove
  BY <1>1, OthersStay, OthersUnlocked DEF LockedStep, Unlocked
<1>4. CASE AppendTombstone(t)
  <2>1. /\ tombstone_file' = [ids |-> tombstone_file.ids \cup {id}, entries |-> tombstone_file.entries + 1]
        /\ tombstone_entries_on_disk' = tombstone_entries_on_disk + 1
        /\ UNCHANGED <<deleted_ids, faults>> /\ CompactOrFinish(t, tombstone_entries_on_disk + 1)
    BY <1>4 DEF AppendTombstone, AppendEntry
  <2>2. IsFiniteSet(tombstone_file.ids)
    BY FiniteIds, FS_Subset, IdTypes
  <2>3. Cardinality(tombstone_file.ids \cup {id}) = Cardinality(tombstone_file.ids) + 1
    BY <1>2, <2>2, FS_AddElement
  <2>4. tombstone_file'.ids = tombstone_file.ids \cup {id} /\ tombstone_file'.entries = tombstone_file.entries + 1
    BY <2>1
  <2>5. LoggedOnce'
    BY <1>2, <2>1, <2>3, <2>4 DEF LoggedOnce, OnceLogInv
  <2>6. ~NeedsCompaction(tombstone_entries_on_disk + 1)
    BY <1>2, <2>3, LogNotTooLong DEF OnceLogInv, LoggedOnce
  <2>7. pc'[t] = "idle"
    BY <2>1, <2>6, IdTypes DEF CompactOrFinish, Finish
  <2>8. \A u \in Threads : pc'[u] \notin InRemove
    BY <1>3, <2>7 DEF InRemove
  <2>9. faults = 0 => deleted_ids \subseteq tombstone_file.ids \cup {id}
    BY <1>3 DEF OnceLogInv, InRemove
  <2> QED BY <2>1, <2>4, <2>5, <2>8, <2>9 DEF OnceLogInv, InRemove
<1>5. CASE AppendFails(t)
  <2>1. UNCHANGED <<tombstone_file, deleted_ids, tombstone_entries_on_disk>> /\ faults' = faults + 1
        /\ CompactOrFinish(t, tombstone_entries_on_disk)
    BY <1>5 DEF AppendFails, FaultAt, logFiles, memory
  <2>2. ~NeedsCompaction(tombstone_entries_on_disk)
    BY LogNotTooLong DEF OnceLogInv, LoggedOnce
  <2>3. pc'[t] = "idle"
    BY <2>1, <2>2, IdTypes DEF CompactOrFinish, Finish
  <2>4. \A u \in Threads : pc'[u] \notin InRemove
    BY <1>3, <2>3 DEF InRemove
  <2>5. faults' # 0
    BY <2>1, BoundsAssumption DEF IndInv, TypeOK
  <2> QED BY <2>1, <2>4, <2>5 DEF OnceLogInv, LoggedOnce, InRemove
<1> QED BY <1>1, <1>4, <1>5

LEMMA QuietActionsKeepOnceLog ==
    ASSUME IndInv, OnceLogInv, NEW t \in Threads,
           \/ \E id \in Ids, vec \in Vecs : BeginUpdate(t, id, vec)
           \/ \E vec \in Vecs : TakeAutoId(t, vec)
           \/ InsertStep(t) \/ FinishUpdate(t)
    PROVE  OnceLogInv'
<1>1. /\ Free \/ pc[t] \notin Unlocked
      /\ pc[t] # "append"
  BY DEF BeginUpdate, TakeAutoId, InsertStep, CopyIntoOldSlot, RelinkOldSlot, Publish, RunKMeans,
     InitializeClusters, ListNewSlot, IndexNewSlot, FinishUpdate, Unlocked
<1>2. \A u \in Threads \ {t} : pc'[u] = pc[u] /\ arg'[u] = arg[u]
  BY OthersStay DEF Call, LockedStep
<1>3. UNCHANGED <<tombstone_file, deleted_ids, tombstone_entries_on_disk, faults>>
  BY DEF BeginUpdate, TakeAutoId, InsertStep, CopyIntoOldSlot, RelinkOldSlot, Publish, RunKMeans,
     InitializeClusters, ListNewSlot, IndexNewSlot, FinishUpdate, logFiles, memory, history
<1>4. \E step \in {"overwrite", "id_taken", "relink", "list", "kmeans", "initialize", "index", "idle"} :
         pc' = [pc EXCEPT ![t] = step]
  BY DEF BeginUpdate, TakeAutoId, InsertStep, CopyIntoOldSlot, RelinkOldSlot, Publish, AfterPublish,
     RunKMeans, InitializeClusters, ListNewSlot, IndexNewSlot, FinishUpdate, Begin, Goto, Finish
<1>5. pc'[t] \notin InRemove
  BY <1>4, IdTypes DEF InRemove
<1> QED BY <1>1, <1>2, <1>3, <1>5, QuietStepKeepsOnceLog

LEMMA NextKeepsOnceLog ==
    ASSUME RangesApart, InsertLive = FALSE, Reinsert = FALSE
    PROVE  SlotsInv /\ OnceLogInv /\ [Next]_vars => OnceLogInv'
<1> SUFFICES ASSUME SlotsInv, OnceLogInv, [Next]_vars PROVE OnceLogInv'
  OBVIOUS
<1> USE DEF SlotsInv
<1>1. CASE \E t \in Threads : Call(t)
  <2>1. PICK t \in Threads : Call(t)
    BY <1>1
  <2> QED BY <2>1, EntersKeepsOnceLog, BeginRemoveKeepsOnceLog, QuietActionsKeepOnceLog DEF Call, Enters
<1>2. CASE \E t \in Threads : InsertTakenId(t)
  <2>1. PICK t \in Threads : InsertTakenId(t)
    BY <1>2
  <2>2. arg[t].id \in Ids /\ arg[t].vec \in Vecs
    BY <2>1 DEF InsertTakenId, IndInv, ArgInv, ArgOK
  <2> QED BY <2>1, <2>2, EntersKeepsOnceLog DEF Enters
<1>3. CASE \E t \in Threads : LockedStep(t) \/ RemoveFault(t)
  BY <1>3, RemoveStepKeepsOnceLog, QuietActionsKeepOnceLog DEF LockedStep
<1>4. CASE Restart
  BY <1>4 DEF Restart, logFiles, OnceLogInv, LoggedOnce, InRemove
<1>5. CASE UNCHANGED vars
  BY <1>5 DEF vars, logFiles, memory, threads, history, OnceLogInv, LoggedOnce
<1> QED BY <1>1, <1>2, <1>3, <1>4, <1>5 DEF Next

-----------------------------------------------------------------------------
(* What callers were told.  While an operation runs nothing is promised    *)
(* about its id, and its slot has what it has stored; an answered insert   *)
(* or update is in the index with the vector that was answered, and,       *)
(* unless a restart follows a failed call on the log, an answered deletion *)
(* is not in it.                                                           *)

WorkOK(t) ==
    /\ pc[t] \notin Unlocked => acked[arg[t].id] = Unsure
    /\ pc[t] \in InInsert \ {"copy"} => float_block[arg[t].slot] = arg[t].vec
    /\ pc[t] = "overwrite" => id_to_index[arg[t].id] = arg[t].slot /\ float_block[arg[t].slot] = Garbage
    /\ pc[t] \in InRemove => ~Live(arg[t].id)

AnswerOK(id) ==
    /\ acked[id] \in Vecs => Live(id) /\ float_block[id_to_index[id]] = acked[id]
    /\ acked[id] = Missing /\ (faults = 0 \/ restarts = 0) => ~Live(id)

AnswerInv ==
    /\ \A t \in Threads : WorkOK(t)
    /\ \A id \in Ids : AnswerOK(id)

LEMMA AnswersDiffer ==
    /\ Missing \notin Vecs /\ Unsure \notin Vecs /\ Dropped \notin Vecs
    /\ Missing # Unsure /\ Missing # Dropped
BY AnswersAssumption

LEMMA InitAnswerInv == Init => AnswerInv
BY AnswersDiffer DEF Init, CreateFile, AnswerInv, WorkOK, AnswerOK, Unlocked, InInsert, InRemove, Live

(* A step of an operation on one id disturbs the answers about no other.   *)
LEMMA OneIdChanges ==
    ASSUME IndInv, AnswerInv, NEW t \in Threads, Free \/ pc[t] \notin Unlocked, NEW id \in Ids,
           \A u \in Threads \ {t} : pc'[u] = pc[u],
           \A other \in Ids \ {id} :
              /\ acked'[other] = acked[other] /\ id_to_index'[other] = id_to_index[other]
              /\ Live(other) => float_block'[id_to_index[other]] = float_block[id_to_index[other]],
           restarts' = restarts, faults' \in {faults, faults + 1},
           WorkOK(t)', AnswerOK(id)'
    PROVE  AnswerInv'
<1>1. \A u \in Threads \ {t} : pc'[u] \in Unlocked
  BY OthersUnlocked
<1>2. \A u \in Threads \ {t} : WorkOK(u)'
  BY <1>1 DEF WorkOK, Unlocked, InInsert, InRemove
<1>3. faults' = 0 => faults = 0
  BY BoundsAssumption DEF IndInv, TypeOK
<1>4. \A other \in Ids \ {id} : AnswerOK(other)'
  BY <1>3 DEF AnswerInv, AnswerOK, Live
<1> QED BY <1>2, <1>4 DEF AnswerInv

(* The slots of two ids in the index differ.                               *)
LEMMA OtherSlots ==
    ASSUME IndInv, NEW id \in Ids, NEW i, id_block[i] = id \/ i = vector_count,
           NEW other \in Ids \ {id}, Live(other)
    PROVE  id_to_index[other] # i
BY IdTypes DEF IndInv, MapInv, SlotsOf

LEMMA EntersKeepsAnswers ==
    ASSUME IndInv, AnswerInv, NEW t \in Threads, NEW id \in Ids, NEW vec \in Vecs, Free,
           pc[t] \in Unlocked, EnterInsert(t, id, vec)
    PROVE  AnswerInv'
<1>1. /\ UNCHANGED <<id_to_index, restarts, faults>>
      /\ \A u \in Threads \ {t} : pc'[u] = pc[u]
      /\ acked' \in {[acked EXCEPT ![id] = Unsure], [acked EXCEPT ![id] = Dropped]}
  BY EnterInsertMeans
<1>2. acked'[id] \in {Unsure, Dropped} /\ \A other \in Ids \ {id} : acked'[other] = acked[other]
  BY <1>1, IdTypes
<1>3. AnswerOK(id)'
  BY <1>2, AnswersDiffer DEF AnswerOK
<1>4. CASE BeginReinsert(t, id, vec)
  <2>1. PICK i \in UsedSlots : IsOldSlot(i, id) /\ CopyVector(i, Garbage) /\ Begin(t, id, vec, i, "copy")
    BY <1>4 DEF BeginReinsert
  <2>2. WorkOK(t)'
    BY <2>1, IdTypes DEF WorkOK, Begin, InInsert, InRemove
  <2>3. \A other \in Ids \ {id} : Live(other) => float_block'[id_to_index[other]] = float_block[id_to_index[other]]
    BY <2>1, IdTypes, OtherSlots DEF CopyVector, IsOldSlot, Live
  <2> QED BY <1>1, <1>2, <1>3, <2>2, <2>3, OneIdChanges
<1>5. CASE BeginFresh(t, id, vec)
  <2>1. /\ float_block' = [float_block EXCEPT ![vector_count] = vec] /\ ~Full
        /\ Begin(t, id, vec, vector_count, "publish")
    BY <1>5 DEF BeginFresh, FillSlot
  <2>2. vector_count \in Slots
    BY <2>1, IdTypes, CapacityAssumption DEF Full, Slots
  <2>3. WorkOK(t)'
    BY <2>1, <2>2, IdTypes DEF WorkOK, Begin, InInsert, InRemove
  <2>4. \A other \in Ids \ {id} : Live(other) => float_block'[id_to_index[other]] = float_block[id_to_index[other]]
    BY <2>1, IdTypes, OtherSlots DEF Live
  <2> QED BY <1>1, <1>2, <1>3, <2>3, <2>4, OneIdChanges
<1>6. CASE DropInsert(t, id)
  <2>1. WorkOK(t)' /\ float_block' = float_block
    BY <1>6, IdTypes DEF DropInsert, Finish, WorkOK, Unlocked, InInsert, InRemove, dbFile
  <2> QED BY <1>1, <1>2, <1>3, <2>1, OneIdChanges
<1> QED BY <1>4, <1>5, <1>6 DEF EnterInsert

LEMMA CallsKeepAnswers ==
    ASSUME IndInv, AnswerInv, NEW t \in Threads,
           \/ \E id \in Ids, vec \in Vecs : BeginUpdate(t, id, vec)
           \/ \E vec \in Vecs : TakeAutoId(t, vec)
           \/ \E id \in Ids : BeginRemove(t, id)
    PROVE  AnswerInv'
<1>1. ASSUME NEW id \in Ids, NEW vec \in Vecs, BeginUpdate(t, id, vec) PROVE AnswerInv'
  <2> PICK slot \in Slots : slot = id_to_index[id]
    BY <1>1, IdTypes DEF BeginUpdate, Live
  <2>1. /\ Free /\ Live(id) /\ UNCHANGED <<id_to_index, restarts, faults>>
        /\ float_block' = [float_block EXCEPT ![slot] = Garbage]
        /\ pc'[t] = "overwrite" /\ arg'[t].id = id /\ arg'[t].slot = slot
        /\ \A u \in Threads \ {t} : pc'[u] = pc[u]
        /\ acked' = [acked EXCEPT ![id] = Unsure]
    BY <1>1, IdTypes DEF BeginUpdate, CopyVector, Begin, memory
  <2>2. acked'[id] = Unsure /\ \A other \in Ids \ {id} : acked'[other] = acked[other]
    BY <2>1, IdTypes
  <2>3. id_block[slot] = id
    BY <2>1 DEF IndInv, MapInv, SlotsOf
  <2>4. \A other \in Ids \ {id} : Live(other) => float_block'[id_to_index[other]] = float_block[id_to_index[other]]
    BY <2>1, <2>3, IdTypes, OtherSlots DEF Live
  <2>5. WorkOK(t)' /\ AnswerOK(id)'
    BY <2>1, <2>2, IdTypes, AnswersDiffer DEF WorkOK, AnswerOK, InInsert, InRemove
  <2> QED BY <2>1, <2>2, <2>4, <2>5, OneIdChanges
<1>2. ASSUME NEW vec \in Vecs, TakeAutoId(t, vec) PROVE AnswerInv'
  <2>1. /\ Free /\ UNCHANGED <<float_block, id_to_index, acked, restarts, faults>>
        /\ pc'[t] = "id_taken" /\ \A u \in Threads \ {t} : pc'[u] = pc[u]
        /\ next_id \in Ids
    BY <1>2, IdTypes DEF TakeAutoId, TakeNextId, memory, history, IndInv, TypeOK, StorageTypeOK, Ids
  <2> PICK id \in Ids : id = next_id
    BY <2>1
  <2>2. WorkOK(t)' /\ AnswerOK(id)'
    BY <2>1 DEF WorkOK, AnswerInv, AnswerOK, Live, Unlocked, InInsert, InRemove
  <2> QED BY <2>1, <2>2, OneIdChanges
<1>3. ASSUME NEW id \in Ids, BeginRemove(t, id) PROVE AnswerInv'
  <2>1. /\ Free /\ UNCHANGED <<float_block, restarts, faults>>
        /\ id_to_index' = [id_to_index EXCEPT ![id] = NoSlot]
        /\ pc'[t] = "append" /\ arg'[t].id = id
        /\ \A u \in Threads \ {t} : pc'[u] = pc[u]
        /\ acked' = [acked EXCEPT ![id] = Unsure]
    BY <1>3, IdTypes DEF BeginRemove, Begin, dbFile
  <2>2. /\ acked'[id] = Unsure /\ id_to_index'[id] = NoSlot
        /\ \A other \in Ids \ {id} : acked'[other] = acked[other] /\ id_to_index'[other] = id_to_index[other]
    BY <2>1, IdTypes
  <2>3. WorkOK(t)' /\ AnswerOK(id)'
    BY <2>1, <2>2, AnswersDiffer DEF WorkOK, AnswerOK, Live, InInsert
  <2> QED BY <2>1, <2>2, <2>3, OneIdChanges
<1> QED BY <1>1, <1>2, <1>3

LEMMA InsertStepKeepsAnswers ==
    ASSUME IndInv, AnswerInv, NEW t \in Threads, InsertStep(t) \/ FinishUpdate(t)
    PROVE  AnswerInv'
<1> PICK id \in Ids : id = arg[t].id
  BY DEF InsertStep, CopyIntoOldSlot, RelinkOldSlot, Publish, RunKMeans, InitializeClusters,
     ListNewSlot, IndexNewSlot, FinishUpdate, IndInv, ArgInv, ArgOK
<1>1. pc[t] \in InInsert \cup {"overwrite"} /\ pc[t] \notin Unlocked
  BY DEF InsertStep, CopyIntoOldSlot, RelinkOldSlot, Publish, RunKMeans, InitializeClusters,
     ListNewSlot, IndexNewSlot, FinishUpdate, InInsert, Unlocked
<1> PICK slot \in Slots : slot = arg[t].slot
  <2>1. CASE pc[t] = "publish"
    BY <2>1, IdTypes, CapacityAssumption DEF IndInv, ArgInv, ArgOK, Full, Slots
  <2>2. CASE pc[t] # "publish"
    BY <1>1, <2>2, IdTypes DEF IndInv, ArgInv, ArgOK, SlotsOf
  <2> QED BY <2>1, <2>2
<1> PICK vec \in Vecs : vec = arg[t].vec
  BY <1>1 DEF IndInv, ArgInv, ArgOK
<1>2. id_block[slot] = id
  BY <1>1 DEF IndInv, ArgInv, ArgOK, InInsert, SlotsOf
<1>3. \A other \in Ids \ {id} : Live(other) => id_to_index[other] # slot
  BY <1>2, OtherSlots
<1>4. acked[id] = Unsure /\ WorkOK(t)
  BY <1>1 DEF AnswerInv, WorkOK
<1>5. \A u \in Threads \ {t} : pc'[u] = pc[u]
  BY OthersStay DEF LockedStep
<1>6. UNCHANGED <<restarts, faults>>
  BY DEF InsertStep, CopyIntoOldSlot, RelinkOldSlot, Publish, RunKMeans, InitializeClusters,
     ListNewSlot, IndexNewSlot, FinishUpdate
<1>7. CASE Publish(t) \/ RunKMeans(t) \/ InitializeClusters(t) \/ ListNewSlot(t)
  <2>1. /\ UNCHANGED <<float_block, id_to_index, acked, arg>>
        /\ pc[t] \in InInsert \ {"copy"}
        /\ \E step \in {"list", "kmeans", "initialize", "index"} : pc' = [pc EXCEPT ![t] = step]
    BY <1>7 DEF Publish, PublishSlot, RunKMeans, AssignClusters, InitializeClusters, AfterPublish,
       SetClusterInitialized, ListNewSlot, Goto, dbFile, memory, InInsert
  <2>2. pc'[t] \in {"list", "kmeans", "initialize", "index"}
    BY <2>1, IdTypes
  <2>3. WorkOK(t)'
    BY <1>4, <2>1, <2>2 DEF WorkOK, InInsert, InRemove
  <2>4. AnswerOK(id)'
    BY <1>4, <2>1, AnswersDiffer DEF AnswerOK
  <2> QED BY <1>1, <1>5, <1>6, <2>1, <2>3, <2>4, OneIdChanges
<1>8. CASE CopyIntoOldSlot(t)
  <2>1. /\ UNCHANGED <<id_to_index, acked, arg>> /\ pc'[t] = "relink"
        /\ float_block' = [float_block EXCEPT ![slot] = vec]
    BY <1>8, IdTypes DEF CopyIntoOldSlot, CopyVector, Goto, memory
  <2>2. WorkOK(t)' /\ AnswerOK(id)'
    BY <1>4, <2>1, IdTypes, AnswersDiffer DEF WorkOK, AnswerOK, InInsert, InRemove
  <2>3. \A other \in Ids \ {id} : Live(other) => float_block'[id_to_index[other]] = float_block[id_to_index[other]]
    BY <1>3, <2>1, IdTypes DEF Live
  <2> QED BY <1>1, <1>5, <1>6, <2>1, <2>2, <2>3, OneIdChanges
<1>9. CASE RelinkOldSlot(t) \/ IndexNewSlot(t) \/ FinishUpdate(t)
  <2>1. /\ acked' = [acked EXCEPT ![id] = vec] /\ pc' = [pc EXCEPT ![t] = "idle"]
        /\ id_to_index' = [id_to_index EXCEPT ![id] = slot]
        /\ float_block' = [float_block EXCEPT ![slot] = vec]
    <3>1. CASE RelinkOldSlot(t) \/ IndexNewSlot(t)
      <4>1. float_block[slot] = vec /\ float_block' = float_block
        BY <1>4, <3>1 DEF RelinkOldSlot, IndexNewSlot, SetCluster, dbFile, WorkOK, InInsert
      <4> QED BY <3>1, <4>1, IdTypes DEF RelinkOldSlot, IndexNewSlot, Finish
    <3>2. CASE FinishUpdate(t)
      <4>1. id_to_index[id] = slot /\ id_to_index' = id_to_index
        BY <1>4, <3>2 DEF FinishUpdate, WorkOK, memory
      <4> QED BY <3>2, <4>1, IdTypes DEF FinishUpdate, CopyVector, Finish
    <3> QED BY <1>9, <3>1, <3>2
  <2>2. /\ acked'[id] = vec /\ pc'[t] = "idle" /\ id_to_index'[id] = slot /\ float_block'[slot] = vec
        /\ \A other \in Ids \ {id} : acked'[other] = acked[other] /\ id_to_index'[other] = id_to_index[other]
    BY <2>1, IdTypes
  <2>3. \A other \in Ids \ {id} : Live(other) => float_block'[id_to_index[other]] = float_block[id_to_index[other]]
    BY <1>3, <2>1, IdTypes DEF Live
  <2>4. slot # NoSlot /\ vec # Missing
    BY IdTypes, AnswersDiffer
  <2>5. WorkOK(t)' /\ AnswerOK(id)'
    BY <2>2, <2>4 DEF WorkOK, AnswerOK, Live, Unlocked, InInsert, InRemove
  <2> QED BY <1>1, <1>5, <1>6, <2>2, <2>3, <2>5, OneIdChanges
<1> QED BY <1>7, <1>8, <1>9 DEF InsertStep

LEMMA RemoveStepKeepsAnswers ==
    ASSUME IndInv, AnswerInv, NEW t \in Threads, RemoveStep(t) \/ RemoveFault(t)
    PROVE  AnswerInv'
<1>1. pc[t] \in InRemove /\ pc[t] \notin Unlocked
  BY DEF RemoveStep, RemoveFault, AppendTombstone, WriteTmp, RemoveOldLog, RenameTmp, AppendFails,
     CompactionFails, RemoveOldLogThrows, Unlocked, InRemove
<1> PICK id \in Ids : id = arg[t].id
  BY <1>1 DEF IndInv, ArgInv, ArgOK, InRemove
<1>2. acked[id] = Unsure /\ ~Live(id)
  BY <1>1 DEF AnswerInv, WorkOK
<1>3. \A u \in Threads \ {t} : pc'[u] = pc[u]
  BY OthersStay DEF LockedStep
<1>4. UNCHANGED <<float_block, id_to_index, restarts>> /\ faults' \in {faults, faults + 1}
  BY DEF RemoveStep, RemoveFault, AppendTombstone, WriteTmp, RemoveOldLog, RenameTmp, AppendFails,
     CompactionFails, RemoveOldLogThrows, FaultAt, dbFile, memory
<1>5. \/ /\ UNCHANGED <<acked, arg>>
         /\ \E step \in {"write_tmp", "remove_log", "rename"} : pc' = [pc EXCEPT ![t] = step]
      \/ /\ \E answer \in {Missing, Unsure} : acked' = [acked EXCEPT ![id] = answer]
         /\ pc' = [pc EXCEPT ![t] = "idle"]
  BY DEF RemoveStep, RemoveFault, AppendTombstone, WriteTmp, RemoveOldLog, RenameTmp, AppendFails,
     CompactionFails, RemoveOldLogThrows, CompactOrFinish, Goto, Finish
<1>6. acked'[id] \in {Missing, Unsure} /\ \A other \in Ids \ {id} : acked'[other] = acked[other]
  BY <1>2, <1>5, IdTypes
<1>7. AnswerOK(id)'
  BY <1>2, <1>4, <1>6, AnswersDiffer DEF AnswerOK, Live
<1>8. WorkOK(t)'
  <2>1. CASE UNCHANGED <<acked, arg>> /\ \E step \in {"write_tmp", "remove_log", "rename"} : pc' = [pc EXCEPT ![t] = step]
    BY <1>2, <1>4, <2>1, IdTypes DEF WorkOK, Live, InInsert
  <2>2. CASE pc' = [pc EXCEPT ![t] = "idle"]
    BY <2>2, IdTypes DEF WorkOK, Unlocked, InInsert, InRemove
  <2> QED BY <1>5, <2>1, <2>2
<1> QED BY <1>1, <1>3, <1>4, <1>6, <1>7, <1>8, OneIdChanges

(* A restart loses nothing that was answered: of clients that use no id    *)
(* twice the log lists deleted ids only, and unless a call on it has       *)
(* failed it lists every id whose deletion was answered.                   *)
LEMMA RestartKeepsAnswers ==
    ASSUME SlotsInv, OnceLogInv, AnswerInv, Restart
    PROVE  AnswerInv'
<1> USE DEF SlotsInv
<1>1. /\ UNCHANGED <<float_block, acked, faults>> /\ restarts' = restarts + 1
      /\ id_to_index' = [id \in Ids |-> KeptSlot(id)]
      /\ \A t \in Threads : pc'[t] = "idle"
  BY DEF Restart, dbFile
<1>2. restarts' # 0
  BY <1>1, BoundsAssumption DEF IndInv, TypeOK
<1>3. \A t \in Threads : WorkOK(t)'
  BY <1>1 DEF WorkOK, Unlocked, InInsert, InRemove
<1>4. ASSUME NEW id \in Ids, acked[id] \in Vecs
      PROVE  Live(id)' /\ float_block[id_to_index'[id]] = acked[id]
  <2>1. Live(id) /\ float_block[id_to_index[id]] = acked[id]
    BY <1>4 DEF AnswerInv, AnswerOK
  <2>2. id_to_index[id] \in SlotsOf(id) /\ id_to_index[id] # NoSlot
    BY <2>1 DEF IndInv, MapInv, Live
  <2>3. ~BeingInserted(id_to_index[id])
    BY <2>1, <2>2 DEF BeingInserted, SlotInv, InsertOK, IndInv, ArgInv, ArgOK, InInsert, SlotsOf
  <2>4. id \notin tombstone_file.ids
    BY <2>2, <2>3 DEF SlotInv, InUse, IsDeleted, SlotsOf, OnceLogInv, LoggedOnce
  <2>5. KeptSlot(id) = id_to_index[id]
    BY <2>2, <2>4, RestartMeans
  <2> QED BY <1>1, <2>1, <2>2, <2>5 DEF Live
<1>5. ASSUME NEW id \in Ids, acked[id] = Missing, faults = 0
      PROVE  ~Live(id)'
  <2>1. ~Live(id) /\ \A t \in Threads : pc[t] \notin Unlocked => arg[t].id # id
    BY <1>5, AnswersDiffer DEF AnswerInv, AnswerOK, WorkOK
  <2>2. CASE SlotsOf(id) = {}
    BY <1>1, <2>2, RestartMeans DEF Live
  <2>3. CASE SlotsOf(id) # {}
    <3>1. PICK i \in SlotsOf(id) : TRUE
      BY <2>3
    <3>2. i \in UsedSlots /\ id_block[i] = id /\ i # NoSlot
      BY IdTypes DEF SlotsOf
    <3>3. ~BeingInserted(i)
      BY <2>1, <3>2 DEF BeingInserted, IndInv, ArgInv, ArgOK, InInsert, SlotsOf, Unlocked
    <3>4. ~InUse(i)
      BY <2>1, <3>2 DEF InUse, Live
    <3>5. id \in deleted_ids
      BY <3>2, <3>3, <3>4 DEF SlotInv, IsDeleted
    <3>6. id \in tombstone_file.ids
      BY <1>5, <2>1, <3>5 DEF OnceLogInv, Unlocked
    <3> QED BY <1>1, <3>6, RestartMeans DEF Live
  <2> QED BY <2>2, <2>3
<1>6. \A id \in Ids : AnswerOK(id)'
  BY <1>1, <1>2, <1>4, <1>5 DEF AnswerOK
<1> QED BY <1>3, <1>6 DEF AnswerInv

LEMMA NextKeepsAnswers ==
    ASSUME SlotsInv, AnswerInv, [Next]_vars, MaxRestarts = 0 \/ OnceLogInv
    PROVE  AnswerInv'
<1> USE DEF SlotsInv
<1>1. CASE \E t \in Threads : Call(t)
  <2>1. PICK t \in Threads : Call(t)
    BY <1>1
  <2>2. CASE \E id \in Ids, vec \in Vecs : Insert(t, id, vec)
    BY <2>2, EntersKeepsAnswers DEF Insert, Unlocked
  <2> QED BY <2>1, <2>2, CallsKeepAnswers DEF Call
<1>2. CASE \E t \in Threads : InsertTakenId(t)
  <2>1. PICK t \in Threads : InsertTakenId(t)
    BY <1>2
  <2>2. arg[t].id \in Ids /\ arg[t].vec \in Vecs
    BY <2>1 DEF InsertTakenId, IndInv, ArgInv, ArgOK
  <2> QED BY <2>1, <2>2, EntersKeepsAnswers DEF InsertTakenId, Unlocked
<1>3. CASE \E t \in Threads : LockedStep(t) \/ RemoveFault(t)
  BY <1>3, InsertStepKeepsAnswers, RemoveStepKeepsAnswers DEF LockedStep
<1>4. CASE Restart
  <2>1. MaxRestarts # 0
    BY <1>4, BoundsAssumption DEF Restart, IndInv, TypeOK
  <2> QED BY <1>4, <2>1, RestartKeepsAnswers
<1>5. CASE UNCHANGED vars
  BY <1>5 DEF vars, dbFile, memory, threads, history, AnswerInv, WorkOK, AnswerOK, Live
<1> QED BY <1>1, <1>2, <1>3, <1>4, <1>5 DEF Next

LEMMA OnceInvariance ==
    ASSUME RangesApart, InsertLive = FALSE, Reinsert = FALSE
    PROVE  Spec => [](SlotsInv /\ OnceLogInv)
<1>1. SlotsInv /\ OnceLogInv /\ [Next]_vars => OnceLogInv'
  BY NextKeepsOnceLog
<1> QED BY <1>1, InitOnceLogInv, SlotInvariance, PTL DEF Spec

LEMMA AnswerInvariance ==
    ASSUME RangesApart, InsertLive = FALSE, Reinsert = FALSE \/ MaxRestarts = 0
    PROVE  Spec => [](SlotsInv /\ AnswerInv)
<1>1. CASE MaxRestarts = 0
  <2>1. SlotsInv /\ AnswerInv /\ [Next]_vars => AnswerInv'
    BY <1>1, NextKeepsAnswers
  <2> QED BY <2>1, InitAnswerInv, SlotInvariance, PTL DEF Spec
<1>2. CASE Reinsert = FALSE
  <2>1. SlotsInv /\ OnceLogInv /\ AnswerInv /\ [Next]_vars => AnswerInv'
    BY NextKeepsAnswers
  <2> QED BY <1>2, <2>1, InitAnswerInv, OnceInvariance, PTL DEF Spec
<1> QED BY <1>1, <1>2

(* If no client inserts an id in use, and either no id is used twice or    *)
(* the process is not restarted, then whenever nobody is writing a search  *)
(* that probes every cluster meets every vector whose insert or update was *)
(* answered, with the value that was answered: through kmeans, crashes at  *)
(* any point of any operation, and any failure of the log.                 *)
THEOREM StoredAreFound ==
    ASSUME InsertLive = FALSE, ManualIds \cap 1 .. MaxAuto = {}, Reinsert = FALSE \/ MaxRestarts = 0
    PROVE  Spec => []SearchFindsStored
<1>1. RangesApart
  BY DEF RangesApart, AutoIds
<1>2. ASSUME SlotsInv, AnswerInv, ListInv, Free, NEW id \in Ids, acked[id] \in Vecs
      PROVE  \E i \in Candidates(Clusters) : id_block[i] = id /\ float_block[i] = acked[id]
  <2> PICK slot : slot = id_to_index[id]
    OBVIOUS
  <2>1. Live(id) /\ float_block[slot] = acked[id]
    BY <1>2 DEF AnswerInv, AnswerOK
  <2>2. slot \in UsedSlots /\ id_block[slot] = id /\ ~deleted_flags[slot]
    BY <1>2, <2>1, IndexedSlots DEF SlotsInv, InUse
  <2>3. \A t \in Threads : pc[t] # "list"
    BY <1>2, ThreadsAssumption DEF SlotsInv, IndInv, LockInv, Free, Unlocked
  <2>4. is_initialized => cluster_index[cluster_block[slot]][slot] > 0
    BY <1>2, <2>2, <2>3 DEF ListInv, Listed
  <2>5. cluster_block[slot] \in Clusters
    BY <1>2, <2>2, ListTypes DEF SlotsInv, IndInv
  <2> QED BY <2>1, <2>2, <2>4, <2>5 DEF Candidates
<1>3. SlotsInv /\ AnswerInv /\ ListInv => SearchFindsStored
  BY <1>2 DEF SearchFindsStored
<1> QED BY <1>1, <1>3, AnswerInvariance, ListInvariance, PTL

(* For the same clients no search meets a vector whose deletion was        *)
(* answered, until the process is restarted after a call on the log has    *)
(* failed.                                                                 *)
THEOREM DeletedAreHidden ==
    ASSUME InsertLive = FALSE, ManualIds \cap 1 .. MaxAuto = {}, Reinsert = FALSE \/ MaxRestarts = 0
    PROVE  Spec => []SearchHidesDeleted
<1>1. RangesApart
  BY DEF RangesApart, AutoIds
<1>2. ASSUME SlotsInv, AnswerInv, Free, faults = 0 \/ restarts = 0, NEW i \in Candidates(Clusters)
      PROVE  acked[id_block[i]] # Missing
  <2>1. i \in UsedSlots /\ ~deleted_flags[i]
    BY DEF Candidates
  <2>2. InUse(i) /\ id_block[i] \in Ids /\ i # NoSlot
    BY <1>2, <2>1, FreeSlots, IdTypes DEF SlotsInv, SlotInv, IsDeleted
  <2> QED BY <1>2, <2>2 DEF AnswerInv, AnswerOK, InUse, Live
<1>3. SlotsInv /\ AnswerInv => SearchHidesDeleted
  BY <1>2 DEF SearchHidesDeleted
<1> QED BY <1>1, <1>3, AnswerInvariance, PTL

-----------------------------------------------------------------------------
(* The lists of clients that use no id twice: no slot is written again, so *)
(* a slot is in one list at most, once, and not before ListNewSlot puts it *)
(* there.                                                                  *)

ListedOnce(c, i) ==
    cluster_index[c][i] > 0 =>
        /\ cluster_index[c][i] = 1 /\ i \in UsedSlots /\ c = cluster_block[i]
        /\ \A t \in Threads : pc[t] = "list" => arg[t].slot # i

OnceListInv ==
    /\ \A t \in Threads : pc[t] \notin {"copy", "relink"}
    /\ is_initialized => \A c \in Clusters, i \in Slots : ListedOnce(c, i)

LEMMA InitOnceListInv == Init => OnceListInv
BY DEF Init, CreateFile, OnceListInv

LEMMA QuietStepKeepsOnceLists ==
    ASSUME IndInv, OnceListInv, NEW t \in Threads, Free \/ pc[t] \notin Unlocked,
           UNCHANGED <<vector_count, is_initialized, cluster_index>>,
           \A i \in UsedSlots : cluster_block'[i] = cluster_block[i],
           pc'[t] \notin {"copy", "relink", "list"},
           \A u \in Threads \ {t} : pc'[u] = pc[u] /\ arg'[u] = arg[u]
    PROVE  OnceListInv'
<1>1. UsedSlots' = UsedSlots
  BY DEF UsedSlots
<1>2. \A u \in Threads : pc'[u] \notin {"copy", "relink", "list"}
  BY OthersUnlocked DEF Unlocked
<1>3. ASSUME is_initialized, NEW c \in Clusters, NEW i \in Slots PROVE ListedOnce(c, i)'
  <2>1. ListedOnce(c, i)
    BY <1>3 DEF OnceListInv
  <2> QED BY <1>1, <1>2, <2>1 DEF ListedOnce
<1> QED BY <1>2, <1>3 DEF OnceListInv

LEMMA EntersKeepsOnceLists ==
    ASSUME SlotsInv, OnceListInv, RangesApart, InsertLive = FALSE, Reinsert = FALSE,
           NEW t \in Threads, NEW id \in Ids, NEW vec \in Vecs, Enters(t, id, vec)
    PROVE  OnceListInv'
<1> USE DEF SlotsInv
<1>1. (BeginFresh(t, id, vec) \/ DropInsert(t, id)) /\ EnterInsert(t, id, vec) /\ Free
  BY EntersOnce, EntersMeans
<1>2. /\ UNCHANGED <<vector_count, is_initialized, cluster_index>>
      /\ \A u \in Threads \ {t} : pc'[u] = pc[u] /\ arg'[u] = arg[u]
  BY <1>1, EnterInsertMeans
<1>3. pc'[t] \in {"publish", "idle"}
  BY <1>1, IdTypes DEF BeginFresh, DropInsert, Begin, Finish
<1>4. \A i \in UsedSlots : cluster_block'[i] = cluster_block[i]
  BY <1>1, IdTypes, ListTypes DEF BeginFresh, FillSlot, DropInsert, dbFile, IndInv
<1> QED BY <1>1, <1>2, <1>3, <1>4, QuietStepKeepsOnceLists

LEMMA PublishKeepsOnceLists ==
    ASSUME IndInv, OnceListInv, NEW t \in Threads, Publish(t)
    PROVE  OnceListInv'
<1> PICK new \in Slots : new = vector_count
  BY PublishMeans
<1>1. /\ UsedSlots' = UsedSlots \cup {new} /\ new \notin UsedSlots /\ arg[t].slot = new
      /\ UNCHANGED <<is_initialized, cluster_block, cluster_index, arg>>
      /\ pc'[t] \in {"list", "kmeans", "index"}
      /\ \A u \in Threads \ {t} : pc'[u] = pc[u] /\ pc[u] \in Unlocked
  BY PublishMeans, IdTypes DEF memory
<1>2. \A u \in Threads : pc'[u] \notin {"copy", "relink"} /\ (pc'[u] = "list" => u = t)
  BY <1>1 DEF Unlocked
<1>3. ASSUME is_initialized, NEW c \in Clusters, NEW i \in Slots PROVE ListedOnce(c, i)'
  <2>1. ListedOnce(c, i)
    BY <1>3 DEF OnceListInv
  <2> QED BY <1>1, <1>2, <2>1 DEF ListedOnce
<1> QED BY <1>1, <1>2, <1>3 DEF OnceListInv

(* The lists that kmeans and the constructor make.                         *)
LEMMA ListsOfListOnce ==
    ASSUME IndInv, NEW counts, \A i \in Slots : counts[i] => i \in UsedSlots,
           cluster_index' = ListsOf(cluster_block, counts), UNCHANGED <<vector_count, cluster_block>>,
           \A t \in Threads : pc'[t] # "list"
    PROVE  \A c \in Clusters, i \in Slots : ListedOnce(c, i)'
<1> TAKE c \in Clusters, i \in Slots
<1>1. cluster_index'[c][i] = IF counts[i] /\ cluster_block[i] = c THEN 1 ELSE 0
  BY DEF ListsOf
<1>2. UsedSlots' = UsedSlots
  BY DEF UsedSlots
<1> QED BY <1>1, <1>2 DEF ListedOnce

LEMMA KMeansKeepsOnceLists ==
    ASSUME IndInv, ListInv, OnceListInv, NEW t \in Threads, RunKMeans(t) \/ InitializeClusters(t)
    PROVE  OnceListInv'
<1>1. pc[t] \in {"kmeans", "initialize"} /\ ~is_initialized
  BY DEF RunKMeans, InitializeClusters, ListInv
<1>2. \A u \in Threads \ {t} : pc[u] \in Unlocked
  BY <1>1, OthersUnlocked DEF Unlocked
<1>3. CASE RunKMeans(t)
  <2>1. UNCHANGED is_initialized /\ pc' = [pc EXCEPT ![t] = "initialize"]
    BY <1>3 DEF RunKMeans, AssignClusters, Goto
  <2> QED BY <1>1, <1>2, <2>1, IdTypes DEF OnceListInv
<1>4. CASE InitializeClusters(t)
  <2> DEFINE counts == [i \in Slots |-> i \in UsedSlots /\ ~deleted_flags[i]]
  <2>1. /\ cluster_index' = ListsOf(cluster_block, counts) /\ UNCHANGED <<vector_count, cluster_block>>
        /\ pc' = [pc EXCEPT ![t] = "index"]
    BY <1>4 DEF InitializeClusters, SetClusterInitialized, Goto
  <2>2. \A u \in Threads : pc'[u] \notin {"copy", "relink", "list"}
    BY <1>2, <2>1, IdTypes DEF Unlocked
  <2>3. \A i \in Slots : counts[i] => i \in UsedSlots
    BY IdTypes
  <2> HIDE DEF counts
  <2> QED BY <2>1, <2>2, <2>3, ListsOfListOnce DEF OnceListInv
<1> QED BY <1>3, <1>4

LEMMA ListNewSlotKeepsOnceLists ==
    ASSUME IndInv, ListInv, OnceListInv, NEW t \in Threads, ListNewSlot(t)
    PROVE  OnceListInv'
<1>1. pc[t] = "list" /\ is_initialized
  BY DEF ListNewSlot, ListInv
<1> PICK slot \in Slots : slot = arg[t].slot
  BY <1>1, IdTypes DEF IndInv, ArgInv, ArgOK, InInsert, SlotsOf
<1> PICK cluster \in Clusters : cluster = cluster_block[slot]
  BY ListTypes DEF IndInv
<1>2. /\ slot \in UsedSlots /\ cluster_index' = PushBack(cluster, slot)
      /\ UNCHANGED <<vector_count, is_initialized, cluster_block>>
      /\ pc' = [pc EXCEPT ![t] = "index"]
  BY <1>1 DEF ListNewSlot, Goto, dbFile, IndInv, ArgInv, ArgOK, InInsert, SlotsOf
<1>3. \A u \in Threads : pc'[u] \notin {"copy", "relink", "list"}
  BY <1>1, <1>2, IdTypes, OthersUnlocked DEF Unlocked
<1>4. UsedSlots' = UsedSlots
  BY <1>2 DEF UsedSlots
<1>5. ASSUME NEW c \in Clusters, NEW i \in Slots PROVE ListedOnce(c, i)'
  <2>1. ListedOnce(c, i) /\ cluster_index[c][i] \in Nat
    BY <1>1, ListTypes DEF OnceListInv, IndInv
  <2>2. cluster_index'[c][i] = IF c = cluster /\ i = slot THEN cluster_index[c][i] + 1 ELSE cluster_index[c][i]
    BY <1>2, PushBackMeans DEF IndInv
  <2>3. i = slot => cluster_index[c][i] = 0
    BY <1>1, <2>1 DEF ListedOnce
  <2>4. CASE c = cluster /\ i = slot
    <3>1. cluster_index'[c][i] = 1
      BY <2>2, <2>3, <2>4
    <3> QED BY <1>2, <1>3, <1>4, <2>4, <3>1 DEF ListedOnce
  <2>5. CASE ~(c = cluster /\ i = slot)
    <3>1. cluster_index'[c][i] = cluster_index[c][i]
      BY <2>2, <2>5
    <3> QED BY <1>2, <1>3, <1>4, <2>1, <3>1 DEF ListedOnce
  <2> QED BY <2>4, <2>5
<1> QED BY <1>3, <1>5 DEF OnceListInv

LEMMA QuietActionsKeepOnceLists ==
    ASSUME IndInv, OnceListInv, NEW t \in Threads,
           \/ \E id \in Ids, vec \in Vecs : BeginUpdate(t, id, vec)
           \/ \E vec \in Vecs : TakeAutoId(t, vec)
           \/ \E id \in Ids : BeginRemove(t, id)
           \/ CopyIntoOldSlot(t) \/ RelinkOldSlot(t) \/ IndexNewSlot(t) \/ FinishUpdate(t)
           \/ RemoveStep(t) \/ RemoveFault(t)
    PROVE  OnceListInv'
<1>1. ~CopyIntoOldSlot(t) /\ ~RelinkOldSlot(t)
  BY DEF CopyIntoOldSlot, RelinkOldSlot, OnceListInv
<1>2. \A u \in Threads \ {t} : pc'[u] = pc[u] /\ arg'[u] = arg[u]
  BY OthersStay DEF Call, LockedStep, InsertStep
<1>3. UNCHANGED <<vector_count, is_initialized, cluster_block, cluster_index>>
  BY <1>1 DEF BeginUpdate, TakeAutoId, TakeNextId, BeginRemove, IndexNewSlot, FinishUpdate,
     RemoveStep, AppendTombstone, WriteTmp, RemoveOldLog, RenameTmp, RemoveFault, AppendFails,
     CompactionFails, RemoveOldLogThrows, CopyVector, dbFile, memory
<1>4. /\ Free \/ pc[t] \notin Unlocked
      /\ \E step \in {"overwrite", "id_taken", "append", "idle", "write_tmp", "remove_log", "rename"} :
            pc' = [pc EXCEPT ![t] = step]
  BY <1>1 DEF BeginUpdate, TakeAutoId, BeginRemove, IndexNewSlot, FinishUpdate,
     RemoveStep, AppendTombstone, WriteTmp, RemoveOldLog, RenameTmp, RemoveFault, AppendFails,
     CompactionFails, RemoveOldLogThrows, CompactOrFinish, Goto, Finish, Begin, Unlocked
<1>5. pc'[t] \notin {"copy", "relink", "list"}
  BY <1>4, IdTypes
<1> QED BY <1>2, <1>3, <1>4, <1>5, QuietStepKeepsOnceLists

LEMMA NextKeepsOnceLists ==
    ASSUME RangesApart, InsertLive = FALSE, Reinsert = FALSE
    PROVE  SlotsInv /\ ListInv /\ OnceListInv /\ [Next]_vars => OnceListInv'
<1> SUFFICES ASSUME SlotsInv, ListInv, OnceListInv, [Next]_vars PROVE OnceListInv'
  OBVIOUS
<1> USE DEF SlotsInv
<1>1. CASE \E t \in Threads : Call(t)
  <2>1. PICK t \in Threads : Call(t)
    BY <1>1
  <2> QED BY <2>1, EntersKeepsOnceLists, QuietActionsKeepOnceLists DEF Call, Enters
<1>2. CASE \E t \in Threads : InsertTakenId(t)
  <2>1. PICK t \in Threads : InsertTakenId(t)
    BY <1>2
  <2>2. arg[t].id \in Ids /\ arg[t].vec \in Vecs
    BY <2>1 DEF InsertTakenId, IndInv, ArgInv, ArgOK
  <2> QED BY <2>1, <2>2, EntersKeepsOnceLists DEF Enters
<1>3. CASE \E t \in Threads : LockedStep(t) \/ RemoveFault(t)
  BY <1>3, PublishKeepsOnceLists, KMeansKeepsOnceLists, ListNewSlotKeepsOnceLists,
     QuietActionsKeepOnceLists DEF LockedStep, InsertStep
<1>4. CASE Restart
  <2> DEFINE counts == [i \in Slots |-> i \in KeptSlots]
  <2>1. /\ UNCHANGED <<vector_count, is_initialized, cluster_block>>
        /\ \A t \in Threads : pc'[t] = "idle"
        /\ is_initialized => cluster_index' = ListsOf(cluster_block, counts)
    BY <1>4 DEF Restart, dbFile
  <2>2. \A i \in Slots : counts[i] => i \in UsedSlots
    <3>1. KeptSlots \subseteq UsedSlots
      BY DEF KeptSlots
    <3>2. \A i \in Slots : counts[i] <=> i \in KeptSlots
      BY Zenon
    <3> QED BY <3>1, <3>2
  <2> HIDE DEF counts
  <2> QED BY <2>1, <2>2, ListsOfListOnce DEF OnceListInv
<1>5. CASE UNCHANGED vars
  BY <1>5 DEF vars, dbFile, memory, threads, OnceListInv, ListedOnce, UsedSlots
<1> QED BY <1>1, <1>2, <1>3, <1>4, <1>5 DEF Next

(* If no client uses an id twice, then whenever nobody is writing a search *)
(* meets no id twice: no two slots have one id, and a slot is in no two    *)
(* lists and not twice in one.                                             *)
THEOREM NoDuplicates ==
    ASSUME InsertLive = FALSE, ManualIds \cap 1 .. MaxAuto = {}, Reinsert = FALSE
    PROVE  Spec => []SearchHasNoDuplicates
<1>1. RangesApart
  BY DEF RangesApart, AutoIds
<1>2. ASSUME SlotsInv, OnceListInv
      PROVE  /\ \A i, j \in Candidates(Clusters) : id_block[i] = id_block[j] => i = j
             /\ \A i \in Candidates(Clusters) : ~Repeated(i)
  <2>1. \A i, j \in Candidates(Clusters) : id_block[i] = id_block[j] => i = j
    BY <1>2 DEF SlotsInv, SlotInv, Candidates
  <2>2. ASSUME NEW i \in Candidates(Clusters), is_initialized PROVE ~Repeated(i)
    <3>1. i \in Slots
      BY <1>2, IdTypes DEF SlotsInv, Candidates
    <3>2. \A c \in Clusters : cluster_index[c][i] > 0 => cluster_index[c][i] = 1 /\ c = cluster_block[i]
      BY <1>2, <2>2, <3>1 DEF OnceListInv, ListedOnce
    <3>3. \A c \in Clusters : cluster_index[c][i] > 1 => cluster_index[c][i] > 0
      BY <1>2, <3>1, ListTypes DEF SlotsInv, IndInv
    <3> QED BY <3>2, <3>3 DEF Repeated
  <2>3. \A i \in Candidates(Clusters) : ~Repeated(i)
    BY <2>2 DEF Repeated
  <2> QED BY <2>1, <2>3
<1>3. SlotsInv /\ OnceListInv => SearchHasNoDuplicates
  BY <1>2 DEF SearchHasNoDuplicates
<1>4. SlotsInv /\ ListInv /\ OnceListInv /\ [Next]_vars => OnceListInv'
  BY <1>1, NextKeepsOnceLists
<1> QED BY <1>1, <1>3, <1>4, InitOnceListInv, SlotInvariance, ListInvariance, PTL DEF Spec

-----------------------------------------------------------------------------
(* The file and the log as an abstract store: what a restart would find    *)
(* under an id is the vector in its one slot, unless the log lists it.     *)

OnDiskIs(id) ==
    /\ id \in tombstone_file.ids \/ SlotsOf(id) = {} => OnDisk(id) = Missing
    /\ \A i \in SlotsOf(id) : id \notin tombstone_file.ids => OnDisk(id) = float_block[i]

LEMMA DiskMeans == IndInv /\ SlotInv => \A id \in Ids : OnDiskIs(id)
<1> SUFFICES ASSUME IndInv, SlotInv, NEW id \in Ids PROVE OnDiskIs(id)
  OBVIOUS
<1>1. \A i \in SlotsOf(id) : i # NoSlot
  BY IdTypes DEF SlotsOf
<1> QED BY <1>1, RestartMeans DEF OnDiskIs, OnDisk

LEMMA DiskMeansNext == (IndInv /\ SlotInv => \A id \in Ids : OnDiskIs(id))'
BY DiskMeans, PTL

OnceInv == SlotsInv /\ OnceLogInv /\ OnceListInv /\ AnswerInv

(* An id keeps its vector if its slots, their floats and its place in the  *)
(* log stay.                                                               *)
LEMMA DiskStays ==
    ASSUME IndInv, SlotInv, IndInv', SlotInv', NEW id \in Ids,
           SlotsOf(id)' = SlotsOf(id), \A i \in SlotsOf(id) : float_block'[i] = float_block[i],
           id \in tombstone_file'.ids <=> id \in tombstone_file.ids
    PROVE  OnDisk(id)' = OnDisk(id)
<1>1. OnDiskIs(id) /\ OnDiskIs(id)'
  BY DiskMeans, DiskMeansNext
<1>2. CASE id \in tombstone_file.ids \/ SlotsOf(id) = {}
  BY <1>1, <1>2 DEF OnDiskIs
<1>3. CASE id \notin tombstone_file.ids /\ SlotsOf(id) # {}
  <2>1. PICK i \in SlotsOf(id) : TRUE
    BY <1>3
  <2> QED BY <1>1, <1>3, <2>1 DEF OnDiskIs
<1> QED BY <1>2, <1>3

Store == [id \in Ids |-> OnDisk(id)]
UsedIds == {id_block[i] : i \in UsedSlots}

LEMMA QuietStepStutters ==
    ASSUME IndInv, SlotInv, IndInv', SlotInv', UNCHANGED <<vector_count, tombstone_file>>,
           \A i \in UsedSlots : id_block'[i] = id_block[i] /\ float_block'[i] = float_block[i]
    PROVE  Store' = Store /\ UsedIds' = UsedIds
<1>1. UsedSlots' = UsedSlots /\ \A id : SlotsOf(id)' = SlotsOf(id)
  BY SlotsStay
<1>2. \A id \in Ids : OnDisk(id)' = OnDisk(id)
  BY <1>1, DiskStays DEF SlotsOf
<1>3. UsedIds' = UsedIds
  BY <1>1 DEF UsedIds
<1> QED BY <1>2, <1>3 DEF Store

(* One id gets another vector, or none.                                    *)
LEMMA OneIdStored ==
    ASSUME NEW id \in Ids, NEW value, OnDisk(id)' = value,
           \A other \in Ids \ {id} : OnDisk(other)' = OnDisk(other)
    PROVE  Store' = [Store EXCEPT ![id] = value]
BY DEF Store

LEMMA PublishPuts ==
    ASSUME OnceInv, IndInv', SlotInv', NEW t \in Threads, Publish(t)
    PROVE  \E id \in Ids, vec \in Vecs : Abstract!Put(id, vec)
<1> USE DEF OnceInv, SlotsInv
<1> PICK new \in Slots : new = vector_count
  BY PublishMeans
<1>1. /\ UsedSlots' = UsedSlots \cup {new} /\ new \notin UsedSlots /\ arg[t].slot = new
      /\ id_block[new] = arg[t].id /\ pc[t] = "publish"
      /\ UNCHANGED <<id_block, float_block, tombstone_file>>
      /\ \A other : SlotsOf(other)' = SlotsOf(other) \cup {i \in {new} : other = arg[t].id}
  BY PublishMeans, IdTypes DEF logFiles
<1> PICK id \in Ids : id = arg[t].id
  BY <1>1 DEF IndInv, ArgInv, ArgOK
<1> PICK vec \in Vecs : vec = arg[t].vec
  BY <1>1 DEF IndInv, ArgInv, ArgOK, InInsert
<1>2. SlotsOf(id) = {} /\ float_block[new] = vec
  BY <1>1 DEF SlotInv, InsertOK, AnswerInv, WorkOK, InInsert
<1>3. id \notin tombstone_file.ids
  BY <1>2 DEF IdInv
<1>4. id \notin UsedIds
  BY <1>2 DEF UsedIds, SlotsOf
<1>5. UsedIds' = UsedIds \cup {id}
  BY <1>1 DEF UsedIds
<1>6. OnDisk(id)' = vec
  <2>1. OnDiskIs(id)'
    BY DiskMeansNext
  <2>2. new \in SlotsOf(id)'
    BY <1>1
  <2> QED BY <1>1, <1>2, <1>3, <2>1, <2>2 DEF OnDiskIs
<1>7. \A other \in Ids \ {id} : OnDisk(other)' = OnDisk(other)
  <2> TAKE other \in Ids \ {id}
  <2>1. SlotsOf(other)' = SlotsOf(other)
    BY <1>1
  <2> QED BY <1>1, <2>1, DiskStays
<1>8. Store' = [Store EXCEPT ![id] = vec]
  BY <1>6, <1>7, OneIdStored
<1> QED BY <1>4, <1>5, <1>8 DEF Abstract!Put, Store, UsedIds

(* An id in the index has a vector on disk too, in the slot it is at.      *)
LEMMA IndexedIsOnDisk ==
    ASSUME OnceInv, NEW t \in Threads, Free \/ pc[t] = "overwrite", NEW id \in Ids, Live(id)
    PROVE  /\ id \notin tombstone_file.ids
           /\ OnDisk(id) = float_block[id_to_index[id]]
           /\ OnDisk(id) # Missing
<1> USE DEF OnceInv, SlotsInv
<1>1. \A u \in Threads : pc[u] \notin InInsert
  BY OthersUnlocked, ThreadsAssumption DEF IndInv, LockInv, Free, Unlocked, InInsert
<1> PICK i : i = id_to_index[id]
  OBVIOUS
<1>2. i \in SlotsOf(id) /\ i # NoSlot /\ i \in Slots
  BY IdTypes DEF IndInv, MapInv, Live, SlotsOf
<1>3. InUse(i) \/ IsDeleted(i)
  BY <1>1, <1>2 DEF SlotInv, BeingInserted, SlotsOf
<1>4. id \notin tombstone_file.ids
  BY <1>2, <1>3 DEF InUse, IsDeleted, SlotsOf, OnceLogInv, LoggedOnce
<1>5. OnDisk(id) = float_block[i]
  BY <1>2, <1>4, DiskMeans DEF OnDiskIs
<1>6. float_block[i] # Missing
  BY <1>2, IdTypes, AnswersAssumption
<1> QED BY <1>4, <1>5, <1>6

(* Writing a vector into the slot of an id that is not deleted.            *)
LEMMA CopyStores ==
    ASSUME OnceInv, IndInv', SlotInv', NEW id \in Ids, NEW slot \in SlotsOf(id), NEW value,
           id \notin tombstone_file.ids, CopyVector(slot, value), UNCHANGED tombstone_file
    PROVE  Store' = [Store EXCEPT ![id] = value] /\ UsedIds' = UsedIds
<1> USE DEF OnceInv, SlotsInv
<1>1. /\ UNCHANGED <<vector_count, id_block>>
      /\ float_block' = [float_block EXCEPT ![slot] = value]
  BY DEF CopyVector
<1>2. UsedSlots' = UsedSlots /\ \A other : SlotsOf(other)' = SlotsOf(other)
  BY <1>1, SlotsStay
<1>3. slot \in Slots /\ id_block[slot] = id
  BY IdTypes DEF SlotsOf
<1>4. OnDisk(id)' = value
  <2>1. OnDiskIs(id)' /\ slot \in SlotsOf(id)'
    BY <1>2, DiskMeansNext
  <2>2. float_block'[slot] = value
    BY <1>1, <1>3, IdTypes
  <2> QED BY <2>1, <2>2 DEF OnDiskIs
<1>5. \A other \in Ids \ {id} : OnDisk(other)' = OnDisk(other)
  <2> TAKE other \in Ids \ {id}
  <2>1. \A i \in SlotsOf(other) : i \in Slots /\ i # slot
    BY <1>3, IdTypes DEF SlotsOf
  <2>2. \A i \in SlotsOf(other) : float_block'[i] = float_block[i]
    BY <1>1, <2>1, IdTypes
  <2> QED BY <1>2, <2>2, DiskStays
<1>6. UsedIds' = UsedIds
  BY <1>1, <1>2 DEF UsedIds
<1> QED BY <1>4, <1>5, <1>6, OneIdStored

LEMMA UpdateStores ==
    ASSUME OnceInv, IndInv', SlotInv', NEW t \in Threads,
           (\E id \in Ids, vec \in Vecs : BeginUpdate(t, id, vec)) \/ FinishUpdate(t)
    PROVE  \E id \in Ids : Abstract!Scribble(id) \/ \E vec \in Vecs : Abstract!Overwrite(id, vec)
<1> USE DEF OnceInv, SlotsInv
<1>1. ASSUME NEW id \in Ids, NEW vec \in Vecs, BeginUpdate(t, id, vec) PROVE Abstract!Scribble(id)
  <2> PICK slot \in SlotsOf(id) : slot = id_to_index[id]
    BY <1>1 DEF BeginUpdate, IndInv, MapInv
  <2>1. Free /\ Live(id) /\ CopyVector(slot, Garbage) /\ UNCHANGED tombstone_file
    BY <1>1 DEF BeginUpdate, logFiles
  <2>2. id \notin tombstone_file.ids /\ OnDisk(id) # Missing
    BY <2>1, IndexedIsOnDisk
  <2>3. Store' = [Store EXCEPT ![id] = Garbage] /\ UsedIds' = UsedIds
    BY <2>1, <2>2, CopyStores
  <2> QED BY <2>2, <2>3 DEF Abstract!Scribble, Store, UsedIds
<1>2. ASSUME FinishUpdate(t) PROVE \E id \in Ids, vec \in Vecs : Abstract!Overwrite(id, vec)
  <2>1. pc[t] = "overwrite" /\ UNCHANGED tombstone_file /\ CopyVector(arg[t].slot, arg[t].vec)
    BY <1>2 DEF FinishUpdate, logFiles
  <2> PICK id \in Ids : id = arg[t].id
    BY <2>1 DEF IndInv, ArgInv, ArgOK
  <2> PICK slot \in SlotsOf(id) : slot = arg[t].slot
    BY <2>1 DEF IndInv, ArgInv, ArgOK
  <2> PICK vec \in Vecs : vec = arg[t].vec
    BY <2>1 DEF IndInv, ArgInv, ArgOK
  <2>2. id_to_index[id] = slot /\ float_block[slot] = Garbage
    BY <2>1 DEF AnswerInv, WorkOK
  <2>3. slot # NoSlot
    BY IdTypes DEF SlotsOf
  <2>4. Live(id)
    BY <2>2, <2>3 DEF Live
  <2>5. id \notin tombstone_file.ids /\ OnDisk(id) = Garbage
    BY <2>1, <2>2, <2>4, IndexedIsOnDisk
  <2>6. Store' = [Store EXCEPT ![id] = vec] /\ UsedIds' = UsedIds
    BY <2>1, <2>5, CopyStores
  <2>7. Abstract!Overwrite(id, vec)
    BY <2>5, <2>6 DEF Abstract!Overwrite, Store, UsedIds
  <2> QED BY <2>7
<1> QED BY <1>1, <1>2

LEMMA AppendDeletes ==
    ASSUME OnceInv, IndInv', SlotInv', NEW t \in Threads, AppendTombstone(t)
    PROVE  \E id \in Ids : Abstract!Delete(id)
<1> USE DEF OnceInv, SlotsInv
<1>1. /\ pc[t] = "append" /\ UNCHANGED <<vector_count, id_block, float_block>>
      /\ tombstone_file'.ids = tombstone_file.ids \cup {arg[t].id}
  BY DEF AppendTombstone, AppendEntry, dbFile
<1> PICK id \in Ids : id = arg[t].id
  BY <1>1 DEF IndInv, ArgInv, ArgOK
<1>2. id \notin tombstone_file.ids /\ id \in deleted_ids
  BY <1>1 DEF OnceLogInv, IdInv
<1>3. PICK i \in SlotsOf(id) : TRUE
  BY <1>2 DEF IdInv
<1>4. OnDisk(id) = float_block[i] /\ i \in Slots
  BY <1>2, <1>3, DiskMeans, IdTypes DEF OnDiskIs, SlotsOf
<1>5. OnDisk(id) # Missing
  BY <1>4, IdTypes, AnswersAssumption
<1>6. UsedSlots' = UsedSlots /\ \A other : SlotsOf(other)' = SlotsOf(other)
  BY <1>1, SlotsStay
<1>7. OnDisk(id)' = Missing
  BY <1>1, DiskMeansNext DEF OnDiskIs
<1>8. \A other \in Ids \ {id} : OnDisk(other)' = OnDisk(other)
  BY <1>1, <1>6, DiskStays
<1>9. Store' = [Store EXCEPT ![id] = Missing]
  BY <1>7, <1>8, OneIdStored
<1>10. UsedIds' = UsedIds
  BY <1>1, <1>6 DEF UsedIds
<1> QED BY <1>5, <1>9, <1>10 DEF Abstract!Delete, Store, UsedIds

LEMMA QuietActionsStutter ==
    ASSUME OnceInv, IndInv', SlotInv', NEW t \in Threads,
           \/ \E vec \in Vecs : TakeAutoId(t, vec)
           \/ \E id \in Ids : BeginRemove(t, id)
           \/ CopyIntoOldSlot(t) \/ RelinkOldSlot(t) \/ RunKMeans(t) \/ InitializeClusters(t)
           \/ ListNewSlot(t) \/ IndexNewSlot(t)
           \/ WriteTmp(t) \/ RemoveOldLog(t) \/ RenameTmp(t) \/ RemoveFault(t)
    PROVE  Store' = Store /\ UsedIds' = UsedIds
<1> USE DEF OnceInv, SlotsInv
<1>1. ~CopyIntoOldSlot(t) /\ ~RelinkOldSlot(t)
  BY DEF CopyIntoOldSlot, RelinkOldSlot, OnceListInv
<1>2. ~WriteTmp(t) /\ ~RemoveOldLog(t) /\ ~RenameTmp(t)
  BY DEF WriteTmp, RemoveOldLog, RenameTmp, OnceLogInv, InRemove
<1>3. UNCHANGED <<vector_count, id_block, float_block, tombstone_file>>
  BY <1>1, <1>2 DEF TakeAutoId, TakeNextId, BeginRemove, RunKMeans, AssignClusters, InitializeClusters,
     SetClusterInitialized, ListNewSlot, IndexNewSlot, RemoveFault, AppendFails, CompactionFails,
     RemoveOldLogThrows, dbFile, logFiles
<1> QED BY <1>3, QuietStepStutters

LEMMA EntersStutters ==
    ASSUME OnceInv, IndInv', SlotInv', RangesApart, InsertLive = FALSE, Reinsert = FALSE,
           NEW t \in Threads, NEW id \in Ids, NEW vec \in Vecs, Enters(t, id, vec)
    PROVE  Store' = Store /\ UsedIds' = UsedIds
<1> USE DEF OnceInv, SlotsInv
<1>1. BeginFresh(t, id, vec) \/ DropInsert(t, id)
  BY EntersOnce
<1>2. UNCHANGED <<vector_count, tombstone_file>>
  BY <1>1 DEF BeginFresh, FillSlot, DropInsert, dbFile, logFiles
<1>3. \A i \in UsedSlots : id_block'[i] = id_block[i] /\ float_block'[i] = float_block[i]
  BY <1>1, IdTypes DEF BeginFresh, FillSlot, DropInsert, dbFile
<1> QED BY <1>2, <1>3, QuietStepStutters

LEMMA StepsImplement ==
    ASSUME RangesApart, InsertLive = FALSE, Reinsert = FALSE
    PROVE  OnceInv /\ IndInv' /\ SlotInv' /\ [Next]_vars =>
             Abstract!Next \/ (Store' = Store /\ UsedIds' = UsedIds)
<1> SUFFICES ASSUME OnceInv, IndInv', SlotInv', [Next]_vars
             PROVE  Abstract!Next \/ (Store' = Store /\ UsedIds' = UsedIds)
  OBVIOUS
<1>1. ASSUME \/ \E id \in Ids, vec \in Vecs : Abstract!Put(id, vec)
             \/ \E id \in Ids : Abstract!Scribble(id) \/ \E vec \in Vecs : Abstract!Overwrite(id, vec)
             \/ \E id \in Ids : Abstract!Delete(id)
      PROVE  Abstract!Next
  BY <1>1, Zenon DEF Abstract!Next
<1>2. CASE \E t \in Threads : Call(t)
  <2>1. PICK t \in Threads : Call(t)
    BY <1>2
  <2>2. CASE \E id \in Ids, vec \in Vecs : Insert(t, id, vec)
    BY <2>2, EntersStutters DEF Enters
  <2>3. CASE \E id \in Ids, vec \in Vecs : BeginUpdate(t, id, vec)
    BY <1>1, <2>3, UpdateStores
  <2> QED BY <2>1, <2>2, <2>3, QuietActionsStutter DEF Call
<1>3. CASE \E t \in Threads : InsertTakenId(t)
  <2>1. PICK t \in Threads : InsertTakenId(t)
    BY <1>3
  <2>2. arg[t].id \in Ids /\ arg[t].vec \in Vecs
    BY <2>1 DEF InsertTakenId, OnceInv, SlotsInv, IndInv, ArgInv, ArgOK
  <2> QED BY <2>1, <2>2, EntersStutters DEF Enters
<1>4. CASE \E t \in Threads : LockedStep(t) \/ RemoveFault(t)
  BY <1>1, <1>4, PublishPuts, UpdateStores, AppendDeletes, QuietActionsStutter
     DEF LockedStep, InsertStep, RemoveStep
<1>5. CASE Restart
  BY <1>5, QuietStepStutters DEF Restart, dbFile, logFiles, OnceInv, SlotsInv
<1>6. CASE UNCHANGED vars
  BY <1>6, QuietStepStutters DEF vars, dbFile, logFiles, OnceInv, SlotsInv
<1> QED BY <1>2, <1>3, <1>4, <1>5, <1>6 DEF Next

(* For clients that use no id twice the file and the log, with all the     *)
(* failures and crashes there may be, are a crash-atomic map from ids to   *)
(* vectors: every step of the engine is a step of VectorStore or leaves    *)
(* its map as it is.                                                       *)
THEOREM Implements ==
    ASSUME InsertLive = FALSE, ManualIds \cap 1 .. MaxAuto = {}, Reinsert = FALSE
    PROVE  Spec => ImplementsVectorStore
<1>1. RangesApart
  BY DEF RangesApart, AutoIds
<1>2. Init => Abstract!Init
  <2> SUFFICES ASSUME Init PROVE Abstract!Init
    OBVIOUS
  <2>1. UsedSlots = {}
    BY DEF Init, CreateFile, UsedSlots
  <2>2. \A id \in Ids : OnDisk(id) = Missing
    BY <2>1 DEF OnDisk, KeptSlot, SlotsOf
  <2> QED BY <2>1, <2>2 DEF Abstract!Init
<1>3. OnceInv /\ IndInv' /\ SlotInv' /\ [Next]_vars => [Abstract!Next]_(Abstract!vars)
  BY <1>1, StepsImplement DEF Abstract!vars, Store, UsedIds
<1>4. Spec => []OnceInv
  <2>1. SlotsInv /\ ListInv /\ OnceListInv /\ [Next]_vars => OnceListInv'
    BY <1>1, NextKeepsOnceLists
  <2>2. Spec => [](SlotsInv /\ OnceListInv)
    BY <1>1, <2>1, InitOnceListInv, SlotInvariance, ListInvariance, PTL DEF Spec
  <2> QED BY <1>1, <2>2, OnceInvariance, AnswerInvariance, PTL DEF OnceInv
<1>5. OnceInv => IndInv /\ SlotInv
  BY DEF OnceInv, SlotsInv
<1> QED BY <1>2, <1>3, <1>4, <1>5, PTL DEF Spec, ImplementsVectorStore, Abstract!Spec

==============================================================================
