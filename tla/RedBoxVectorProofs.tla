-------------------------- MODULE RedBoxVectorProofs --------------------------
(***************************************************************************)
(* Proofs about RedBoxVector, for every value of its constants.            *)
(***************************************************************************)
EXTENDS RedBoxVector, WellFoundedInduction, FiniteSetTheorems, TLAPS

(* Of the slots that hold an id one is the last, so the constructor, whose *)
(* loop lets the last one win, leaves the id at a slot that holds it.      *)
LEMMA LastSlotExists ==
    ASSUME StorageTypeOK, NEW id \in Ids, SlotsOf(id) # {}
    PROVE  LastSlotOf(id) \in SlotsOf(id)
<1> DEFINE Distances == {vector_count - i : i \in SlotsOf(id)}
<1>1. vector_count \in Nat
  BY CapacityAssumption DEF StorageTypeOK
<1>2. SlotsOf(id) \subseteq 0 .. vector_count - 1
  BY DEF SlotsOf, UsedSlots
<1>3. Distances \subseteq Nat /\ Distances # {}
  BY <1>1, <1>2
<1>4. PICK d \in Distances : \A e \in Distances : <<e, d>> \notin OpToRel(<, Nat)
  <2> HIDE DEF Distances
  <2> QED BY <1>3, NatLessThanWellFounded, WFMin, Zenon
<1>5. \A e \in Distances : ~(e < d)
  BY <1>3, <1>4 DEF OpToRel
<1>6. PICK i \in SlotsOf(id) : d = vector_count - i
  OBVIOUS
<1>7. \A j \in SlotsOf(id) : j <= i
  BY <1>1, <1>2, <1>5, <1>6
<1> QED BY <1>7 DEF LastSlotOf

LEMMA FiniteIds == IsFiniteSet(Ids)
<1>1. IsFiniteSet(1 .. MaxAuto)
  BY IdsAssumption, FS_Interval
<1> QED BY <1>1, IdsAssumption, FS_Union DEF Ids

LEMMA DeletedCount == TypeOK => Cardinality(deleted_ids) \in Nat
BY FiniteIds, FS_Subset, FS_CardinalityType DEF TypeOK, MemoryTypeOK

-----------------------------------------------------------------------------
(* The inductive invariant behind the types: at most one thread is inside  *)
(* an operation, namely the one that holds the lock, the slot it works on  *)
(* exists and holds its id, and the index points at slots in use.  Without *)
(* it two inserts could publish a slot past the end, and an update write   *)
(* to one.                                                                 *)

LockInv == \A t \in Threads : (pc[t] \notin Unlocked) <=> (rw_mutex = t)

(* The operands of a thread at a step.                                     *)
ArgOK(t) ==
    /\ pc[t] # "idle" => arg[t].id \in Ids
    /\ pc[t] \in InInsert \cup {"id_taken", "overwrite"} => arg[t].vec \in Vecs
    /\ pc[t] \in InInsert \cup {"overwrite"} /\ pc[t] # "publish" =>
          arg[t].slot \in SlotsOf(arg[t].id)
    /\ pc[t] = "publish" =>
          arg[t].slot = vector_count /\ ~Full /\ id_block[vector_count] = arg[t].id

ArgInv == \A t \in Threads : ArgOK(t)

(* The index sends an id to a slot that holds it.                          *)
MapInv == \A id \in Ids : Live(id) => id_to_index[id] \in SlotsOf(id)

IndInv == TypeOK /\ LockInv /\ ArgInv /\ MapInv

LEMMA InitIndInv == Init => IndInv
<1> SUFFICES ASSUME Init PROVE IndInv
  OBVIOUS
<1> USE CapacityAssumption, ClustersAssumption, IdsAssumption, BoundsAssumption, ThreadsAssumption
<1>1. StorageTypeOK
  <2>1. vector_count \in 0 .. Capacity /\ next_id \in 1 .. MaxAuto + 1
    BY DEF Init, CreateFile
  <2>2. cluster_block \in [Slots -> Clusters]
    BY DEF Init, CreateFile, Clusters
  <2> QED BY <2>1, <2>2 DEF Init, CreateFile, StorageTypeOK
<1>2. LogTypeOK(Ids)
  BY DEF Init, NoLogFiles, LogTypeOK, Logs, NoFile
<1>3. TypeOK
  BY <1>1, <1>2 DEF Init, TypeOK, MemoryTypeOK, ThreadsTypeOK, EmptyLists, NoArg, NoSlot, Steps, Unlocked
<1>4. LockInv
  BY DEF Init, LockInv, Unlocked
<1>5. ArgInv
  BY DEF Init, ArgInv, ArgOK, InInsert
<1>6. MapInv
  BY DEF Init, MapInv, Live
<1> QED BY <1>3, <1>4, <1>5, <1>6 DEF IndInv

-----------------------------------------------------------------------------
(* A step of thread t leaves the operands of the others as they were: they *)
(* hold no lock, so none of their operands depends on the number of slots. *)
LEMMA OthersKeepArgs ==
    ASSUME IndInv, NEW t \in Threads, Free \/ pc[t] \notin Unlocked,
           \A u \in Threads \ {t} : pc'[u] = pc[u] /\ arg'[u] = arg[u]
    PROVE  \A u \in Threads \ {t} : ArgOK(u)'
<1> TAKE u \in Threads \ {t}
<1>1. pc[u] \in Unlocked
  BY ThreadsAssumption DEF IndInv, LockInv, Free
<1>2. ArgOK(u)
  BY DEF IndInv, ArgInv
<1> QED BY <1>1, <1>2 DEF ArgOK, Unlocked, InInsert

(* The three ways an operation moves on keep the lock with its operation.  *)
LEMMA BeginKeepsLock ==
    ASSUME IndInv, NEW t \in Threads, Free, pc[t] \in Unlocked,
           NEW id \in Ids, NEW vec \in Vecs \cup {Garbage},
           NEW slot \in Slots \cup {NoSlot}, NEW step \in Steps \ Unlocked,
           Begin(t, id, vec, slot, step)
    PROVE  /\ ThreadsTypeOK'
           /\ LockInv'
           /\ pc'[t] = step /\ arg'[t] = [id |-> id, vec |-> vec, slot |-> slot]
           /\ \A u \in Threads \ {t} : pc'[u] = pc[u] /\ arg'[u] = arg[u]
<1> USE DEF Begin, IndInv, TypeOK, ThreadsTypeOK
<1>1. pc' \in [Threads -> Steps] /\ pc'[t] = step
  OBVIOUS
<1>2. LockInv'
  BY <1>1, ThreadsAssumption DEF LockInv, Free
<1>3. arg'[t] = [id |-> id, vec |-> vec, slot |-> slot]
  OBVIOUS
<1> QED BY <1>1, <1>2, <1>3

LEMMA GotoKeepsLock ==
    ASSUME IndInv, NEW t \in Threads, pc[t] \notin Unlocked,
           NEW step \in Steps \ Unlocked, Goto(t, step)
    PROVE  /\ ThreadsTypeOK' /\ UNCHANGED <<rw_mutex, arg, acked>>
           /\ LockInv'
           /\ pc'[t] = step
           /\ \A u \in Threads \ {t} : pc'[u] = pc[u] /\ arg'[u] = arg[u]
BY DEF Goto, IndInv, TypeOK, ThreadsTypeOK, LockInv

LEMMA FinishKeepsLock ==
    ASSUME IndInv, NEW t \in Threads, Free \/ pc[t] \notin Unlocked,
           NEW id \in Ids, NEW answer \in Vecs \cup {Missing, Unsure, Dropped},
           Finish(t, id, answer)
    PROVE  /\ ThreadsTypeOK' /\ rw_mutex' = NoThread
           /\ LockInv'
           /\ pc'[t] = "idle"
           /\ \A u \in Threads \ {t} : pc'[u] = pc[u] /\ arg'[u] = arg[u]
<1> USE DEF Finish, IndInv, TypeOK, ThreadsTypeOK
<1>1. pc' \in [Threads -> Steps] /\ pc'[t] = "idle"
  BY DEF Steps, Unlocked
<1>2. LockInv'
  BY <1>1, ThreadsAssumption DEF LockInv, Free, Unlocked
<1>3. arg' \in [Threads -> [id : Ids \cup {NoId}, vec : Vecs \cup {Garbage},
                            slot : Slots \cup {NoSlot}]]
  BY DEF NoArg
<1> QED BY <1>1, <1>2, <1>3

-----------------------------------------------------------------------------
(* The calls.                                                              *)

LEMMA EnterInsertKeeps ==
    ASSUME IndInv, NEW t \in Threads, Free, pc[t] \in Unlocked,
           NEW id \in Ids, NEW vec \in Vecs, EnterInsert(t, id, vec)
    PROVE  IndInv'
<1> USE CapacityAssumption DEF IndInv
<1>1. CASE BeginReinsert(t, id, vec)
  <2>1. PICK i \in UsedSlots : /\ IsOldSlot(i, id) /\ CopyVector(i, Garbage)
                               /\ Begin(t, id, vec, i, "copy")
    BY <1>1 DEF BeginReinsert
  <2>2. i \in Slots
    BY DEF UsedSlots, TypeOK, StorageTypeOK, Slots
  <2>3. "copy" \in Steps \ Unlocked
    BY DEF Steps, Unlocked, InInsert
  <2> HIDE DEF IndInv
  <2>4. /\ ThreadsTypeOK'
        /\ LockInv'
        /\ pc'[t] = "copy" /\ arg'[t] = [id |-> id, vec |-> vec, slot |-> i]
        /\ \A u \in Threads \ {t} : pc'[u] = pc[u] /\ arg'[u] = arg[u]
    BY <2>1, <2>2, <2>3, BeginKeepsLock
  <2>5. TypeOK'
    BY <1>1, <2>1, <2>2, <2>4 DEF IndInv, BeginReinsert, CopyVector, TypeOK, StorageTypeOK,
       MemoryTypeOK, LogTypeOK, logFiles
  <2>6. UNCHANGED <<vector_count, id_block, id_to_index>>
    BY <1>1, <2>1 DEF BeginReinsert, CopyVector
  <2>7. id_block[i] = id
    BY <2>1 DEF IsOldSlot
  <2>8. ArgOK(t)'
    BY <2>4, <2>6, <2>7 DEF ArgOK, SlotsOf, UsedSlots, InInsert
  <2>9. ArgInv' /\ MapInv'
    BY <2>4, <2>6, <2>8, OthersKeepArgs DEF ArgInv, IndInv, MapInv, Live, SlotsOf, UsedSlots
  <2> QED BY <2>4, <2>5, <2>9 DEF IndInv
<1>2. CASE BeginFresh(t, id, vec)
  <2>1. PICK c \in NearestClusters : FillSlot(id, vec, c)
    BY <1>2 DEF BeginFresh
  <2>2. vector_count \in Slots /\ c \in Clusters
    <3>1. c \in Clusters
      BY <2>1, ClustersAssumption DEF NearestClusters, Clusters
    <3>2. vector_count \in Slots
      BY <2>1 DEF FillSlot, Full, TypeOK, StorageTypeOK, Slots
    <3> QED BY <3>1, <3>2
  <2>3. "publish" \in Steps \ Unlocked
    BY DEF Steps, Unlocked, InInsert
  <2>4. Begin(t, id, vec, vector_count, "publish")
    BY <1>2 DEF BeginFresh
  <2> HIDE DEF IndInv
  <2>5. /\ ThreadsTypeOK'
        /\ LockInv'
        /\ pc'[t] = "publish" /\ arg'[t] = [id |-> id, vec |-> vec, slot |-> vector_count]
        /\ \A u \in Threads \ {t} : pc'[u] = pc[u] /\ arg'[u] = arg[u]
    BY <2>2, <2>3, <2>4, BeginKeepsLock
  <2>6. StorageTypeOK'
    BY <2>1, <2>2 DEF IndInv, FillSlot, TypeOK, StorageTypeOK
  <2>7. TypeOK'
    BY <1>2, <2>2, <2>5, <2>6 DEF IndInv, BeginFresh, Flag, TypeOK, MemoryTypeOK,
       LogTypeOK, logFiles
  <2>8. ArgOK(t)'
    <3>1. vector_count' = vector_count /\ ~Full' /\ id_block'[vector_count] = id
      BY <2>1, <2>2 DEF FillSlot, Full, IndInv, TypeOK, StorageTypeOK
    <3> QED BY <2>5, <3>1 DEF ArgOK, InInsert
  <2>9. ArgInv'
    BY <2>5, <2>8, OthersKeepArgs DEF ArgInv
  <2>10. MapInv'
    <3>1. \A other \in Ids : SlotsOf(other)' = SlotsOf(other)
      BY <2>1 DEF FillSlot, SlotsOf, UsedSlots, IndInv, TypeOK, StorageTypeOK, Slots
    <3> QED BY <1>2, <3>1 DEF BeginFresh, IndInv, MapInv, Live
  <2> QED BY <2>5, <2>7, <2>9, <2>10 DEF IndInv
<1>3. CASE DropInsert(t, id)
  <2>1. Finish(t, id, Dropped)
    BY <1>3 DEF DropInsert
  <2> HIDE DEF IndInv
  <2>2. /\ ThreadsTypeOK' /\ rw_mutex' = NoThread
        /\ LockInv'
        /\ pc'[t] = "idle"
        /\ \A u \in Threads \ {t} : pc'[u] = pc[u] /\ arg'[u] = arg[u]
    BY <2>1, FinishKeepsLock
  <2>3. TypeOK'
    BY <1>3, <2>2 DEF IndInv, DropInsert, TypeOK, StorageTypeOK, MemoryTypeOK,
       LogTypeOK, dbFile, logFiles
  <2>4. ArgOK(t)'
    BY <2>2 DEF ArgOK, InInsert
  <2>5. ArgInv'
    BY <2>2, <2>4, OthersKeepArgs DEF ArgInv
  <2>6. MapInv'
    BY <1>3 DEF DropInsert, dbFile, IndInv, MapInv, Live, SlotsOf, UsedSlots
  <2> QED BY <2>2, <2>3, <2>5, <2>6 DEF IndInv
<1> QED BY <1>1, <1>2, <1>3 DEF EnterInsert

LEMMA TakeAutoIdKeeps ==
    ASSUME IndInv, NEW t \in Threads, NEW vec \in Vecs, TakeAutoId(t, vec)
    PROVE  IndInv'
<1> USE DEF TakeAutoId
<1>1. next_id \in Ids /\ StorageTypeOK'
  BY IdsAssumption DEF TakeNextId, IndInv, TypeOK, StorageTypeOK, Ids
<1>2. ThreadsTypeOK' /\ TypeOK'
  <2>1. pc' \in [Threads -> Steps]
    BY DEF IndInv, TypeOK, ThreadsTypeOK, Steps, Unlocked
  <2>2. arg' \in [Threads -> [id : Ids \cup {NoId}, vec : Vecs \cup {Garbage},
                              slot : Slots \cup {NoSlot}]]
    BY <1>1 DEF IndInv, TypeOK, ThreadsTypeOK
  <2> QED BY <1>1, <2>1, <2>2 DEF IndInv, TypeOK, ThreadsTypeOK, MemoryTypeOK, LogTypeOK,
          logFiles, memory, history
<1>3. /\ pc'[t] = "id_taken"
      /\ arg'[t] = [id |-> next_id, vec |-> vec, slot |-> NoSlot]
      /\ \A u \in Threads \ {t} : pc'[u] = pc[u] /\ arg'[u] = arg[u]
  BY DEF IndInv, TypeOK, ThreadsTypeOK
<1>4. LockInv'
  BY <1>3, ThreadsAssumption DEF IndInv, LockInv, Free, Unlocked
<1>5. ArgOK(t)'
  BY <1>1, <1>3 DEF ArgOK, InInsert
<1>6. ArgInv'
  BY <1>3, <1>5, OthersKeepArgs DEF ArgInv
<1>7. MapInv'
  BY DEF TakeNextId, memory, IndInv, MapInv, Live, SlotsOf, UsedSlots
<1> QED BY <1>2, <1>4, <1>6, <1>7 DEF IndInv

LEMMA BeginUpdateKeeps ==
    ASSUME IndInv, NEW t \in Threads, NEW id \in Ids, NEW vec \in Vecs,
           BeginUpdate(t, id, vec)
    PROVE  IndInv'
<1>1. id_to_index[id] \in Slots
  BY DEF BeginUpdate, Live, IndInv, TypeOK, MemoryTypeOK
<1>2. "overwrite" \in Steps \ Unlocked
  BY DEF Steps, Unlocked
<1>3. Free /\ pc[t] \in Unlocked /\ Begin(t, id, vec, id_to_index[id], "overwrite")
  BY DEF BeginUpdate, Unlocked
<1>4. /\ ThreadsTypeOK' /\ LockInv' /\ pc'[t] = "overwrite"
      /\ arg'[t] = [id |-> id, vec |-> vec, slot |-> id_to_index[id]]
      /\ \A u \in Threads \ {t} : pc'[u] = pc[u] /\ arg'[u] = arg[u]
  BY <1>1, <1>2, <1>3, BeginKeepsLock
<1>5. TypeOK'
  BY <1>1, <1>4 DEF BeginUpdate, CopyVector, IndInv, TypeOK, StorageTypeOK, MemoryTypeOK,
     LogTypeOK, logFiles, memory
<1>6. UNCHANGED <<vector_count, id_block, id_to_index>> /\ Live(id)
  BY DEF BeginUpdate, CopyVector, memory
<1>7. ArgOK(t)'
  BY <1>4, <1>6 DEF IndInv, MapInv, ArgOK, InInsert, SlotsOf, UsedSlots
<1>8. ArgInv' /\ MapInv'
  BY <1>3, <1>4, <1>6, <1>7, OthersKeepArgs DEF ArgInv, IndInv, MapInv, Live, SlotsOf, UsedSlots
<1> QED BY <1>4, <1>5, <1>8 DEF IndInv

LEMMA BeginRemoveKeeps ==
    ASSUME IndInv, NEW t \in Threads, NEW id \in Ids, BeginRemove(t, id)
    PROVE  IndInv'
<1>1. id_to_index[id] \in Slots
  BY DEF BeginRemove, Live, IndInv, TypeOK, MemoryTypeOK
<1>2. "append" \in Steps \ Unlocked
  BY DEF Steps, Unlocked, InRemove
<1>3. Free /\ pc[t] \in Unlocked /\ Begin(t, id, Garbage, NoSlot, "append")
  BY DEF BeginRemove, Unlocked
<1>4. /\ ThreadsTypeOK' /\ LockInv' /\ pc'[t] = "append"
      /\ arg'[t] = [id |-> id, vec |-> Garbage, slot |-> NoSlot]
      /\ \A u \in Threads \ {t} : pc'[u] = pc[u] /\ arg'[u] = arg[u]
  BY <1>2, <1>3, BeginKeepsLock
<1>5. TypeOK'
  <2>1. MemoryTypeOK'
    BY <1>1 DEF BeginRemove, Flag, IndInv, TypeOK, MemoryTypeOK
  <2> QED BY <1>4, <2>1 DEF BeginRemove, IndInv, TypeOK, StorageTypeOK, LogTypeOK, logFiles, dbFile
<1>6. ArgOK(t)'
  BY <1>4 DEF ArgOK, InInsert
<1>7. ArgInv'
  BY <1>3, <1>4, <1>6, OthersKeepArgs DEF ArgInv
<1>8. MapInv'
  BY DEF BeginRemove, dbFile, IndInv, TypeOK, MemoryTypeOK, MapInv, Live, SlotsOf, UsedSlots
<1> QED BY <1>4, <1>5, <1>7, <1>8 DEF IndInv

-----------------------------------------------------------------------------
(* The steps of insert.                                                    *)

LEMMA CopyIntoOldSlotKeeps ==
    ASSUME IndInv, NEW t \in Threads, CopyIntoOldSlot(t)
    PROVE  IndInv'
<1> USE DEF CopyIntoOldSlot
<1>1. pc[t] \notin Unlocked /\ "relink" \in Steps \ Unlocked
  BY DEF Steps, Unlocked, InInsert
<1>2. arg[t].id \in Ids /\ arg[t].vec \in Vecs /\ arg[t].slot \in SlotsOf(arg[t].id)
  BY DEF IndInv, ArgInv, ArgOK, InInsert
<1>3. arg[t].slot \in Slots
  BY <1>2, CapacityAssumption DEF SlotsOf, UsedSlots, Slots, IndInv, TypeOK, StorageTypeOK
<1>4. /\ ThreadsTypeOK' /\ LockInv' /\ pc'[t] = "relink" /\ UNCHANGED arg
      /\ \A u \in Threads \ {t} : pc'[u] = pc[u] /\ arg'[u] = arg[u]
  BY <1>1, GotoKeepsLock
<1>5. TypeOK'
  BY <1>2, <1>3, <1>4 DEF CopyVector, IndInv, TypeOK, StorageTypeOK, MemoryTypeOK,
     LogTypeOK, logFiles, memory
<1>6. UNCHANGED <<vector_count, id_block, id_to_index>>
  BY DEF CopyVector, memory
<1>7. ArgOK(t)'
  BY <1>2, <1>4, <1>6 DEF ArgOK, InInsert, SlotsOf, UsedSlots
<1>8. ArgInv' /\ MapInv'
  BY <1>1, <1>4, <1>6, <1>7, OthersKeepArgs DEF ArgInv, IndInv, MapInv, Live, SlotsOf, UsedSlots
<1> QED BY <1>4, <1>5, <1>8 DEF IndInv

(* A slot pushed on a list, and the lists made anew, are lists.            *)
LEMMA PushBackType ==
    ASSUME MemoryTypeOK, NEW c \in Clusters, NEW i \in Slots
    PROVE  PushBack(c, i) \in [Clusters -> [Slots -> Nat]]
<1>1. cluster_index[c] \in [Slots -> Nat] /\ cluster_index[c][i] + 1 \in Nat
  BY DEF MemoryTypeOK
<1> QED BY <1>1 DEF PushBack, MemoryTypeOK

LEMMA ListsOfType ==
    ASSUME NEW clusterOf, NEW counts
    PROVE  ListsOf(clusterOf, counts) \in [Clusters -> [Slots -> Nat]]
BY DEF ListsOf

LEMMA RelinkOldSlotKeeps ==
    ASSUME IndInv, NEW t \in Threads, RelinkOldSlot(t)
    PROVE  IndInv'
<1> USE DEF RelinkOldSlot
<1>1. pc[t] \notin Unlocked
  BY DEF Unlocked
<1>2. arg[t].id \in Ids /\ arg[t].vec \in Vecs /\ arg[t].slot \in SlotsOf(arg[t].id)
  BY DEF IndInv, ArgInv, ArgOK, InInsert
<1>3. arg[t].slot \in Slots
  BY <1>2, CapacityAssumption DEF SlotsOf, UsedSlots, Slots, IndInv, TypeOK, StorageTypeOK
<1>4. /\ ThreadsTypeOK' /\ LockInv' /\ pc'[t] = "idle"
      /\ \A u \in Threads \ {t} : pc'[u] = pc[u] /\ arg'[u] = arg[u]
  BY <1>1, <1>2, FinishKeepsLock
<1>5. PICK c \in NearestClusters :
          /\ SetCluster(arg[t].slot, c)
          /\ cluster_index' = IF is_initialized THEN PushBack(c, arg[t].slot)
                              ELSE cluster_index
  OBVIOUS
<1>6. c \in Clusters
  BY <1>5, ClustersAssumption DEF NearestClusters, Clusters
<1>7. UNCHANGED <<vector_count, id_block>>
  BY <1>5 DEF SetCluster
<1>8. StorageTypeOK'
  BY <1>3, <1>5, <1>6 DEF SetCluster, IndInv, TypeOK, StorageTypeOK
<1>9. cluster_index' \in [Clusters -> [Slots -> Nat]]
  BY <1>3, <1>5, <1>6, PushBackType DEF IndInv, TypeOK, MemoryTypeOK
<1>10. TypeOK'
  BY <1>2, <1>3, <1>4, <1>8, <1>9 DEF Flag, IndInv, TypeOK, MemoryTypeOK, LogTypeOK, logFiles
<1>11. ArgOK(t)'
  BY <1>4 DEF ArgOK, InInsert
<1>12. ArgInv'
  BY <1>1, <1>4, <1>11, OthersKeepArgs DEF ArgInv
<1>13. MapInv'
  BY <1>2, <1>7 DEF IndInv, TypeOK, MemoryTypeOK, MapInv, Live, SlotsOf, UsedSlots
<1> QED BY <1>4, <1>10, <1>12, <1>13 DEF IndInv

(* Publishing makes the filled slot one that holds its id, and takes none  *)
(* away from another id.                                                   *)
LEMMA PublishKeeps ==
    ASSUME IndInv, NEW t \in Threads, Publish(t)
    PROVE  IndInv'
<1> USE DEF Publish
<1>1. pc[t] \notin Unlocked /\ AfterPublish \in Steps \ Unlocked
  BY DEF Steps, Unlocked, InInsert, AfterPublish
<1>2. /\ arg[t].id \in Ids /\ arg[t].vec \in Vecs
      /\ arg[t].slot = vector_count /\ ~Full /\ id_block[vector_count] = arg[t].id
  BY DEF IndInv, ArgInv, ArgOK, InInsert
<1>3. /\ ThreadsTypeOK' /\ LockInv' /\ pc'[t] = AfterPublish /\ UNCHANGED arg
      /\ \A u \in Threads \ {t} : pc'[u] = pc[u] /\ arg'[u] = arg[u]
  BY <1>1, GotoKeepsLock
<1>4. vector_count \in Nat /\ vector_count' = vector_count + 1 /\ vector_count' \in 0 .. Capacity
  BY <1>2, CapacityAssumption DEF PublishSlot, Full, IndInv, TypeOK, StorageTypeOK
<1>5. TypeOK'
  BY <1>3, <1>4 DEF PublishSlot, IndInv, TypeOK, StorageTypeOK, MemoryTypeOK,
     LogTypeOK, logFiles, memory
<1>6. UNCHANGED <<id_block, id_to_index>>
  BY DEF PublishSlot, memory
<1>7. \A id \in Ids : SlotsOf(id) \subseteq SlotsOf(id)'
  BY <1>4, <1>6 DEF SlotsOf, UsedSlots
<1>8. arg[t].slot \in SlotsOf(arg[t].id)'
  BY <1>2, <1>3, <1>4, <1>6 DEF SlotsOf, UsedSlots
<1>9. ArgOK(t)'
  BY <1>2, <1>3, <1>8 DEF ArgOK, InInsert, AfterPublish
<1>10. ArgInv' /\ MapInv'
  BY <1>1, <1>3, <1>6, <1>7, <1>9, OthersKeepArgs DEF ArgInv, IndInv, MapInv, Live
<1> QED BY <1>3, <1>5, <1>10 DEF IndInv

LEMMA RunKMeansKeeps ==
    ASSUME IndInv, NEW t \in Threads, RunKMeans(t)
    PROVE  IndInv'
<1> USE DEF RunKMeans
<1>1. pc[t] \notin Unlocked /\ "initialize" \in Steps \ Unlocked
  BY DEF Steps, Unlocked, InInsert
<1>2. arg[t].id \in Ids /\ arg[t].vec \in Vecs /\ arg[t].slot \in SlotsOf(arg[t].id)
  BY DEF IndInv, ArgInv, ArgOK, InInsert
<1>3. /\ ThreadsTypeOK' /\ LockInv' /\ pc'[t] = "initialize" /\ UNCHANGED arg
      /\ \A u \in Threads \ {t} : pc'[u] = pc[u] /\ arg'[u] = arg[u]
  BY <1>1, GotoKeepsLock
<1>4. cluster_block' \in [Slots -> Clusters]
  BY DEF AssignClusters, IndInv, TypeOK, StorageTypeOK
<1>5. TypeOK'
  BY <1>3, <1>4 DEF AssignClusters, IndInv, TypeOK, StorageTypeOK, MemoryTypeOK,
     LogTypeOK, logFiles, memory
<1>6. UNCHANGED <<vector_count, id_block, id_to_index>>
  BY DEF AssignClusters, memory
<1>7. ArgOK(t)'
  BY <1>2, <1>3, <1>6 DEF ArgOK, InInsert, SlotsOf, UsedSlots
<1>8. ArgInv' /\ MapInv'
  BY <1>1, <1>3, <1>6, <1>7, OthersKeepArgs DEF ArgInv, IndInv, MapInv, Live, SlotsOf, UsedSlots
<1> QED BY <1>3, <1>5, <1>8 DEF IndInv

LEMMA InitializeClustersKeeps ==
    ASSUME IndInv, NEW t \in Threads, InitializeClusters(t)
    PROVE  IndInv'
<1> USE DEF InitializeClusters
<1>1. pc[t] \notin Unlocked /\ "index" \in Steps \ Unlocked
  BY DEF Steps, Unlocked, InInsert
<1>2. arg[t].id \in Ids /\ arg[t].vec \in Vecs /\ arg[t].slot \in SlotsOf(arg[t].id)
  BY DEF IndInv, ArgInv, ArgOK, InInsert
<1>3. /\ ThreadsTypeOK' /\ LockInv' /\ pc'[t] = "index" /\ UNCHANGED arg
      /\ \A u \in Threads \ {t} : pc'[u] = pc[u] /\ arg'[u] = arg[u]
  BY <1>1, GotoKeepsLock
<1>4. cluster_index' \in [Clusters -> [Slots -> Nat]]
  BY ListsOfType
<1>5. TypeOK'
  BY <1>3, <1>4 DEF SetClusterInitialized, IndInv, TypeOK, StorageTypeOK, MemoryTypeOK,
     LogTypeOK, logFiles
<1>6. UNCHANGED <<vector_count, id_block, id_to_index>>
  BY DEF SetClusterInitialized
<1>7. ArgOK(t)'
  BY <1>2, <1>3, <1>6 DEF ArgOK, InInsert, SlotsOf, UsedSlots
<1>8. ArgInv' /\ MapInv'
  BY <1>1, <1>3, <1>6, <1>7, OthersKeepArgs DEF ArgInv, IndInv, MapInv, Live, SlotsOf, UsedSlots
<1> QED BY <1>3, <1>5, <1>8 DEF IndInv

LEMMA ListNewSlotKeeps ==
    ASSUME IndInv, NEW t \in Threads, ListNewSlot(t)
    PROVE  IndInv'
<1> USE DEF ListNewSlot
<1>1. pc[t] \notin Unlocked /\ "index" \in Steps \ Unlocked
  BY DEF Steps, Unlocked, InInsert
<1>2. arg[t].id \in Ids /\ arg[t].vec \in Vecs /\ arg[t].slot \in SlotsOf(arg[t].id)
  BY DEF IndInv, ArgInv, ArgOK, InInsert
<1>3. /\ ThreadsTypeOK' /\ LockInv' /\ pc'[t] = "index" /\ UNCHANGED arg
      /\ \A u \in Threads \ {t} : pc'[u] = pc[u] /\ arg'[u] = arg[u]
  BY <1>1, GotoKeepsLock
<1>4. arg[t].slot \in Slots /\ cluster_block[arg[t].slot] \in Clusters
  BY <1>2, CapacityAssumption DEF SlotsOf, UsedSlots, Slots, IndInv, TypeOK, StorageTypeOK
<1>5. cluster_index' \in [Clusters -> [Slots -> Nat]]
  BY <1>4, PushBackType DEF IndInv, TypeOK
<1>6. TypeOK'
  BY <1>3, <1>5 DEF dbFile, IndInv, TypeOK, StorageTypeOK, MemoryTypeOK, LogTypeOK, logFiles
<1>7. UNCHANGED <<vector_count, id_block, id_to_index>>
  BY DEF dbFile
<1>8. ArgOK(t)'
  BY <1>2, <1>3, <1>7 DEF ArgOK, InInsert, SlotsOf, UsedSlots
<1>9. ArgInv' /\ MapInv'
  BY <1>1, <1>3, <1>7, <1>8, OthersKeepArgs DEF ArgInv, IndInv, MapInv, Live, SlotsOf, UsedSlots
<1> QED BY <1>3, <1>6, <1>9 DEF IndInv

LEMMA IndexNewSlotKeeps ==
    ASSUME IndInv, NEW t \in Threads, IndexNewSlot(t)
    PROVE  IndInv'
<1> USE DEF IndexNewSlot
<1>1. pc[t] \notin Unlocked
  BY DEF Unlocked
<1>2. arg[t].id \in Ids /\ arg[t].vec \in Vecs /\ arg[t].slot \in SlotsOf(arg[t].id)
  BY DEF IndInv, ArgInv, ArgOK, InInsert
<1>3. arg[t].slot \in Slots
  BY <1>2, CapacityAssumption DEF SlotsOf, UsedSlots, Slots, IndInv, TypeOK, StorageTypeOK
<1>4. /\ ThreadsTypeOK' /\ LockInv' /\ pc'[t] = "idle"
      /\ \A u \in Threads \ {t} : pc'[u] = pc[u] /\ arg'[u] = arg[u]
  BY <1>1, <1>2, FinishKeepsLock
<1>5. TypeOK'
  BY <1>2, <1>3, <1>4 DEF dbFile, IndInv, TypeOK, StorageTypeOK, MemoryTypeOK, LogTypeOK, logFiles
<1>6. ArgOK(t)'
  BY <1>4 DEF ArgOK, InInsert
<1>7. ArgInv'
  BY <1>1, <1>4, <1>6, OthersKeepArgs DEF ArgInv
<1>8. MapInv'
  BY <1>2 DEF dbFile, IndInv, TypeOK, MemoryTypeOK, MapInv, Live, SlotsOf, UsedSlots
<1> QED BY <1>4, <1>5, <1>7, <1>8 DEF IndInv

LEMMA FinishUpdateKeeps ==
    ASSUME IndInv, NEW t \in Threads, FinishUpdate(t)
    PROVE  IndInv'
<1> USE DEF FinishUpdate
<1>1. pc[t] \notin Unlocked
  BY DEF Unlocked
<1>2. arg[t].id \in Ids /\ arg[t].vec \in Vecs /\ arg[t].slot \in SlotsOf(arg[t].id)
  BY DEF IndInv, ArgInv, ArgOK, InInsert
<1>3. arg[t].slot \in Slots
  BY <1>2, CapacityAssumption DEF SlotsOf, UsedSlots, Slots, IndInv, TypeOK, StorageTypeOK
<1>4. /\ ThreadsTypeOK' /\ LockInv' /\ pc'[t] = "idle"
      /\ \A u \in Threads \ {t} : pc'[u] = pc[u] /\ arg'[u] = arg[u]
  BY <1>1, <1>2, FinishKeepsLock
<1>5. TypeOK'
  BY <1>2, <1>3, <1>4 DEF CopyVector, IndInv, TypeOK, StorageTypeOK, MemoryTypeOK,
     LogTypeOK, logFiles, memory
<1>6. ArgOK(t)'
  BY <1>4 DEF ArgOK, InInsert
<1>7. ArgInv'
  BY <1>1, <1>4, <1>6, OthersKeepArgs DEF ArgInv
<1>8. MapInv'
  BY DEF CopyVector, memory, IndInv, MapInv, Live, SlotsOf, UsedSlots
<1> QED BY <1>4, <1>5, <1>7, <1>8 DEF IndInv

-----------------------------------------------------------------------------
(* The steps of remove change neither the slots in use nor the index.      *)

LEMMA RemoveStepsKeepSlots ==
    ASSUME IndInv, NEW t \in Threads, pc[t] \in InRemove,
           UNCHANGED <<dbFile, deleted_ids, deleted_flags, id_to_index, cluster_index>>,
           LogTypeOK(Ids)', tombstone_entries_on_disk' \in Nat,
           restarts' \in 0 .. MaxRestarts, faults' \in 0 .. MaxFaults,
           \/ \E step \in InRemove : Goto(t, step)
           \/ \E answer \in {Missing, Unsure} : Finish(t, arg[t].id, answer)
    PROVE  IndInv'
<1>1. pc[t] \notin Unlocked
  BY DEF Unlocked, InRemove
<1>2. arg[t].id \in Ids
  BY DEF IndInv, ArgInv, ArgOK, InRemove
<1>3. /\ ThreadsTypeOK' /\ LockInv'
      /\ pc'[t] \in InRemove => arg'[t].id \in Ids
      /\ pc'[t] \in InRemove \cup {"idle"}
      /\ \A u \in Threads \ {t} : pc'[u] = pc[u] /\ arg'[u] = arg[u]
  <2>1. CASE \E step \in InRemove : Goto(t, step)
    <3>1. PICK step \in InRemove : Goto(t, step)
      BY <2>1
    <3>2. step \in Steps \ Unlocked
      BY DEF InRemove, Steps, Unlocked
    <3> QED BY <1>1, <1>2, <3>1, <3>2, GotoKeepsLock
  <2>2. CASE \E answer \in {Missing, Unsure} : Finish(t, arg[t].id, answer)
    <3>1. PICK answer \in {Missing, Unsure} : Finish(t, arg[t].id, answer)
      BY <2>2
    <3>2. "idle" \notin InRemove
      BY DEF InRemove
    <3> QED BY <1>1, <1>2, <3>1, <3>2, FinishKeepsLock
  <2> QED BY <2>1, <2>2
<1>4. TypeOK'
  BY <1>3 DEF dbFile, IndInv, TypeOK, StorageTypeOK, MemoryTypeOK
<1>5. ArgOK(t)'
  BY <1>3 DEF ArgOK, InInsert, InRemove
<1>6. ArgInv'
  BY <1>1, <1>3, <1>5, OthersKeepArgs DEF ArgInv
<1>7. MapInv'
  BY DEF dbFile, IndInv, MapInv, Live, SlotsOf, UsedSlots
<1> QED BY <1>3, <1>4, <1>6, <1>7 DEF IndInv

LEMMA RemoveStepKeeps ==
    ASSUME IndInv, NEW t \in Threads, RemoveStep(t) \/ RemoveFault(t)
    PROVE  IndInv'
<1>1. /\ StorageTypeOK /\ LogTypeOK(Ids) /\ tombstone_entries_on_disk \in Nat
      /\ deleted_ids \subseteq Ids /\ Cardinality(deleted_ids) \in Nat
      /\ restarts \in 0 .. MaxRestarts /\ faults \in 0 .. MaxFaults
  BY DeletedCount DEF IndInv, TypeOK, MemoryTypeOK
<1>2. pc[t] \in InRemove => arg[t].id \in Ids
  BY DEF IndInv, ArgInv, ArgOK, InRemove
<1>3. CASE AppendTombstone(t)
  <2>1. LogTypeOK(Ids)'
    BY <1>1, <1>2, <1>3 DEF AppendTombstone, AppendEntry, LogTypeOK, Logs, InRemove
  <2>2. tombstone_entries_on_disk' \in Nat
    BY <1>1, <1>3 DEF AppendTombstone
  <2>3. \/ \E step \in InRemove : Goto(t, step)
        \/ \E answer \in {Missing, Unsure} : Finish(t, arg[t].id, answer)
    BY <1>3 DEF AppendTombstone, CompactOrFinish, InRemove
  <2> QED BY <1>1, <1>3, <2>1, <2>2, <2>3, RemoveStepsKeepSlots DEF AppendTombstone, InRemove
<1>4. CASE WriteTmp(t)
  <2>1. LogTypeOK(Ids)'
    BY <1>1, <1>4 DEF WriteTmp, WriteTmpFile, LogTypeOK, Logs
  <2>2. Goto(t, "remove_log") /\ "remove_log" \in InRemove /\ pc[t] \in InRemove
    BY <1>4 DEF WriteTmp, InRemove
  <2> QED BY <1>1, <1>4, <2>1, <2>2, RemoveStepsKeepSlots DEF WriteTmp, memory
<1>5. CASE RemoveOldLog(t)
  <2>1. LogTypeOK(Ids)'
    BY <1>1, <1>5 DEF RemoveOldLog, RemoveLog, LogTypeOK, Logs, NoFile
  <2>2. Goto(t, "rename") /\ "rename" \in InRemove /\ pc[t] \in InRemove
    BY <1>5 DEF RemoveOldLog, InRemove
  <2> QED BY <1>1, <1>5, <2>1, <2>2, RemoveStepsKeepSlots DEF RemoveOldLog, memory
<1>6. CASE RenameTmp(t)
  <2>1. LogTypeOK(Ids)'
    BY <1>1, <1>6 DEF RenameTmp, RenameTmpFile, LogTypeOK, Logs, NoFile
  <2>2. Finish(t, arg[t].id, Missing) /\ pc[t] \in InRemove
    BY <1>6 DEF RenameTmp, InRemove
  <2> QED BY <1>1, <1>6, <2>1, <2>2, RemoveStepsKeepSlots DEF RenameTmp
<1>7. CASE RemoveFault(t)
  <2>1. UNCHANGED <<dbFile, logFiles, memory, restarts>> /\ FaultAt(t)
    BY <1>7 DEF RemoveFault, AppendFails, CompactionFails, RemoveOldLogThrows
  <2>2. faults' \in 0 .. MaxFaults
    BY <1>1, <2>1, BoundsAssumption DEF FaultAt
  <2>3. LogTypeOK(Ids)'
    BY <1>1, <2>1 DEF LogTypeOK, logFiles
  <2>4. \/ \E step \in InRemove : Goto(t, step)
        \/ \E answer \in {Missing, Unsure} : Finish(t, arg[t].id, answer)
    BY <1>7 DEF RemoveFault, AppendFails, CompactionFails, RemoveOldLogThrows,
       CompactOrFinish, InRemove
  <2>5. pc[t] \in InRemove
    BY <1>7 DEF RemoveFault, AppendFails, CompactionFails, RemoveOldLogThrows, InRemove
  <2> QED BY <1>1, <2>1, <2>2, <2>3, <2>4, <2>5, RemoveStepsKeepSlots DEF memory
<1> QED BY <1>3, <1>4, <1>5, <1>6, <1>7 DEF RemoveStep

-----------------------------------------------------------------------------
(* A restart forgets the operations under way; the constructor leaves each *)
(* id it keeps at the last slot that holds it.                             *)

LEMMA RestartKeeps ==
    ASSUME IndInv, Restart
    PROVE  IndInv'
<1> USE DEF Restart
<1>1. UNCHANGED <<vector_count, id_block>>
  BY DEF dbFile
<1>2. \A id \in Ids : KeptSlot(id) # NoSlot => KeptSlot(id) \in SlotsOf(id)
  BY LastSlotExists DEF KeptSlot, IndInv, TypeOK
<1>3. \A id \in Ids : KeptSlot(id) \in Slots \cup {NoSlot}
  BY <1>2, CapacityAssumption DEF SlotsOf, UsedSlots, Slots, IndInv, TypeOK, StorageTypeOK
<1>4. cluster_index' \in [Clusters -> [Slots -> Nat]]
  BY ListsOfType DEF EmptyLists
<1>5. MemoryTypeOK'
  BY <1>3, <1>4 DEF IndInv, TypeOK, LogTypeOK, Logs, MemoryTypeOK
<1>6. ThreadsTypeOK'
  BY DEF IndInv, TypeOK, ThreadsTypeOK, NoArg, Steps, Unlocked
<1>7. restarts' \in 0 .. MaxRestarts
  BY BoundsAssumption DEF IndInv, TypeOK
<1>8. TypeOK'
  BY <1>5, <1>6, <1>7 DEF dbFile, logFiles, IndInv, TypeOK, StorageTypeOK, LogTypeOK
<1>9. LockInv'
  BY ThreadsAssumption DEF LockInv, Unlocked
<1>10. ArgInv'
  BY DEF ArgInv, ArgOK, InInsert
<1>11. MapInv'
  BY <1>1, <1>2 DEF MapInv, Live, SlotsOf, UsedSlots
<1> QED BY <1>8, <1>9, <1>10, <1>11 DEF IndInv

LEMMA StutterKeeps ==
    ASSUME IndInv, UNCHANGED vars
    PROVE  IndInv'
<1>1. TypeOK'
  BY DEF vars, dbFile, logFiles, memory, threads, history, IndInv, TypeOK, StorageTypeOK,
     LogTypeOK, MemoryTypeOK, ThreadsTypeOK
<1>2. LockInv' /\ ArgInv' /\ MapInv'
  BY DEF vars, dbFile, memory, threads, IndInv, LockInv, ArgInv, ArgOK, MapInv, Live,
     SlotsOf, UsedSlots, Full
<1> QED BY <1>1, <1>2 DEF IndInv

LEMMA NextKeepsIndInv == IndInv /\ [Next]_vars => IndInv'
<1> SUFFICES ASSUME IndInv, [Next]_vars PROVE IndInv'
  OBVIOUS
<1>1. CASE \E t \in Threads : Call(t)
  <2>1. PICK t \in Threads : Call(t)
    BY <1>1
  <2>2. CASE \E id \in Ids, vec \in Vecs : Insert(t, id, vec)
    BY <2>2, EnterInsertKeeps DEF Insert, Unlocked
  <2>3. CASE \E id \in Ids, vec \in Vecs : BeginUpdate(t, id, vec)
    BY <2>3, BeginUpdateKeeps
  <2>4. CASE \E vec \in Vecs : TakeAutoId(t, vec)
    BY <2>4, TakeAutoIdKeeps
  <2>5. CASE \E id \in Ids : BeginRemove(t, id)
    BY <2>5, BeginRemoveKeeps
  <2> QED BY <2>1, <2>2, <2>3, <2>4, <2>5 DEF Call
<1>2. CASE \E t \in Threads : InsertTakenId(t)
  <2>1. PICK t \in Threads : InsertTakenId(t)
    BY <1>2
  <2>2. arg[t].id \in Ids /\ arg[t].vec \in Vecs
    BY <2>1 DEF InsertTakenId, IndInv, ArgInv, ArgOK
  <2> QED BY <2>1, <2>2, EnterInsertKeeps DEF InsertTakenId, Unlocked
<1>3. CASE \E t \in Threads : InsertStep(t)
  BY <1>3, CopyIntoOldSlotKeeps, RelinkOldSlotKeeps, PublishKeeps, RunKMeansKeeps,
     InitializeClustersKeeps, ListNewSlotKeeps, IndexNewSlotKeeps DEF InsertStep
<1>4. CASE \E t \in Threads : RemoveStep(t) \/ RemoveFault(t)
  BY <1>4, RemoveStepKeeps
<1>5. CASE \E t \in Threads : FinishUpdate(t)
  BY <1>5, FinishUpdateKeeps
<1>6. CASE Restart
  BY <1>6, RestartKeeps
<1>7. CASE UNCHANGED vars
  BY <1>7, StutterKeeps
<1> QED BY <1>1, <1>2, <1>3, <1>4, <1>5, <1>6, <1>7 DEF Next, LockedStep

(* IndInv holds in every state.                                            *)
THEOREM Invariance == Spec => []IndInv
BY InitIndInv, NextKeepsIndInv, PTL DEF Spec

(* In every state each variable ranges over the values its declaration in  *)
(* the code has; in particular no interleaving of inserts, kmeans, crashes *)
(* and restarts counts a slot past the end of the file or indexes one.     *)
THEOREM TypeCorrect == Spec => []TypeOK
BY Invariance, PTL DEF IndInv

-----------------------------------------------------------------------------
(* Deletions and the log.  While appending to the log and renaming the new *)
(* one succeed, every deleted id is in the log, or being appended to it,   *)
(* or the log is the temporary file that has not been renamed yet; and an  *)
(* id being appended has not been answered.                                *)

Recorded(id) ==
    \/ id \in tombstone_file.ids
    \/ \E t \in Threads : pc[t] = "append" /\ arg[t].id = id
    \/ \E t \in Threads : pc[t] = "rename"

TombInv ==
    /\ \A id \in deleted_ids : Recorded(id)
    /\ \A t \in Threads : pc[t] \in {"remove_log", "rename"} => tmp_file.ids = deleted_ids
    /\ \A t \in Threads : pc[t] = "append" => acked[arg[t].id] = Unsure

LEMMA OthersUnlocked ==
    ASSUME IndInv, NEW t \in Threads, Free \/ pc[t] \notin Unlocked
    PROVE  \A u \in Threads \ {t} : pc[u] \in Unlocked /\ pc[u] \notin InRemove
<1>1. Unlocked \cap InRemove = {}
  BY DEF Unlocked, InRemove
<1> QED BY <1>1, ThreadsAssumption DEF IndInv, LockInv, Free

(* Steps of insert and update, and the failures after which remove gives   *)
(* up before it touched the log.                                           *)
LEMMA QuietStepKeeps ==
    ASSUME IndInv, TombInv, NEW t \in Threads, Free \/ pc[t] \notin Unlocked,
           pc[t] \notin {"append", "rename"}, pc'[t] \notin InRemove,
           UNCHANGED logFiles, deleted_ids' \subseteq deleted_ids,
           \A u \in Threads \ {t} : pc'[u] = pc[u]
    PROVE  TombInv'
<1>1. \A u \in Threads : pc'[u] \notin InRemove
  BY OthersUnlocked
<1>2. \A u \in Threads : pc[u] \notin {"append", "rename"}
  BY OthersUnlocked DEF InRemove
<1> QED BY <1>1, <1>2 DEF TombInv, Recorded, InRemove, logFiles

LEMMA EnterInsertKeepsTombs ==
    ASSUME IndInv, TombInv, NEW t \in Threads, Free, pc[t] \in Unlocked,
           NEW id \in Ids, NEW vec \in Vecs, EnterInsert(t, id, vec)
    PROVE  TombInv'
<1>1. /\ UNCHANGED logFiles /\ deleted_ids' = deleted_ids \ {id}
      /\ \E step \in {"copy", "publish", "idle"} : pc' = [pc EXCEPT ![t] = step]
  BY DEF EnterInsert, BeginReinsert, BeginFresh, DropInsert, Begin, Finish
<1>2. pc \in [Threads -> Steps]
  BY DEF IndInv, TypeOK, ThreadsTypeOK
<1>3. pc'[t] \notin InRemove /\ \A u \in Threads \ {t} : pc'[u] = pc[u]
  BY <1>1, <1>2 DEF InRemove
<1>4. pc[t] \notin {"append", "rename"}
  BY DEF Unlocked
<1> QED BY <1>1, <1>3, <1>4, QuietStepKeeps

LEMMA QuietActionsKeepTombs ==
    ASSUME IndInv, TombInv, NEW t \in Threads, FailingCalls \cap {"append", "rename"} = {},
           \/ \E id \in Ids, vec \in Vecs : BeginUpdate(t, id, vec)
           \/ \E vec \in Vecs : TakeAutoId(t, vec)
           \/ InsertStep(t) \/ FinishUpdate(t) \/ RemoveFault(t)
    PROVE  TombInv'
<1>1. pc \in [Threads -> Steps] /\ Unlocked \cap InRemove = {}
  BY DEF IndInv, TypeOK, ThreadsTypeOK, Unlocked, InRemove
<1>2. CASE \E id \in Ids, vec \in Vecs : BeginUpdate(t, id, vec)
  BY <1>1, <1>2, QuietStepKeeps DEF BeginUpdate, Begin, InRemove, memory
<1>3. CASE \E vec \in Vecs : TakeAutoId(t, vec)
  BY <1>1, <1>3, QuietStepKeeps DEF TakeAutoId, InRemove, memory
<1>4. CASE InsertStep(t)
  <2>1. /\ UNCHANGED <<logFiles, deleted_ids>>
        /\ \E step \in {"relink", "kmeans", "initialize", "list", "index", "idle"} :
              pc' = [pc EXCEPT ![t] = step]
        /\ pc[t] \in InInsert
    BY <1>4 DEF InsertStep, CopyIntoOldSlot, RelinkOldSlot, Publish, RunKMeans,
       InitializeClusters, ListNewSlot, IndexNewSlot, Goto, Finish, AfterPublish, memory, InInsert
  <2>2. pc'[t] \notin InRemove /\ \A u \in Threads \ {t} : pc'[u] = pc[u]
    BY <1>1, <2>1 DEF InRemove
  <2>3. pc[t] \notin Unlocked /\ pc[t] \notin {"append", "rename"}
    BY <2>1 DEF InInsert, Unlocked
  <2> QED BY <2>1, <2>2, <2>3, QuietStepKeeps
<1>5. CASE FinishUpdate(t)
  <2>1. pc[t] \notin Unlocked /\ pc[t] \notin {"append", "rename"}
    BY <1>5 DEF FinishUpdate, Unlocked
  <2> QED BY <1>1, <1>5, <2>1, QuietStepKeeps DEF FinishUpdate, Finish, InRemove, memory
<1>6. CASE RemoveFault(t)
  <2>1. /\ UNCHANGED <<logFiles, deleted_ids>>
        /\ pc' = [pc EXCEPT ![t] = "idle"]
        /\ pc[t] \in {"write_tmp", "remove_log"}
    BY <1>6 DEF RemoveFault, AppendFails, CompactionFails, RemoveOldLogThrows, FaultAt,
       Finish, memory
  <2>2. pc'[t] \notin InRemove /\ \A u \in Threads \ {t} : pc'[u] = pc[u]
    BY <1>1, <2>1 DEF InRemove
  <2>3. pc[t] \notin Unlocked
    BY <2>1 DEF Unlocked
  <2> QED BY <2>1, <2>2, <2>3, QuietStepKeeps
<1> QED BY <1>2, <1>3, <1>4, <1>5, <1>6

LEMMA BeginRemoveKeepsTombs ==
    ASSUME IndInv, TombInv, NEW t \in Threads, NEW id \in Ids, BeginRemove(t, id)
    PROVE  TombInv'
<1>1. /\ pc' = [pc EXCEPT ![t] = "append"] /\ pc'[t] = "append"
      /\ arg'[t].id = id /\ acked'[id] = Unsure
      /\ \A u \in Threads \ {t} : pc'[u] = pc[u]
      /\ UNCHANGED logFiles /\ deleted_ids' = deleted_ids \cup {id}
  BY DEF BeginRemove, Begin, IndInv, TypeOK, ThreadsTypeOK
<1>2. \A u \in Threads \ {t} : pc'[u] \notin InRemove
  BY <1>1, OthersUnlocked DEF BeginRemove
<1>3. pc[t] = "idle" /\ \A u \in Threads : pc[u] \notin {"append", "rename"}
  BY OthersUnlocked DEF BeginRemove, InRemove
<1>4. \A deleted \in deleted_ids' : Recorded(deleted)'
  BY <1>1, <1>3 DEF TombInv, Recorded, logFiles
<1> QED BY <1>1, <1>2, <1>4 DEF TombInv, InRemove

LEMMA RemoveStepKeepsTombs ==
    ASSUME IndInv, TombInv, NEW t \in Threads, RemoveStep(t)
    PROVE  TombInv'
<1>1. pc \in [Threads -> Steps] /\ pc[t] \notin Unlocked /\ UNCHANGED deleted_ids
  BY DEF IndInv, TypeOK, ThreadsTypeOK, RemoveStep, AppendTombstone, WriteTmp, RemoveOldLog,
     RenameTmp, Unlocked, memory
<1>2. \A u \in Threads \ {t} : pc[u] \notin InRemove
  BY <1>1, OthersUnlocked
<1>3. CASE AppendTombstone(t)
  <2>1. /\ tombstone_file'.ids = tombstone_file.ids \cup {arg[t].id}
        /\ pc[t] = "append"
    BY <1>3 DEF AppendTombstone, AppendEntry
  <2>2. \E step \in {"write_tmp", "idle"} : pc' = [pc EXCEPT ![t] = step]
    BY <1>3 DEF AppendTombstone, CompactOrFinish, Goto, Finish
  <2>3. \A u \in Threads : pc'[u] \notin {"append", "remove_log", "rename"}
    BY <1>1, <1>2, <2>2 DEF InRemove
  <2>4. \A id \in deleted_ids : id \in tombstone_file'.ids
    BY <1>2, <2>1 DEF TombInv, Recorded, InRemove
  <2> QED BY <1>1, <2>3, <2>4 DEF TombInv, Recorded
<1>4. CASE WriteTmp(t)
  <2>1. /\ UNCHANGED tombstone_file /\ tmp_file'.ids = deleted_ids
        /\ pc' = [pc EXCEPT ![t] = "remove_log"] /\ pc[t] = "write_tmp"
    BY <1>4 DEF WriteTmp, WriteTmpFile, Goto
  <2>2. \A u \in Threads : pc'[u] \notin {"append", "rename"} /\ pc[u] \notin {"append", "rename"}
    BY <1>1, <1>2, <2>1 DEF InRemove
  <2> QED BY <1>1, <2>1, <2>2 DEF TombInv, Recorded
<1>5. CASE RemoveOldLog(t)
  <2>1. /\ UNCHANGED tmp_file
        /\ pc' = [pc EXCEPT ![t] = "rename"] /\ pc[t] = "remove_log"
    BY <1>5 DEF RemoveOldLog, RemoveLog, Goto
  <2>2. pc'[t] = "rename" /\ \A u \in Threads : pc'[u] # "append"
    BY <1>1, <1>2, <2>1 DEF InRemove
  <2> QED BY <1>1, <2>1, <2>2 DEF TombInv, Recorded
<1>6. CASE RenameTmp(t)
  <2>1. /\ tombstone_file'.ids = tmp_file.ids
        /\ pc' = [pc EXCEPT ![t] = "idle"] /\ pc[t] = "rename"
    BY <1>6 DEF RenameTmp, RenameTmpFile, Finish
  <2>2. \A u \in Threads : pc'[u] \notin {"append", "remove_log", "rename"}
    BY <1>1, <1>2, <2>1 DEF InRemove
  <2> QED BY <1>1, <2>1, <2>2 DEF TombInv, Recorded
<1> QED BY <1>3, <1>4, <1>5, <1>6 DEF RemoveStep

LEMMA NextKeepsTombInv ==
    ASSUME FailingCalls \cap {"append", "rename"} = {}
    PROVE  IndInv /\ TombInv /\ [Next]_vars => TombInv'
<1> SUFFICES ASSUME IndInv, TombInv, [Next]_vars PROVE TombInv'
  OBVIOUS
<1>1. CASE \E t \in Threads : Call(t)
  <2>1. PICK t \in Threads : Call(t)
    BY <1>1
  <2>2. CASE \E id \in Ids, vec \in Vecs : Insert(t, id, vec)
    BY <2>2, EnterInsertKeepsTombs DEF Insert, Unlocked
  <2>3. CASE \E id \in Ids : BeginRemove(t, id)
    BY <2>3, BeginRemoveKeepsTombs
  <2> QED BY <2>1, <2>2, <2>3, QuietActionsKeepTombs DEF Call
<1>2. CASE \E t \in Threads : InsertTakenId(t)
  <2>1. PICK t \in Threads : InsertTakenId(t)
    BY <1>2
  <2>2. arg[t].id \in Ids /\ arg[t].vec \in Vecs
    BY <2>1 DEF InsertTakenId, IndInv, ArgInv, ArgOK
  <2> QED BY <2>1, <2>2, EnterInsertKeepsTombs DEF InsertTakenId, Unlocked
<1>3. CASE \E t \in Threads : LockedStep(t) \/ RemoveFault(t)
  BY <1>3, QuietActionsKeepTombs, RemoveStepKeepsTombs DEF LockedStep
<1>4. CASE Restart
  <2>1. /\ deleted_ids' = tombstone_file.ids /\ UNCHANGED tombstone_file
        /\ \A t \in Threads : pc'[t] = "idle"
    BY <1>4 DEF Restart, logFiles
  <2> QED BY <2>1 DEF TombInv, Recorded
<1>5. CASE UNCHANGED vars
  BY <1>5 DEF vars, logFiles, memory, threads, history, TombInv, Recorded
<1> QED BY <1>1, <1>2, <1>3, <1>4, <1>5 DEF Next

(* Only Restart counts restarts.                                           *)
LEMMA OthersKeepRestarts ==
    ASSUME NEW t \in Threads,
           Call(t) \/ InsertTakenId(t) \/ LockedStep(t) \/ RemoveFault(t)
    PROVE  UNCHANGED restarts
<1>1. CASE Call(t) \/ InsertTakenId(t)
  BY <1>1 DEF Call, Insert, InsertTakenId, EnterInsert, BeginReinsert, BeginFresh, DropInsert,
     BeginUpdate, TakeAutoId, BeginRemove, history
<1>2. CASE LockedStep(t)
  BY <1>2 DEF LockedStep, InsertStep, CopyIntoOldSlot, RelinkOldSlot, Publish, RunKMeans,
     InitializeClusters, ListNewSlot, IndexNewSlot, FinishUpdate, RemoveStep,
     AppendTombstone, WriteTmp, RemoveOldLog, RenameTmp
<1>3. CASE RemoveFault(t)
  BY <1>3 DEF RemoveFault, AppendFails, CompactionFails, RemoveOldLogThrows
<1> QED BY <1>1, <1>2, <1>3

LEMMA RestartForgetsNoTombstone ==
    ASSUME IndInv, TombInv, [Next]_vars, restarts' > restarts,
           \A t \in Threads : pc[t] # "rename",
           NEW id \in deleted_ids, acked[id] = Missing
    PROVE  id \in deleted_ids'
<1>1. restarts \in Nat
  BY BoundsAssumption DEF IndInv, TypeOK
<1>2. Restart
  BY <1>1, OthersKeepRestarts DEF Next, vars, history
<1>3. id \in tombstone_file.ids
  BY AnswersAssumption DEF TombInv, Recorded
<1> QED BY <1>2, <1>3 DEF Restart

(* As long as appending to the log and renaming it succeed, a crash brings *)
(* deleted vectors back only if it falls between the two calls with which  *)
(* compact_tombstones replaces the log: the one window there is.           *)
THEOREM DeletionsAreDurable ==
    ASSUME FailingCalls \cap {"append", "rename"} = {}
    PROVE  Spec => DeletedComeBackOnlyFromRename
<1>1. Init => TombInv
  BY DEF Init, TombInv, Recorded
<1>2. IndInv /\ TombInv /\ [Next]_vars => TombInv'
  BY NextKeepsTombInv
<1>3. IndInv /\ TombInv /\ [Next]_vars =>
        [restarts' > restarts /\ (\A t \in Threads : pc[t] # "rename")
          => \A id \in deleted_ids : acked[id] = Missing => id \in deleted_ids']_vars
  BY RestartForgetsNoTombstone
<1> QED BY <1>1, <1>2, <1>3, Invariance, PTL DEF Spec, DeletedComeBackOnlyFromRename

-----------------------------------------------------------------------------
(* The length of the log.  The engine's count of its entries is never too  *)
(* low; a compaction that is under way is needed, and has written the ids  *)
(* that are deleted; and while appending succeeds the log has every        *)
(* deleted id but the one being appended, or else it is counted as so long *)
(* that the next deletion will write it anew.                              *)

LogInv ==
    /\ tombstone_file.entries <= tombstone_entries_on_disk
    /\ \A t \in Threads : pc[t] \in InRemove \ {"append"} =>
          NeedsCompaction(tombstone_entries_on_disk)
    /\ \A t \in Threads : pc[t] \in {"remove_log", "rename"} =>
          tmp_file = [ids |-> deleted_ids, entries |-> Cardinality(deleted_ids)]

LoggedOrCounted(ids, entries) ==
    ids \subseteq tombstone_file.ids \/ NeedsCompaction(entries)

LostInv ==
    \/ /\ \A t \in Threads : pc[t] # "append"
       /\ LoggedOrCounted(deleted_ids, tombstone_entries_on_disk)
    \/ \E t \in Threads :
          /\ pc[t] = "append"
          /\ LoggedOrCounted(deleted_ids \ {arg[t].id}, tombstone_entries_on_disk + 1)

CountInv == LogInv /\ ("append" \notin FailingCalls => LostInv)

LEMMA InitCountInv == Init => CountInv
BY DEF Init, CountInv, LogInv, LostInv, LoggedOrCounted, NoLogFiles, NoFile, InRemove

LEMMA CountTypes ==
    ASSUME TypeOK
    PROVE  /\ tombstone_entries_on_disk \in Nat /\ CompactSlack \in Nat
           /\ tombstone_file \in [ids : SUBSET Ids, entries : Nat]
           /\ deleted_ids \subseteq Ids /\ IsFiniteSet(deleted_ids) /\ Cardinality(deleted_ids) \in Nat
           /\ pc \in [Threads -> Steps] /\ arg \in [Threads -> [id : Ids \cup {NoId}, vec : Vecs \cup {Garbage},
                            slot : Slots \cup {NoSlot}]]
<1>1. deleted_ids \subseteq Ids
  BY DEF TypeOK, MemoryTypeOK
<1> QED BY <1>1, DeletedCount, SlackAssumption, FiniteIds, FS_Subset
       DEF TypeOK, MemoryTypeOK, ThreadsTypeOK, LogTypeOK, Logs

(* A log too long for the deleted ids is too long for fewer.               *)
LEMMA FewerDeleted ==
    ASSUME TypeOK, NEW ids \in SUBSET deleted_ids, NEW entries \in Nat, NeedsCompaction(entries)
    PROVE  entries > Cardinality(ids) + CompactSlack
<1>1. Cardinality(ids) \in Nat /\ Cardinality(ids) <= Cardinality(deleted_ids)
  BY CountTypes, FS_Subset, FS_CardinalityType
<1> QED BY <1>1, CountTypes DEF NeedsCompaction

(* Steps that leave the log alone, and are not of a remove.                *)
LEMMA QuietStepKeepsCount ==
    ASSUME IndInv, CountInv, NEW t \in Threads, Free \/ pc[t] \notin Unlocked,
           pc[t] # "append", pc'[t] \notin InRemove,
           UNCHANGED <<logFiles, tombstone_entries_on_disk>>, deleted_ids' \subseteq deleted_ids,
           \A u \in Threads \ {t} : pc'[u] = pc[u]
    PROVE  CountInv'
<1>1. \A u \in Threads : pc'[u] \notin InRemove /\ pc'[u] # "append" /\ pc[u] # "append"
  BY OthersUnlocked DEF InRemove
<1>2. LogInv'
  BY <1>1 DEF CountInv, LogInv, InRemove, logFiles
<1>3. ASSUME LostInv PROVE LostInv'
  <2>1. LoggedOrCounted(deleted_ids, tombstone_entries_on_disk)
    BY <1>1, <1>3 DEF LostInv
  <2>2. CASE NeedsCompaction(tombstone_entries_on_disk)
    <3>1. tombstone_entries_on_disk > Cardinality(deleted_ids') + CompactSlack
      BY <2>2, FewerDeleted, CountTypes DEF IndInv
    <3> QED BY <1>1, <3>1 DEF LostInv, LoggedOrCounted, NeedsCompaction
  <2>3. CASE deleted_ids \subseteq tombstone_file.ids
    BY <1>1, <2>3 DEF LostInv, LoggedOrCounted, logFiles
  <2> QED BY <2>1, <2>2, <2>3 DEF LoggedOrCounted
<1> QED BY <1>2, <1>3 DEF CountInv

LEMMA BeginRemoveKeepsCount ==
    ASSUME IndInv, CountInv, NEW t \in Threads, NEW id \in Ids, BeginRemove(t, id)
    PROVE  CountInv'
<1>1. /\ pc' = [pc EXCEPT ![t] = "append"] /\ pc'[t] = "append" /\ arg'[t].id = id
      /\ UNCHANGED <<logFiles, tombstone_entries_on_disk>> /\ deleted_ids' = deleted_ids \cup {id}
      /\ id \notin deleted_ids
  BY DEF BeginRemove, Begin, IndInv, TypeOK, ThreadsTypeOK
<1>2. /\ \A u \in Threads \ {t} : pc'[u] \notin InRemove
      /\ \A u \in Threads : pc[u] # "append"
  BY <1>1, OthersUnlocked, CountTypes DEF BeginRemove, InRemove, IndInv
<1>3. LogInv'
  BY <1>1, <1>2 DEF CountInv, LogInv, InRemove, logFiles
<1>4. ASSUME LostInv PROVE LostInv'
  <2>1. LoggedOrCounted(deleted_ids, tombstone_entries_on_disk)
    BY <1>2, <1>4 DEF LostInv
  <2>2. Cardinality(deleted_ids') = Cardinality(deleted_ids) + 1 /\ deleted_ids' \ {id} = deleted_ids
    <3>1. IsFiniteSet(deleted_ids)
      BY CountTypes DEF IndInv
    <3>2. Cardinality(deleted_ids \cup {id}) = Cardinality(deleted_ids) + 1
      BY <1>1, <3>1, FS_AddElement
    <3> QED BY <1>1, <3>2
  <2>3. NeedsCompaction(tombstone_entries_on_disk) =>
           tombstone_entries_on_disk + 1 > Cardinality(deleted_ids') + CompactSlack
    BY <2>2, CountTypes DEF NeedsCompaction, IndInv
  <2>4. \/ deleted_ids' \ {id} \subseteq tombstone_file'.ids
        \/ tombstone_entries_on_disk' + 1 > Cardinality(deleted_ids') + CompactSlack
    BY <1>1, <2>1, <2>2, <2>3 DEF LoggedOrCounted, logFiles
  <2> QED BY <1>1, <2>4 DEF LostInv, LoggedOrCounted, NeedsCompaction
<1> QED BY <1>3, <1>4 DEF CountInv

LEMMA AppendKeepsCount ==
    ASSUME IndInv, CountInv, NEW t \in Threads, AppendTombstone(t) \/ AppendFails(t)
    PROVE  CountInv'
<1> DEFINE e == tombstone_entries_on_disk
<1>1. pc[t] = "append" /\ pc[t] \notin Unlocked /\ UNCHANGED <<deleted_ids, tmp_file>> /\ e \in Nat /\ e' \in Nat
  BY CountTypes DEF AppendTombstone, AppendEntry, AppendFails, Unlocked, logFiles, memory, IndInv
<1>2. \A u \in Threads \ {t} : pc[u] \notin InRemove
  BY <1>1, OthersUnlocked
<1>3. \/ pc' = [pc EXCEPT ![t] = "write_tmp"] /\ NeedsCompaction(e')
      \/ pc' = [pc EXCEPT ![t] = "idle"]
  BY DEF AppendTombstone, AppendFails, memory, CompactOrFinish, Goto, Finish
<1>4. \A u \in Threads : /\ pc'[u] \notin {"append", "remove_log", "rename"}
                         /\ pc'[u] \in InRemove => NeedsCompaction(e')
  BY <1>2, <1>3, CountTypes DEF InRemove, IndInv
<1>5. NeedsCompaction(e') => NeedsCompaction(e)'
  BY <1>1 DEF NeedsCompaction
<1>6. tombstone_file'.entries <= e'
  BY CountTypes DEF AppendTombstone, AppendEntry, AppendFails, logFiles, memory, CountInv, LogInv, IndInv
<1>7. LogInv'
  BY <1>4, <1>5, <1>6 DEF LogInv
<1>8. ASSUME "append" \notin FailingCalls, LostInv PROVE LostInv'
  <2>1. /\ tombstone_file'.ids = tombstone_file.ids \cup {arg[t].id} /\ e' = e + 1
    BY <1>8 DEF AppendTombstone, AppendEntry, AppendFails, FaultAt
  <2>2. LoggedOrCounted(deleted_ids \ {arg[t].id}, e + 1)
    BY <1>1, <1>2, <1>8 DEF LostInv, InRemove
  <2>3. deleted_ids' \subseteq tombstone_file'.ids \/ NeedsCompaction(e')
    BY <1>1, <2>1, <2>2 DEF LoggedOrCounted
  <2> QED BY <1>4, <1>5, <2>3 DEF LostInv, LoggedOrCounted
<1> QED BY <1>7, <1>8 DEF CountInv

LEMMA CompactionKeepsCount ==
    ASSUME IndInv, CountInv, NEW t \in Threads, WriteTmp(t) \/ RemoveOldLog(t) \/ RenameTmp(t)
    PROVE  CountInv'
<1> DEFINE e == tombstone_entries_on_disk
<1>1. /\ pc[t] \in InRemove \ {"append"} /\ pc[t] \notin Unlocked /\ UNCHANGED deleted_ids
      /\ pc \in [Threads -> Steps] /\ e \in Nat
  BY CountTypes DEF WriteTmp, RemoveOldLog, RenameTmp, Unlocked, InRemove, memory, IndInv
<1>2. \A u \in Threads \ {t} : pc[u] \notin InRemove
  BY <1>1, OthersUnlocked
<1>3. NeedsCompaction(e) /\ \A u \in Threads : pc[u] # "append"
  BY <1>1, <1>2 DEF CountInv, LogInv, InRemove
<1>4. CASE WriteTmp(t)
  <2>1. /\ tmp_file' = [ids |-> deleted_ids, entries |-> Cardinality(deleted_ids)]
        /\ UNCHANGED <<tombstone_file, e>> /\ pc' = [pc EXCEPT ![t] = "remove_log"]
    BY <1>4 DEF WriteTmp, WriteTmpFile, Goto, memory
  <2>2. \A u \in Threads : pc'[u] # "append"
    BY <1>1, <1>3, <2>1
  <2> QED BY <1>1, <1>3, <2>1, <2>2 DEF CountInv, LogInv, LostInv, LoggedOrCounted, NeedsCompaction
<1>5. CASE RemoveOldLog(t)
  <2>1. /\ tombstone_file'.entries = 0 /\ pc[t] = "remove_log"
        /\ UNCHANGED <<tmp_file, e>> /\ pc' = [pc EXCEPT ![t] = "rename"]
    BY <1>5 DEF RemoveOldLog, RemoveLog, NoFile, Goto, memory
  <2>2. \A u \in Threads : pc'[u] # "append"
    BY <1>1, <1>3, <2>1
  <2>3. LogInv'
    BY <1>1, <1>3, <2>1 DEF CountInv, LogInv, NeedsCompaction
  <2> QED BY <1>1, <1>3, <2>1, <2>2, <2>3 DEF CountInv, LostInv, LoggedOrCounted, NeedsCompaction
<1>6. CASE RenameTmp(t)
  <2>1. /\ tombstone_file' = tmp_file /\ pc[t] = "rename" /\ e' = Cardinality(deleted_ids)
        /\ pc' = [pc EXCEPT ![t] = "idle"]
    BY <1>6 DEF RenameTmp, RenameTmpFile, Finish
  <2>2. tombstone_file'.ids = deleted_ids' /\ tombstone_file'.entries = e'
    BY <1>1, <2>1 DEF CountInv, LogInv
  <2>3. \A u \in Threads : pc'[u] \notin InRemove /\ pc'[u] # "append"
    BY <1>1, <1>2, <2>1 DEF InRemove
  <2>4. e' \in Nat
    BY <2>1, CountTypes DEF IndInv
  <2> QED BY <2>2, <2>3, <2>4 DEF CountInv, LogInv, LostInv, LoggedOrCounted, InRemove
<1> QED BY <1>4, <1>5, <1>6

LEMMA NextKeepsCount == IndInv /\ CountInv /\ [Next]_vars => CountInv'
<1> SUFFICES ASSUME IndInv, CountInv, [Next]_vars PROVE CountInv'
  OBVIOUS
<1> USE DEF IndInv
<1>1. ASSUME NEW t \in Threads, NEW id \in Ids, NEW vec \in Vecs,
             Free, pc[t] \in Unlocked, EnterInsert(t, id, vec)
      PROVE  CountInv'
  <2>1. /\ UNCHANGED <<logFiles, tombstone_entries_on_disk>> /\ deleted_ids' = deleted_ids \ {id}
        /\ \E step \in {"copy", "publish", "idle"} : pc' = [pc EXCEPT ![t] = step]
    BY <1>1 DEF EnterInsert, BeginReinsert, BeginFresh, DropInsert, Begin, Finish
  <2>2. pc'[t] \notin InRemove /\ \A u \in Threads \ {t} : pc'[u] = pc[u]
    BY <2>1, CountTypes DEF InRemove
  <2>3. pc[t] # "append"
    BY <1>1 DEF Unlocked
  <2> QED BY <1>1, <2>1, <2>2, <2>3, QuietStepKeepsCount
<1>2. ASSUME NEW t \in Threads, Call(t) \/ InsertTakenId(t) PROVE CountInv'
  <2>1. CASE \E id \in Ids, vec \in Vecs : Insert(t, id, vec)
    BY <1>1, <2>1 DEF Insert, Unlocked
  <2>2. CASE InsertTakenId(t)
    <3>1. arg[t].id \in Ids /\ arg[t].vec \in Vecs
      BY <2>2 DEF InsertTakenId, ArgInv, ArgOK
    <3> QED BY <1>1, <2>2, <3>1 DEF InsertTakenId, Unlocked
  <2>3. CASE \E id \in Ids, vec \in Vecs : BeginUpdate(t, id, vec)
    BY <2>3, CountTypes, QuietStepKeepsCount DEF BeginUpdate, Begin, InRemove, memory
  <2>4. CASE \E vec \in Vecs : TakeAutoId(t, vec)
    BY <2>4, CountTypes, QuietStepKeepsCount DEF TakeAutoId, InRemove, memory
  <2>5. CASE \E id \in Ids : BeginRemove(t, id)
    BY <2>5, BeginRemoveKeepsCount
  <2> QED BY <1>2, <2>1, <2>2, <2>3, <2>4, <2>5 DEF Call
<1>3. ASSUME NEW t \in Threads, InsertStep(t) \/ FinishUpdate(t) PROVE CountInv'
  <2>1. /\ UNCHANGED <<logFiles, deleted_ids, tombstone_entries_on_disk>>
        /\ \E step \in {"relink", "kmeans", "initialize", "list", "index", "idle"} :
              pc' = [pc EXCEPT ![t] = step]
        /\ pc[t] \in InInsert \cup {"overwrite"}
    BY <1>3 DEF InsertStep, CopyIntoOldSlot, RelinkOldSlot, Publish, RunKMeans, FinishUpdate,
       InitializeClusters, ListNewSlot, IndexNewSlot, Goto, Finish, AfterPublish, memory, InInsert
  <2>2. pc'[t] \notin InRemove /\ \A u \in Threads \ {t} : pc'[u] = pc[u]
    BY <2>1, CountTypes DEF InRemove
  <2>3. pc[t] \notin Unlocked /\ pc[t] # "append"
    BY <2>1 DEF InInsert, Unlocked
  <2> QED BY <2>1, <2>2, <2>3, QuietStepKeepsCount
<1>4. ASSUME NEW t \in Threads, CompactionFails(t) \/ RemoveOldLogThrows(t) PROVE CountInv'
  <2>1. /\ UNCHANGED <<logFiles, memory>> /\ pc' = [pc EXCEPT ![t] = "idle"]
        /\ pc[t] \in {"write_tmp", "remove_log", "rename"}
    BY <1>4 DEF CompactionFails, RemoveOldLogThrows, Finish
  <2>2. pc'[t] \notin InRemove /\ \A u \in Threads \ {t} : pc'[u] = pc[u]
    BY <2>1, CountTypes DEF InRemove
  <2>3. pc[t] \notin Unlocked /\ pc[t] # "append"
    BY <2>1 DEF Unlocked
  <2> QED BY <2>1, <2>2, <2>3, QuietStepKeepsCount DEF memory
<1>5. CASE Restart
  <2>1. /\ deleted_ids' = tombstone_file.ids /\ UNCHANGED tombstone_file
        /\ tombstone_entries_on_disk' = tombstone_file.entries
        /\ \A t \in Threads : pc'[t] = "idle"
    BY <1>5 DEF Restart, logFiles
  <2>2. tombstone_file.entries \in Nat
    BY CountTypes
  <2> QED BY <2>1, <2>2 DEF CountInv, LogInv, LostInv, LoggedOrCounted, InRemove
<1>6. CASE UNCHANGED vars
  BY <1>6 DEF vars, logFiles, memory, threads, CountInv, LogInv, LostInv, LoggedOrCounted,
     NeedsCompaction
<1> QED BY <1>2, <1>3, <1>4, <1>5, <1>6, AppendKeepsCount, CompactionKeepsCount
        DEF Next, LockedStep, RemoveStep, RemoveFault

LEMMA CountInvariance == Spec => [](IndInv /\ CountInv)
BY InitCountInv, NextKeepsCount, Invariance, PTL DEF Spec

(* As long as tombstones can be appended, whatever calls of a compaction   *)
(* fail and whenever the process dies: if the log has lost a deletion that *)
(* memory knows, the engine's count of the log is so high that the next    *)
(* deletion writes the log anew (tombstone_entries_on_disk is only reset   *)
(* by a compaction that succeeded).                                        *)
THEOREM LostTombstonesAreCounted ==
    ASSUME "append" \notin FailingCalls
    PROVE  Spec => []LostTombstonesForceCompaction
<1>1. IndInv /\ CountInv => LostTombstonesForceCompaction
  <2> SUFFICES ASSUME IndInv, CountInv, Free PROVE LoggedOrCounted(deleted_ids, tombstone_entries_on_disk)
    BY DEF LostTombstonesForceCompaction, LoggedOrCounted
  <2>1. \A t \in Threads : pc[t] # "append"
    BY ThreadsAssumption DEF IndInv, LockInv, Free, Unlocked
  <2> QED BY <2>1 DEF CountInv, LostInv
<1> QED BY <1>1, CountInvariance, PTL

(* A step of one thread leaves the others where they are.                  *)
LEMMA OthersStay ==
    ASSUME IndInv, NEW t \in Threads,
           Call(t) \/ InsertTakenId(t) \/ LockedStep(t) \/ RemoveFault(t)
    PROVE  \A u \in Threads \ {t} : pc'[u] = pc[u] /\ arg'[u] = arg[u]
<1>1. \E step : pc' = [pc EXCEPT ![t] = step]
  <2>1. CASE Call(t) \/ InsertTakenId(t)
    BY <2>1 DEF Call, Insert, InsertTakenId, EnterInsert, BeginReinsert, BeginFresh, DropInsert,
       BeginUpdate, TakeAutoId, BeginRemove, Begin, Finish
  <2>2. CASE LockedStep(t)
    BY <2>2 DEF LockedStep, InsertStep, CopyIntoOldSlot, RelinkOldSlot, Publish, RunKMeans,
       InitializeClusters, ListNewSlot, IndexNewSlot, FinishUpdate, RemoveStep,
       AppendTombstone, WriteTmp, RemoveOldLog, RenameTmp, CompactOrFinish, Goto, Finish
  <2>3. CASE RemoveFault(t)
    BY <2>3 DEF RemoveFault, AppendFails, CompactionFails, RemoveOldLogThrows, CompactOrFinish, Goto, Finish
  <2> QED BY <2>1, <2>2, <2>3
<1>2. arg' = arg \/ \E value : arg' = [arg EXCEPT ![t] = value]
  <2>1. CASE Call(t) \/ InsertTakenId(t)
    BY <2>1 DEF Call, Insert, InsertTakenId, EnterInsert, BeginReinsert, BeginFresh, DropInsert,
       BeginUpdate, TakeAutoId, BeginRemove, Begin, Finish
  <2>2. CASE LockedStep(t)
    BY <2>2 DEF LockedStep, InsertStep, CopyIntoOldSlot, RelinkOldSlot, Publish, RunKMeans,
       InitializeClusters, ListNewSlot, IndexNewSlot, FinishUpdate, RemoveStep,
       AppendTombstone, WriteTmp, RemoveOldLog, RenameTmp, CompactOrFinish, Goto, Finish
  <2>3. CASE RemoveFault(t)
    BY <2>3 DEF RemoveFault, AppendFails, CompactionFails, RemoveOldLogThrows, CompactOrFinish, Goto, Finish
  <2> QED BY <2>1, <2>2, <2>3
<1> QED BY <1>1, <1>2, CountTypes DEF IndInv

(* Whichever calls failed before, and after any crash, the log is short    *)
(* again when a remove whose own calls succeeded is answered.              *)
THEOREM CompactionKeepsUp == Spec => RemoveBoundsLog
<1>1. ASSUME IndInv, CountInv, [Next]_vars, NEW t \in Threads, pc[t] \in InRemove, pc'[t] = "idle",
             restarts' = restarts, faults' = faults
      PROVE  tombstone_file'.entries <= Cardinality(deleted_ids') + CompactSlack
  <2>1. restarts \in Nat /\ faults \in Nat
    BY <1>1, BoundsAssumption DEF IndInv, TypeOK
  <2>2. ~Restart /\ pc'[t] # pc[t]
    BY <1>1, <2>1 DEF Restart, InRemove
  <2>3. Call(t) \/ InsertTakenId(t) \/ LockedStep(t) \/ RemoveFault(t)
    BY <1>1, <2>2, OthersStay DEF Next, vars, threads
  <2>4. AppendTombstone(t) \/ RenameTmp(t)
    <3>1. ~Call(t) /\ ~InsertTakenId(t)
      BY <1>1 DEF Call, Insert, BeginUpdate, TakeAutoId, BeginRemove, InsertTakenId, InRemove
    <3>2. ~InsertStep(t) /\ ~FinishUpdate(t)
      BY <1>1 DEF InsertStep, CopyIntoOldSlot, RelinkOldSlot, Publish, RunKMeans,
         InitializeClusters, ListNewSlot, IndexNewSlot, FinishUpdate, InRemove
    <3>3. ~RemoveFault(t)
      BY <1>1, <2>1 DEF RemoveFault, AppendFails, CompactionFails, RemoveOldLogThrows, FaultAt
    <3>4. ~WriteTmp(t) /\ ~RemoveOldLog(t)
      BY <1>1, CountTypes DEF WriteTmp, RemoveOldLog, Goto, IndInv
    <3> QED BY <2>3, <3>1, <3>2, <3>3, <3>4 DEF LockedStep, RemoveStep
  <2>5. CASE AppendTombstone(t)
    <3>1. ~NeedsCompaction(tombstone_entries_on_disk + 1) /\ deleted_ids' = deleted_ids
      BY <1>1, <2>5, CountTypes DEF AppendTombstone, CompactOrFinish, Goto, IndInv
    <3>2. tombstone_file'.entries = tombstone_file.entries + 1
      BY <2>5 DEF AppendTombstone, AppendEntry
    <3> QED BY <1>1, <3>1, <3>2, CountTypes DEF NeedsCompaction, CountInv, LogInv, IndInv
  <2>6. CASE RenameTmp(t)
    BY <1>1, <2>6, CountTypes DEF RenameTmp, RenameTmpFile, CountInv, LogInv, IndInv
  <2> QED BY <2>4, <2>5, <2>6
<1>2. IndInv /\ CountInv /\ [Next]_vars =>
        [\A t \in Threads : pc[t] \in InRemove /\ pc'[t] = "idle"
            /\ restarts' = restarts /\ faults' = faults
            => tombstone_file'.entries <= Cardinality(deleted_ids') + CompactSlack]_vars
  BY <1>1
<1> QED BY <1>2, CountInvariance, PTL DEF Spec, RemoveBoundsLog

-----------------------------------------------------------------------------
(* The lists of the clusters.  kmeans runs before the clusters count as    *)
(* initialized, and no insert that reached the threshold gets to its end   *)
(* without it; once they are, every slot in use that is not flagged is in  *)
(* the list of the cluster the file has for it, but for the slot that is   *)
(* being listed.                                                           *)

Listed(i) == cluster_index[cluster_block[i]][i] > 0

ListInv ==
    /\ \A t \in Threads :
          /\ pc[t] \in {"kmeans", "initialize"} => ~is_initialized
          /\ pc[t] = "list" => is_initialized
          /\ pc[t] = "index" /\ vector_count >= KMeansThreshold => is_initialized
    /\ is_initialized => \A i \in UsedSlots :
          deleted_flags[i] \/ Listed(i) \/ \E t \in Threads : pc[t] = "list" /\ arg[t].slot = i

LEMMA InitListInv == Init => ListInv
BY DEF Init, CreateFile, ListInv

LEMMA ListTypes ==
    ASSUME TypeOK
    PROVE  /\ vector_count \in Nat /\ UsedSlots \subseteq Slots
           /\ cluster_block \in [Slots -> Clusters] /\ deleted_flags \in [Slots -> BOOLEAN]
           /\ cluster_index \in [Clusters -> [Slots -> Nat]]
BY CapacityAssumption DEF TypeOK, StorageTypeOK, MemoryTypeOK, UsedSlots, Slots

LEMMA PushBackMeans ==
    ASSUME TypeOK, NEW c \in Clusters, NEW i \in Slots
    PROVE  /\ \A d \in Clusters, j \in Slots :
                 PushBack(c, i)[d][j] = IF d = c /\ j = i THEN cluster_index[d][j] + 1
                                        ELSE cluster_index[d][j]
           /\ \A d \in Clusters, j \in Slots : PushBack(c, i)[d][j] >= cluster_index[d][j]
           /\ PushBack(c, i)[c][i] > 0
<1>1. cluster_index \in [Clusters -> [Slots -> Nat]]
  BY ListTypes
<1>2. \A d \in Clusters, j \in Slots :
         PushBack(c, i)[d][j] = IF d = c /\ j = i THEN cluster_index[d][j] + 1
                                ELSE cluster_index[d][j]
  BY <1>1 DEF PushBack
<1>3. \A d \in Clusters, j \in Slots : cluster_index[d][j] \in Nat
  BY <1>1
<1> QED BY <1>2, <1>3

(* Steps that neither list nor unlist a slot in use, nor bring a flagged   *)
(* one back.                                                               *)
LEMMA QuietStepKeepsLists ==
    ASSUME IndInv, ListInv, NEW t \in Threads,
           pc[t] # "list", pc'[t] \notin {"kmeans", "initialize", "list", "index"},
           UNCHANGED <<vector_count, is_initialized, cluster_index>>,
           \A i \in UsedSlots : /\ cluster_block'[i] = cluster_block[i]
                                /\ deleted_flags[i] => deleted_flags'[i],
           \A u \in Threads \ {t} : pc'[u] = pc[u] /\ arg'[u] = arg[u]
    PROVE  ListInv'
<1>1. UsedSlots' = UsedSlots
  BY DEF UsedSlots
<1>2. \A u \in Threads : pc[u] = "list" => u # t
  OBVIOUS
<1> QED BY <1>1, <1>2 DEF ListInv, Listed

LEMMA EnterInsertKeepsLists ==
    ASSUME IndInv, ListInv, NEW t \in Threads, Free, pc[t] \in Unlocked,
           NEW id \in Ids, NEW vec \in Vecs, EnterInsert(t, id, vec)
    PROVE  ListInv'
<1>1. /\ \E step \in {"copy", "publish", "idle"} : pc' = [pc EXCEPT ![t] = step]
      /\ \E value : arg' = [arg EXCEPT ![t] = value]
      /\ UNCHANGED <<vector_count, is_initialized, cluster_index>>
  BY DEF EnterInsert, BeginReinsert, BeginFresh, DropInsert, Begin, Finish, CopyVector, FillSlot, dbFile
<1>2. \A i \in UsedSlots : /\ cluster_block'[i] = cluster_block[i]
                           /\ deleted_flags[i] => deleted_flags'[i]
  <2>1. CASE BeginReinsert(t, id, vec) \/ DropInsert(t, id)
    BY <2>1 DEF BeginReinsert, DropInsert, CopyVector, dbFile
  <2>2. CASE BeginFresh(t, id, vec)
    <3>1. \A i \in UsedSlots : i # vector_count
      BY ListTypes DEF UsedSlots, IndInv
    <3> QED BY <2>2, <3>1, ListTypes DEF BeginFresh, FillSlot, Flag, IndInv
  <2> QED BY <2>1, <2>2 DEF EnterInsert
<1>3. /\ pc[t] # "list" /\ pc'[t] \notin {"kmeans", "initialize", "list", "index"}
      /\ \A u \in Threads \ {t} : pc'[u] = pc[u] /\ arg'[u] = arg[u]
  BY <1>1, CountTypes DEF Unlocked, IndInv
<1> QED BY <1>1, <1>2, <1>3, QuietStepKeepsLists

LEMMA RelinkKeepsLists ==
    ASSUME IndInv, ListInv, NEW t \in Threads, RelinkOldSlot(t)
    PROVE  ListInv'
<1> USE DEF IndInv
<1> DEFINE slot == arg[t].slot
<1>1. /\ slot \in UsedSlots /\ slot \in Slots /\ pc[t] = "relink"
      /\ UNCHANGED <<vector_count, is_initialized>>
  BY ListTypes DEF RelinkOldSlot, SetCluster, ArgInv, ArgOK, InInsert, SlotsOf
<1>2. PICK c \in Clusters :
         /\ cluster_block' = [cluster_block EXCEPT ![slot] = c]
         /\ cluster_index' = IF is_initialized THEN PushBack(c, slot) ELSE cluster_index
  <2>1. NearestClusters \subseteq Clusters
    BY ClustersAssumption DEF NearestClusters, Clusters
  <2>2. PICK c \in NearestClusters :
           /\ SetCluster(slot, c)
           /\ cluster_index' = IF is_initialized THEN PushBack(c, slot) ELSE cluster_index
    BY DEF RelinkOldSlot
  <2>3. cluster_block' = [cluster_block EXCEPT ![slot] = c]
    BY <2>2 DEF SetCluster
  <2> QED BY <2>1, <2>2, <2>3
<1>3. pc' = [pc EXCEPT ![t] = "idle"] /\ deleted_flags' = [deleted_flags EXCEPT ![slot] = FALSE]
  BY DEF RelinkOldSlot, Finish, Flag
<1>4. \A u \in Threads \ {t} : pc'[u] = pc[u] /\ arg'[u] = arg[u]
  BY <1>3 DEF RelinkOldSlot, Finish, TypeOK, ThreadsTypeOK
<1>5. pc'[t] = "idle"
  BY <1>3, CountTypes
<1> HIDE DEF slot
<1>6. ASSUME is_initialized', NEW i \in UsedSlots
      PROVE  deleted_flags'[i] \/ Listed(i)' \/ \E u \in Threads : pc'[u] = "list" /\ arg'[u].slot = i
  <2>1. cluster_index' = PushBack(c, slot) /\ is_initialized /\ i \in Slots
    BY <1>1, <1>2, <1>6, ListTypes
  <2>2. CASE i = slot
    <3>1. cluster_block'[i] = c
      BY <1>1, <1>2, <2>2, ListTypes
    <3>2. PushBack(c, slot)[c][slot] > 0
      BY <1>1, PushBackMeans
    <3> QED BY <2>1, <2>2, <3>1, <3>2 DEF Listed
  <2>3. CASE i # slot
    <3>1. cluster_block'[i] = cluster_block[i] /\ deleted_flags'[i] = deleted_flags[i]
          /\ cluster_block[i] \in Clusters
      BY <1>2, <1>3, <2>1, <2>3, ListTypes
    <3>2. cluster_index'[cluster_block[i]][i] = cluster_index[cluster_block[i]][i]
      BY <1>1, <2>1, <2>3, <3>1, PushBackMeans
    <3> QED BY <1>1, <1>4, <2>1, <3>1, <3>2 DEF ListInv, Listed
  <2> QED BY <2>2, <2>3
<1> QED BY <1>1, <1>4, <1>5, <1>6 DEF ListInv, UsedSlots

LEMMA PublishKeepsLists ==
    ASSUME IndInv, ListInv, NEW t \in Threads, Publish(t)
    PROVE  ListInv'
<1> USE DEF IndInv
<1>1. /\ vector_count' = vector_count + 1 /\ pc[t] = "publish" /\ arg[t].slot = vector_count
      /\ UNCHANGED <<is_initialized, cluster_block, cluster_index, deleted_flags, arg>>
      /\ pc' = [pc EXCEPT ![t] = AfterPublish]
  BY DEF Publish, PublishSlot, Goto, memory, ArgInv, ArgOK
<1>2. pc'[t] = AfterPublish /\ \A u \in Threads \ {t} : pc'[u] = pc[u]
  BY <1>1, CountTypes
<1>3. \A u \in Threads \ {t} : pc[u] \notin {"kmeans", "initialize", "list", "index"}
  BY <1>1, OthersUnlocked DEF Unlocked
<1>4. UsedSlots' = UsedSlots \cup {vector_count}
  <2>1. vector_count \in Nat /\ vector_count' = vector_count + 1
    BY <1>1, ListTypes
  <2>2. 0 .. (vector_count + 1) - 1 = (0 .. vector_count - 1) \cup {vector_count}
    BY <2>1
  <2> QED BY <2>1, <2>2 DEF UsedSlots
<1>5. KMeansThreshold \in Nat /\ vector_count \in Nat
  BY KMeansAssumption, ListTypes
<1>6. is_initialized => pc'[t] = "list"
  BY <1>2 DEF AfterPublish
<1>7. /\ pc'[t] \in {"kmeans", "initialize"} => ~is_initialized
      /\ pc'[t] = "list" => is_initialized
      /\ pc'[t] = "index" => vector_count + 1 < KMeansThreshold
  BY <1>2, <1>5 DEF AfterPublish
<1> QED BY <1>1, <1>2, <1>3, <1>4, <1>5, <1>6, <1>7 DEF ListInv, Listed

LEMMA KMeansKeepsLists ==
    ASSUME IndInv, ListInv, NEW t \in Threads, RunKMeans(t) \/ InitializeClusters(t)
    PROVE  ListInv'
<1> USE DEF IndInv
<1>1. pc[t] \in {"kmeans", "initialize"} /\ ~is_initialized /\ UNCHANGED <<vector_count, arg, deleted_flags>>
  BY DEF RunKMeans, InitializeClusters, AssignClusters, SetClusterInitialized, Goto, memory, ListInv
<1>2. \A u \in Threads \ {t} : pc[u] \notin {"kmeans", "initialize", "list", "index"}
  BY <1>1, OthersUnlocked DEF Unlocked
<1>3. CASE RunKMeans(t)
  <2>1. UNCHANGED is_initialized /\ pc' = [pc EXCEPT ![t] = "initialize"]
    BY <1>3 DEF RunKMeans, AssignClusters, Goto
  <2> QED BY <1>1, <1>2, <2>1, CountTypes DEF ListInv
<1>4. CASE InitializeClusters(t)
  <2>1. /\ is_initialized' = TRUE /\ UNCHANGED cluster_block /\ pc' = [pc EXCEPT ![t] = "index"]
        /\ cluster_index' = ListsOf(cluster_block, [i \in Slots |-> i \in UsedSlots /\ ~deleted_flags[i]])
    BY <1>4 DEF InitializeClusters, SetClusterInitialized, Goto
  <2>2. ASSUME NEW i \in UsedSlots, ~deleted_flags[i]
        PROVE  cluster_index'[cluster_block[i]][i] = 1
    BY <2>1, <2>2, ListTypes DEF ListsOf
  <2>3. \A i \in UsedSlots : deleted_flags[i] \/ Listed(i)'
    BY <2>1, <2>2 DEF Listed
  <2> QED BY <1>1, <1>2, <2>1, <2>3, CountTypes DEF ListInv, UsedSlots
<1> QED BY <1>3, <1>4

LEMMA ListNewSlotKeepsLists ==
    ASSUME IndInv, ListInv, NEW t \in Threads, ListNewSlot(t)
    PROVE  ListInv'
<1> USE DEF IndInv
<1> DEFINE slot == arg[t].slot
<1>1. /\ pc[t] = "list" /\ is_initialized /\ UNCHANGED <<vector_count, is_initialized, cluster_block, deleted_flags, arg>>
      /\ cluster_index' = PushBack(cluster_block[slot], slot) /\ pc' = [pc EXCEPT ![t] = "index"]
      /\ slot \in Slots /\ cluster_block[slot] \in Clusters
  BY ListTypes DEF ListNewSlot, Goto, dbFile, ListInv, ArgInv, ArgOK, InInsert, SlotsOf
<1>2. \A u \in Threads \ {t} : pc'[u] = pc[u] /\ pc[u] \notin {"kmeans", "initialize", "list", "index"}
  BY <1>1, OthersUnlocked, CountTypes DEF Unlocked
<1>3. ASSUME NEW i \in UsedSlots PROVE deleted_flags[i] \/ Listed(i)'
  <2>1. i \in Slots /\ cluster_block[i] \in Clusters
    BY ListTypes
  <2>2. i = slot \/ deleted_flags[i] \/ cluster_index[cluster_block[i]][i] > 0
    BY <1>1, <1>2 DEF ListInv, Listed
  <2>3. cluster_index'[cluster_block[i]][i] >= cluster_index[cluster_block[i]][i]
    BY <1>1, <2>1, PushBackMeans
  <2>4. cluster_index'[cluster_block[slot]][slot] > 0
    BY <1>1, PushBackMeans
  <2>5. cluster_index[cluster_block[i]][i] \in Nat /\ cluster_index'[cluster_block[i]][i] \in Nat
    BY <1>1, <2>1, ListTypes, PushBackMeans
  <2> HIDE DEF slot
  <2> QED BY <1>1, <2>2, <2>3, <2>4, <2>5 DEF Listed
<1> HIDE DEF slot
<1>4. \A u \in Threads : pc'[u] \notin {"kmeans", "initialize", "list"}
  BY <1>1, <1>2, CountTypes
<1> QED BY <1>1, <1>3, <1>4 DEF ListInv, UsedSlots

(* The constructor lists the slots it keeps, and flags the others.         *)
LEMMA RestartKeepsLists ==
    ASSUME IndInv, Restart
    PROVE  ListInv'
<1> USE DEF IndInv
<1>1. /\ UNCHANGED <<vector_count, cluster_block, is_initialized>>
      /\ deleted_flags' = [i \in Slots |-> i \in UsedSlots \ KeptSlots]
      /\ \A t \in Threads : pc'[t] = "idle"
  BY DEF Restart, dbFile
<1>2. ASSUME is_initialized, NEW i \in UsedSlots
      PROVE  deleted_flags'[i] \/ Listed(i)'
  <2>1. i \in Slots /\ cluster_block[i] \in Clusters
    BY ListTypes
  <2>2. cluster_index' = ListsOf(cluster_block, [j \in Slots |-> j \in KeptSlots])
    BY <1>2 DEF Restart
  <2>3. i \in KeptSlots => cluster_index'[cluster_block[i]][i] = 1
    BY <2>1, <2>2 DEF ListsOf
  <2>4. i \in KeptSlots => Listed(i)'
    BY <1>1, <2>3 DEF Listed
  <2> QED BY <1>1, <1>2, <2>1, <2>4
<1> QED BY <1>1, <1>2 DEF ListInv, UsedSlots

LEMMA QuietActionsKeepLists ==
    ASSUME IndInv, ListInv, NEW t \in Threads,
           \/ \E id \in Ids, vec \in Vecs : BeginUpdate(t, id, vec)
           \/ \E vec \in Vecs : TakeAutoId(t, vec)
           \/ \E id \in Ids : BeginRemove(t, id)
           \/ CopyIntoOldSlot(t) \/ IndexNewSlot(t) \/ FinishUpdate(t)
           \/ RemoveStep(t) \/ RemoveFault(t)
    PROVE  ListInv'
<1> USE DEF IndInv
<1>1. \A u \in Threads \ {t} : pc'[u] = pc[u] /\ arg'[u] = arg[u]
  BY OthersStay DEF Call, LockedStep, InsertStep
<1>2. UNCHANGED <<vector_count, is_initialized, cluster_block, cluster_index>>
  BY DEF BeginUpdate, TakeAutoId, TakeNextId, BeginRemove, CopyIntoOldSlot, IndexNewSlot, FinishUpdate,
     RemoveStep, AppendTombstone, WriteTmp, RemoveOldLog, RenameTmp, RemoveFault, AppendFails,
     CompactionFails, RemoveOldLogThrows, CopyVector, dbFile, memory
<1>3. deleted_flags' = deleted_flags \/ \E i \in Slots : deleted_flags' = [deleted_flags EXCEPT ![i] = TRUE]
  <2>1. CASE \E id \in Ids : BeginRemove(t, id)
    BY <2>1 DEF BeginRemove, Flag, Live, TypeOK, MemoryTypeOK
  <2> QED BY <2>1 DEF BeginUpdate, TakeAutoId, CopyIntoOldSlot, IndexNewSlot, FinishUpdate,
     RemoveStep, AppendTombstone, WriteTmp, RemoveOldLog, RenameTmp, RemoveFault, AppendFails,
     CompactionFails, RemoveOldLogThrows, memory
<1>4. \A i \in UsedSlots : deleted_flags[i] => deleted_flags'[i]
  BY <1>3, ListTypes
<1>5. pc[t] # "list" /\
      \E step \in {"overwrite", "id_taken", "append", "relink", "idle", "write_tmp", "remove_log", "rename"} :
         pc' = [pc EXCEPT ![t] = step]
  BY DEF BeginUpdate, TakeAutoId, BeginRemove, CopyIntoOldSlot, IndexNewSlot, FinishUpdate,
     RemoveStep, AppendTombstone, WriteTmp, RemoveOldLog, RenameTmp, RemoveFault, AppendFails,
     CompactionFails, RemoveOldLogThrows, CompactOrFinish, Goto, Finish, Begin, FaultAt
<1>6. pc'[t] \notin {"kmeans", "initialize", "list", "index"}
  BY <1>5, CountTypes
<1> QED BY <1>1, <1>2, <1>4, <1>5, <1>6, QuietStepKeepsLists

LEMMA NextKeepsLists == IndInv /\ ListInv /\ [Next]_vars => ListInv'
<1> SUFFICES ASSUME IndInv, ListInv, [Next]_vars PROVE ListInv'
  OBVIOUS
<1>1. CASE \E t \in Threads : Call(t)
  <2>1. PICK t \in Threads : Call(t)
    BY <1>1
  <2>2. CASE \E id \in Ids, vec \in Vecs : Insert(t, id, vec)
    BY <2>2, EnterInsertKeepsLists DEF Insert, Unlocked
  <2> QED BY <2>1, <2>2, QuietActionsKeepLists DEF Call
<1>2. CASE \E t \in Threads : InsertTakenId(t)
  <2>1. PICK t \in Threads : InsertTakenId(t)
    BY <1>2
  <2>2. arg[t].id \in Ids /\ arg[t].vec \in Vecs
    BY <2>1 DEF InsertTakenId, IndInv, ArgInv, ArgOK
  <2> QED BY <2>1, <2>2, EnterInsertKeepsLists DEF InsertTakenId, Unlocked
<1>3. CASE \E t \in Threads : LockedStep(t) \/ RemoveFault(t)
  BY <1>3, QuietActionsKeepLists, RelinkKeepsLists, PublishKeepsLists, KMeansKeepsLists,
     ListNewSlotKeepsLists DEF LockedStep, InsertStep
<1>4. CASE Restart
  BY <1>4, RestartKeepsLists
<1>5. CASE UNCHANGED vars
  BY <1>5 DEF vars, dbFile, memory, threads, ListInv, Listed, UsedSlots
<1> QED BY <1>1, <1>2, <1>3, <1>4, <1>5 DEF Next

LEMMA ListInvariance == Spec => [](IndInv /\ ListInv)
BY InitListInv, NextKeepsLists, Invariance, PTL DEF Spec

(* Whenever nobody is writing and centroids exist, every slot a search can *)
(* meet is in the list of the cluster the file records for it: across      *)
(* kmeans cut short, slots written again, and restarts.                    *)
THEOREM ListsMatch == Spec => []ListsMatchFile
<1>1. IndInv /\ ListInv => ListsMatchFile
  BY ThreadsAssumption DEF IndInv, LockInv, Free, Unlocked, ListInv, Listed, ListsMatchFile, Candidates
<1> QED BY <1>1, ListInvariance, PTL

(* An insert that finds the threshold reached leaves the clusters computed *)
(* although the process may have died in an earlier kmeans.                *)
THEOREM KMeansRuns == Spec => KMeansIsNotSkipped
<1>1. IndInv /\ ListInv /\ [Next]_vars =>
        [\A t \in Threads : pc[t] = "index" /\ pc'[t] = "idle" /\ restarts' = restarts
          /\ vector_count >= KMeansThreshold => is_initialized]_vars
  BY DEF ListInv
<1> QED BY <1>1, ListInvariance, PTL DEF Spec, KMeansIsNotSkipped

=============================================================================
