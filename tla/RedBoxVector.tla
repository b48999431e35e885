----------------------------- MODULE RedBoxVector -----------------------------
(***************************************************************************)
(* CoreEngine::RedBoxVector with the IVF index: one open database, the     *)
(* threads that call it, and the crash or stop and restart of its process. *)
(*                                                                         *)
(* insert, remove and update hold rw_mutex exclusively from their first    *)
(* statement to their last, so between threads they are atomic; but what   *)
(* they store in the mapped file and in the tombstone log stays when the   *)
(* process dies between two of their statements.  So an operation is one   *)
(* step for each store to a file, in the order of the code, and Restart is *)
(* possible between any two.  What an operation changes in memory only is  *)
(* part of the neighbouring file step: nobody sees memory while the lock   *)
(* is held, and a restart forgets it.  insert_auto takes the lock twice.   *)
(*                                                                         *)
(* The distance computations are abstracted: the nearest centroid of a     *)
(* vector may be any.  search and search_N change nothing; the slots they  *)
(* consider are the operator Candidates.                                   *)
(***************************************************************************)
EXTENDS StorageManager, TombstoneLog

CONSTANTS
    Threads, NoThread,   \* callers, and nobody
    KMeansThreshold,     \* KMEANS_INIT_THRESHOLD
    CompactSlack,        \* TOMBSTONE_COMPACT_SLACK
    Missing,             \* there is no vector under this id
    Unsure,              \* an operation on this id was begun and not answered
    Dropped,             \* an insert was answered but stored nothing
    InsertLive,          \* do clients insert ids that are in use?
    Reinsert,            \* do clients insert ids they have deleted?
    MaxRestarts,         \* bound on restarts
    FailingCalls,        \* the file operations of remove that may fail
    MaxFaults,           \* bound on failing file operations
    MaxListed            \* bound on the times one slot is in one cluster list

ASSUME ThreadsAssumption == NoThread \notin Threads
ASSUME KMeansAssumption == KMeansThreshold \in Nat \ {0}
ASSUME SlackAssumption == CompactSlack \in Nat
ASSUME AnswersAssumption ==
    /\ {Missing, Unsure, Dropped} \cap (Vecs \cup {Garbage}) = {}
    /\ Missing # Unsure /\ Missing # Dropped /\ Unsure # Dropped
ASSUME DisciplineAssumption == InsertLive \in BOOLEAN /\ Reinsert \in BOOLEAN
ASSUME FailuresAssumption ==
    FailingCalls \subseteq {"append", "write_tmp", "remove_log", "rename"}
ASSUME BoundsAssumption ==
    MaxRestarts \in Nat /\ MaxFaults \in Nat /\ MaxListed \in Nat

NoSlot == -1

VARIABLES
    \* memory of the open database
    deleted_ids,                \* ids deleted and not inserted again
    deleted_flags,              \* one flag per slot
    id_to_index,                \* slot of each id that is in use
    cluster_index,              \* how often each cluster's list has each slot
    tombstone_entries_on_disk,  \* length of the log, as the engine counts it
    \* the threads
    rw_mutex,                   \* the thread holding it exclusively
    pc,                         \* the next step of each thread's operation
    arg,                        \* what the operation is about
    \* history
    acked,                      \* what the callers know about each id
    restarts, faults

memory  == <<deleted_ids, deleted_flags, id_to_index, cluster_index,
             tombstone_entries_on_disk>>
threads == <<rw_mutex, pc, arg>>
history == <<acked, restarts, faults>>
vars    == <<dbFile, logFiles, memory, threads, history>>

NoArg == [id |-> NoId, vec |-> Garbage, slot |-> NoSlot]

(* Between its two lock scopes insert_auto is at "id_taken"; at the other  *)
(* steps but "idle" a thread holds the lock.                               *)
Unlocked == {"idle", "id_taken"}
InInsert == {"copy", "relink", "publish", "kmeans", "initialize", "list", "index"}
InRemove == {"append", "write_tmp", "remove_log", "rename"}
Steps    == Unlocked \cup InInsert \cup InRemove \cup {"overwrite"}

MemoryTypeOK ==
    /\ deleted_ids \subseteq Ids
    /\ deleted_flags \in [Slots -> BOOLEAN]
    /\ id_to_index \in [Ids -> Slots \cup {NoSlot}]
    /\ cluster_index \in [Clusters -> [Slots -> Nat]]
    /\ tombstone_entries_on_disk \in Nat

ThreadsTypeOK ==
    /\ rw_mutex \in Threads \cup {NoThread}
    /\ pc \in [Threads -> Steps]
    /\ arg \in [Threads -> [id : Ids \cup {NoId}, vec : Vecs \cup {Garbage},
                            slot : Slots \cup {NoSlot}]]
    /\ acked \in [Ids -> Vecs \cup {Missing, Unsure, Dropped}]

(* Every variable ranges over the values its declaration in the code has.  *)
TypeOK ==
    /\ StorageTypeOK
    /\ LogTypeOK(Ids)
    /\ MemoryTypeOK
    /\ ThreadsTypeOK
    /\ restarts \in 0 .. MaxRestarts
    /\ faults \in 0 .. MaxFaults

-----------------------------------------------------------------------------
(* What the constructor makes of the two files.                            *)

EmptyLists == [c \in Clusters |-> [i \in Slots |-> 0]]

(* Mutants: the last slot is not listed; cluster 0 lists every slot.       *)
ListsTooFew(clusterOf, counts) ==
    [c \in Clusters |-> [i \in Slots |->
        IF counts[i] /\ clusterOf[i] = c /\ i + 1 \in UsedSlots THEN 1 ELSE 0]]
ListsTooMany(clusterOf, counts) ==
    [c \in Clusters |-> [i \in Slots |-> IF counts[i] /\ c \in {0, clusterOf[i]} THEN 1 ELSE 0]]

(* Each slot that counts, once, in the list of its cluster on disk.        *)
ListsOf(clusterOf, counts) ==
    [c \in Clusters |-> [i \in Slots |-> IF counts[i] /\ clusterOf[i] = c THEN 1 ELSE 0]]

(* Mutant: the constructor's loop misses the last slot's tombstone.        *)
KeptButLast == UsedSlots \ {i \in 0 .. vector_count - 2 : id_block[i] \in tombstone_file.ids}

(* The slots the constructor keeps in use, and the last one of an id.      *)
KeptSlots == {i \in UsedSlots : id_block[i] \notin tombstone_file.ids}
KeptSlot(id) == IF id \in tombstone_file.ids \/ SlotsOf(id) = {} THEN NoSlot
                ELSE LastSlotOf(id)

Init ==
    /\ CreateFile
    /\ NoLogFiles
    /\ deleted_ids = {}
    /\ deleted_flags = [i \in Slots |-> FALSE]
    /\ id_to_index = [id \in Ids |-> NoSlot]
    /\ cluster_index = EmptyLists
    /\ tombstone_entries_on_disk = 0
    /\ rw_mutex = NoThread
    /\ pc = [t \in Threads |-> "idle"]
    /\ arg = [t \in Threads |-> NoArg]
    /\ acked = [id \in Ids |-> Missing]
    /\ restarts = 0
    /\ faults = 0

(* The process dies, or is stopped, and the database is opened again.      *)
Restart ==
    /\ restarts < MaxRestarts
    /\ restarts' = restarts + 1
    /\ deleted_ids' = tombstone_file.ids
    /\ deleted_flags' = [i \in Slots |-> i \in UsedSlots \ KeptSlots]
    /\ id_to_index' = [id \in Ids |-> KeptSlot(id)]
    /\ cluster_index' = IF is_initialized
                        THEN ListsOf(cluster_block, [i \in Slots |-> i \in KeptSlots])
                        ELSE EmptyLists
    /\ tombstone_entries_on_disk' = tombstone_file.entries
    /\ rw_mutex' = NoThread
    /\ pc' = [t \in Threads |-> "idle"]
    /\ arg' = [t \in Threads |-> NoArg]
    /\ UNCHANGED <<dbFile, logFiles, acked, faults>>

-----------------------------------------------------------------------------
(* Taking and releasing the lock.                                          *)

Free == rw_mutex = NoThread

Begin(t, id, vec, slot, step) ==
    /\ rw_mutex' = t
    /\ pc' = [pc EXCEPT ![t] = step]
    /\ arg' = [arg EXCEPT ![t] = [id |-> id, vec |-> vec, slot |-> slot]]
    /\ acked' = [acked EXCEPT ![id] = Unsure]

Goto(t, step) ==
    /\ pc' = [pc EXCEPT ![t] = step]
    /\ UNCHANGED <<rw_mutex, arg, acked>>

(* Mutant: a return that forgets the lock.                                 *)
FinishLocked(t, id, answer) ==
    /\ UNCHANGED rw_mutex
    /\ pc' = [pc EXCEPT ![t] = "idle"]
    /\ arg' = [arg EXCEPT ![t] = NoArg]
    /\ acked' = [acked EXCEPT ![id] = answer]

Finish(t, id, answer) ==
    /\ rw_mutex' = NoThread
    /\ pc' = [pc EXCEPT ![t] = "idle"]
    /\ arg' = [arg EXCEPT ![t] = NoArg]
    /\ acked' = [acked EXCEPT ![id] = answer]

Live(id) == id_to_index[id] # NoSlot

(* Mutant: the flags are left alone.                                       *)
FlagNothing(i, deleted) == UNCHANGED deleted_flags

Flag(i, deleted) == deleted_flags' = [deleted_flags EXCEPT ![i] = deleted]

-----------------------------------------------------------------------------
(* insert                                                                  *)

(* The first flagged slot of id: where a deleted id is inserted again.     *)
IsOldSlot(i, id) ==
    /\ i \in UsedSlots /\ deleted_flags[i] /\ id_block[i] = id
    /\ \A j \in 0 .. i - 1 : ~(deleted_flags[j] /\ id_block[j] = id)

GoesToOldSlot(id) == id \in deleted_ids /\ \E i \in UsedSlots : IsOldSlot(i, id)

(* Before the centroids exist every vector is put in cluster 0.            *)
NearestClusters == IF is_initialized THEN Clusters ELSE {0}

(* Mutant: the slot is taken to be in the list already.                    *)
PushNothing(c, i) == cluster_index

PushBack(c, i) == [cluster_index EXCEPT ![c][i] = @ + 1]

BeginReinsert(t, id, vec) ==
    /\ id \in deleted_ids
    /\ \E i \in UsedSlots :
          /\ IsOldSlot(i, id)
          /\ \A c \in Clusters : cluster_index[c][i] < MaxListed
          /\ CopyVector(i, Garbage)
          /\ Begin(t, id, vec, i, "copy")
    /\ deleted_ids' = deleted_ids \ {id}
    /\ UNCHANGED <<logFiles, deleted_flags, id_to_index, cluster_index,
                   tombstone_entries_on_disk, restarts, faults>>

BeginFresh(t, id, vec) ==
    /\ ~GoesToOldSlot(id)
    /\ \E c \in NearestClusters : FillSlot(id, vec, c)
    /\ deleted_ids' = deleted_ids \ {id}
    /\ Flag(vector_count, FALSE)
    /\ Begin(t, id, vec, vector_count, "publish")
    /\ UNCHANGED <<logFiles, id_to_index, cluster_index,
                   tombstone_entries_on_disk, restarts, faults>>

(* No slot is left: the code returns, and the caller is told nothing.      *)
DropInsert(t, id) ==
    /\ ~GoesToOldSlot(id)
    /\ Full
    /\ deleted_ids' = deleted_ids \ {id}
    /\ Finish(t, id, Dropped)
    /\ UNCHANGED <<dbFile, logFiles, deleted_flags, id_to_index, cluster_index,
                   tombstone_entries_on_disk, restarts, faults>>

EnterInsert(t, id, vec) ==
    \/ BeginReinsert(t, id, vec)
    \/ BeginFresh(t, id, vec)
    \/ DropInsert(t, id)

(* A client's INSERT, of an id its discipline lets it use.                 *)
Insert(t, id, vec) ==
    /\ Free /\ pc[t] = "idle"
    /\ CASE Live(id)          -> InsertLive
         [] id \in deleted_ids -> Reinsert
         [] OTHER             -> id \in ManualIds
    /\ EnterInsert(t, id, vec)

(* insert_auto: first lock scope, then insert, which locks again.          *)
TakeAutoId(t, vec) ==
    /\ Free /\ pc[t] = "idle"
    /\ TakeNextId
    /\ pc' = [pc EXCEPT ![t] = "id_taken"]
    /\ arg' = [arg EXCEPT ![t] = [id |-> next_id, vec |-> vec, slot |-> NoSlot]]
    /\ UNCHANGED <<logFiles, memory, rw_mutex, history>>

InsertTakenId(t) ==
    /\ Free /\ pc[t] = "id_taken"
    /\ EnterInsert(t, arg[t].id, arg[t].vec)

(* The old slot gets the vector, then its cluster; then it is found again. *)
CopyIntoOldSlot(t) ==
    /\ pc[t] = "copy"
    /\ CopyVector(arg[t].slot, arg[t].vec)
    /\ Goto(t, "relink")
    /\ UNCHANGED <<logFiles, memory, restarts, faults>>

RelinkOldSlot(t) ==
    /\ pc[t] = "relink"
    /\ \E c \in NearestClusters :
          /\ SetCluster(arg[t].slot, c)
          /\ cluster_index' = IF is_initialized THEN PushBack(c, arg[t].slot)
                              ELSE cluster_index
    /\ Flag(arg[t].slot, FALSE)
    /\ id_to_index' = [id_to_index EXCEPT ![arg[t].id] = arg[t].slot]
    /\ Finish(t, arg[t].id, arg[t].vec)
    /\ UNCHANGED <<logFiles, deleted_ids, tombstone_entries_on_disk, restarts, faults>>

(* Mutant: only the insert that exactly reaches the threshold counts.      *)
AfterPublishOnce ==
    IF is_initialized THEN "list"
    ELSE IF vector_count + 1 = KMeansThreshold THEN "kmeans"
    ELSE "index"

(* A fresh slot: published, then listed; the insert that reaches the       *)
(* threshold, or finds it reached, computes the clusters of all slots.     *)
AfterPublish ==
    IF is_initialized THEN "list"
    ELSE IF vector_count + 1 >= KMeansThreshold THEN "kmeans"
    ELSE "index"

Publish(t) ==
    /\ pc[t] = "publish"
    /\ PublishSlot
    /\ Goto(t, AfterPublish)
    /\ UNCHANGED <<logFiles, memory, restarts, faults>>

RunKMeans(t) ==
    /\ pc[t] = "kmeans"
    /\ AssignClusters
    /\ Goto(t, "initialize")
    /\ UNCHANGED <<logFiles, memory, restarts, faults>>

InitializeClusters(t) ==
    /\ pc[t] = "initialize"
    /\ SetClusterInitialized
    /\ cluster_index' = ListsOf(cluster_block,
                                [i \in Slots |-> i \in UsedSlots /\ ~deleted_flags[i]])
    /\ Goto(t, "index")
    /\ UNCHANGED <<logFiles, deleted_ids, deleted_flags, id_to_index,
                   tombstone_entries_on_disk, restarts, faults>>

ListNewSlot(t) ==
    /\ pc[t] = "list"
    /\ cluster_index' = PushBack(cluster_block[arg[t].slot], arg[t].slot)
    /\ Goto(t, "index")
    /\ UNCHANGED <<dbFile, logFiles, deleted_ids, deleted_flags, id_to_index,
                   tombstone_entries_on_disk, restarts, faults>>

IndexNewSlot(t) ==
    /\ pc[t] = "index"
    /\ id_to_index' = [id_to_index EXCEPT ![arg[t].id] = arg[t].slot]
    /\ Finish(t, arg[t].id, arg[t].vec)
    /\ UNCHANGED <<dbFile, logFiles, deleted_ids, deleted_flags, cluster_index,
                   tombstone_entries_on_disk, restarts, faults>>

-----------------------------------------------------------------------------
(* update                                                                  *)

BeginUpdate(t, id, vec) ==
    /\ Free /\ pc[t] = "idle"
    /\ id \notin deleted_ids
    /\ Live(id)
    /\ CopyVector(id_to_index[id], Garbage)
    /\ Begin(t, id, vec, id_to_index[id], "overwrite")
    /\ UNCHANGED <<logFiles, memory, restarts, faults>>

FinishUpdate(t) ==
    /\ pc[t] = "overwrite"
    /\ CopyVector(arg[t].slot, arg[t].vec)
    /\ Finish(t, arg[t].id, arg[t].vec)
    /\ UNCHANGED <<logFiles, memory, restarts, faults>>

-----------------------------------------------------------------------------
(* remove                                                                  *)

BeginRemove(t, id) ==
    /\ Free /\ pc[t] = "idle"
    /\ id \notin deleted_ids
    /\ Live(id)
    /\ Flag(id_to_index[id], TRUE)
    /\ id_to_index' = [id_to_index EXCEPT ![id] = NoSlot]
    /\ deleted_ids' = deleted_ids \cup {id}
    /\ Begin(t, id, Garbage, NoSlot, "append")
    /\ UNCHANGED <<dbFile, logFiles, cluster_index, tombstone_entries_on_disk,
                   restarts, faults>>

(* Mutant: the log may be one entry longer.                                *)
NeedsCompactionLate(entries) == entries > Cardinality(deleted_ids) + CompactSlack + 1

NeedsCompaction(entries) == entries > Cardinality(deleted_ids) + CompactSlack

(* The file operation of a step of remove fails.                           *)
FaultAt(t) ==
    /\ pc[t] \in FailingCalls
    /\ faults < MaxFaults
    /\ faults' = faults + 1

(* After append_tombstone: compact, or answer.                             *)
CompactOrFinish(t, entries) ==
    IF NeedsCompaction(entries) THEN Goto(t, "write_tmp")
    ELSE Finish(t, arg[t].id, Missing)

AppendTombstone(t) ==
    /\ pc[t] = "append"
    /\ AppendEntry(arg[t].id)
    /\ tombstone_entries_on_disk' = tombstone_entries_on_disk + 1
    /\ CompactOrFinish(t, tombstone_entries_on_disk + 1)
    /\ UNCHANGED <<dbFile, deleted_ids, deleted_flags, id_to_index, cluster_index,
                   restarts, faults>>

(* The log cannot be opened: remove goes on as if it had been.             *)
AppendFails(t) ==
    /\ pc[t] = "append"
    /\ FaultAt(t)
    /\ CompactOrFinish(t, tombstone_entries_on_disk)
    /\ UNCHANGED <<dbFile, logFiles, memory, restarts>>

WriteTmp(t) ==
    /\ pc[t] = "write_tmp"
    /\ WriteTmpFile(deleted_ids)
    /\ Goto(t, "remove_log")
    /\ UNCHANGED <<dbFile, memory, restarts, faults>>

RemoveOldLog(t) ==
    /\ pc[t] = "remove_log"
    /\ RemoveLog
    /\ Goto(t, "rename")
    /\ UNCHANGED <<dbFile, memory, restarts, faults>>

RenameTmp(t) ==
    /\ pc[t] = "rename"
    /\ RenameTmpFile
    /\ tombstone_entries_on_disk' = Cardinality(deleted_ids)
    /\ Finish(t, arg[t].id, Missing)
    /\ UNCHANGED <<dbFile, deleted_ids, deleted_flags, id_to_index, cluster_index,
                   restarts, faults>>

(* Mutant: the count of entries is reset before the rename is checked.     *)
CompactionFailsCounted(t) ==
    /\ pc[t] \in {"write_tmp", "rename"}
    /\ FaultAt(t)
    /\ tombstone_entries_on_disk' = Cardinality(deleted_ids)
    /\ Finish(t, arg[t].id, Missing)
    /\ UNCHANGED <<dbFile, logFiles, deleted_ids, deleted_flags, id_to_index,
                   cluster_index, restarts>>

(* The temporary file cannot be opened, or the rename fails: compaction    *)
(* gives up and remove answers true all the same.                          *)
CompactionFails(t) ==
    /\ pc[t] \in {"write_tmp", "rename"}
    /\ FaultAt(t)
    /\ Finish(t, arg[t].id, Missing)
    /\ UNCHANGED <<dbFile, logFiles, memory, restarts>>

(* filesystem::remove throws: the exception leaves remove unanswered.      *)
RemoveOldLogThrows(t) ==
    /\ pc[t] = "remove_log"
    /\ FaultAt(t)
    /\ Finish(t, arg[t].id, Unsure)
    /\ UNCHANGED <<dbFile, logFiles, memory, restarts>>

-----------------------------------------------------------------------------

Call(t) ==
    \/ \E id \in Ids, vec \in Vecs : Insert(t, id, vec) \/ BeginUpdate(t, id, vec)
    \/ \E vec \in Vecs : TakeAutoId(t, vec)
    \/ \E id \in Ids : BeginRemove(t, id)

InsertStep(t) ==
    \/ CopyIntoOldSlot(t) \/ RelinkOldSlot(t)
    \/ Publish(t) \/ RunKMeans(t) \/ InitializeClusters(t)
    \/ ListNewSlot(t) \/ IndexNewSlot(t)

RemoveStep(t) ==
    \/ AppendTombstone(t) \/ WriteTmp(t) \/ RemoveOldLog(t) \/ RenameTmp(t)

RemoveFault(t) ==
    \/ AppendFails(t) \/ CompactionFails(t) \/ RemoveOldLogThrows(t)

LockedStep(t) == InsertStep(t) \/ RemoveStep(t) \/ FinishUpdate(t)

Next ==
    \/ \E t \in Threads : Call(t) \/ InsertTakenId(t) \/ LockedStep(t) \/ RemoveFault(t)
    \/ Restart

Spec == Init /\ [][Next]_vars

(* A thread inside an operation is scheduled again, as every thread is.    *)
FairSpec == Spec /\ \A t \in Threads : WF_vars(LockedStep(t))

-----------------------------------------------------------------------------
(* What search and search_N consider when they probe the given clusters,   *)
(* and the slots they consider more than once.                             *)

Candidates(probed) ==
    {i \in UsedSlots :
        /\ ~deleted_flags[i]
        /\ is_initialized => \E c \in probed : cluster_index[c][i] > 0}

Repeated(i) ==
    /\ is_initialized
    /\ \/ \E c \in Clusters : cluster_index[c][i] > 1
       \/ \E c, d \in Clusters : c # d /\ cluster_index[c][i] > 0 /\ cluster_index[d][i] > 0

(* The vector a client finds under an id now, and the one it would find    *)
(* if the process were restarted now.                                      *)
InMemory(id) == IF Live(id) THEN float_block[id_to_index[id]] ELSE Missing
OnDisk(id)   == IF KeptSlot(id) = NoSlot THEN Missing ELSE float_block[KeptSlot(id)]

(* The ids the log still lists although they were inserted again.          *)
StaleTombstones == {id \in tombstone_file.ids : Live(id)}

-----------------------------------------------------------------------------
(* Whenever nobody is writing, a search that probes every cluster meets    *)
(* every vector whose insert or update was answered, with the value that   *)
(* was answered: across kmeans, restarts at any point of any operation and *)
(* the deletion of other ids.                                              *)
SearchFindsStored ==
    Free => \A id \in Ids : acked[id] \in Vecs =>
        \E i \in Candidates(Clusters) : id_block[i] = id /\ float_block[i] = acked[id]

(* Until the process is restarted after a call on the log has failed, no   *)
(* search meets a vector whose deletion was answered, whichever clusters   *)
(* it probes.                                                              *)
SearchHidesDeleted ==
    Free /\ (faults = 0 \/ restarts = 0) => \A i \in Candidates(Clusters) : acked[id_block[i]] # Missing

(* Whenever nobody is writing, a search meets each id at most once: search_N *)
(* never returns one id twice.                                             *)
SearchHasNoDuplicates ==
    Free => /\ \A i, j \in Candidates(Clusters) : id_block[i] = id_block[j] => i = j
            /\ \A i \in Candidates(Clusters) : ~Repeated(i)

(* A slot a search can meet is in the list of the cluster the file records *)
(* for it, so that the probe that finds it still does after a restart.     *)
ListsMatchFile ==
    Free /\ is_initialized =>
        \A i \in Candidates(Clusters) : cluster_index[cluster_block[i]][i] > 0

(* Whenever nobody is writing, a restart would change nothing a client can *)
(* see, but for the ids the log still lists although they were inserted    *)
(* again: a tombstone is only taken out of the log by compaction.          *)
RestartLosesOnlyReinserted ==
    Free => \A id \in Ids \ StaleTombstones : OnDisk(id) = InMemory(id)

(* A crash brings deleted vectors back only if it falls between removing   *)
(* the old log and renaming the new one: at any other point each id whose  *)
(* deletion was answered is deleted after the restart too.                 *)
DeletedComeBackOnlyFromRename ==
    [][restarts' > restarts /\ (\A t \in Threads : pc[t] # "rename")
          => \A id \in deleted_ids : acked[id] = Missing => id \in deleted_ids']_vars

(* An insert that finds the threshold reached leaves the clusters          *)
(* computed, also when an earlier kmeans was cut short by a crash.         *)
KMeansIsNotSkipped ==
    [][\A t \in Threads : pc[t] = "index" /\ pc'[t] = "idle" /\ restarts' = restarts
          /\ vector_count >= KMeansThreshold => is_initialized]_vars

(* next_id never hands out an id that a slot, or another thread on its way *)
(* to insert, already has, through restarts and dropped inserts.           *)
AutoIdsAreNew ==
    [][\A t \in Threads : pc'[t] = "id_taken" /\ pc[t] # "id_taken" =>
          /\ SlotsOf(arg'[t].id) = {}
          /\ \A u \in Threads \ {t} : pc[u] = "id_taken" => arg[u].id # arg'[t].id]_vars

(* When a remove that could write its files is answered the log is no      *)
(* longer than the deleted ids and the slack: compaction keeps up.         *)
RemoveBoundsLog ==
    [][\A t \in Threads : pc[t] \in InRemove /\ pc'[t] = "idle"
          /\ restarts' = restarts /\ faults' = faults
          => tombstone_file'.entries <= Cardinality(deleted_ids') + CompactSlack]_vars

(* If a failed rename has lost tombstones that memory still knows, the     *)
(* engine's count of the log is still too high, so that the next deletion  *)
(* compacts again and writes them back.                                    *)
LostTombstonesForceCompaction ==
    Free => \/ deleted_ids \subseteq tombstone_file.ids
            \/ NeedsCompaction(tombstone_entries_on_disk)

(* The lock is always released: no path through insert, remove or update   *)
(* waits for anything.                                                     *)
LockIsReleased == (rw_mutex # NoThread) ~> (rw_mutex = NoThread)

-----------------------------------------------------------------------------
(* What documentation or tests say of the engine and it does not do.       *)

(* CHANGELOG: the log is "rewritten atomically", so no deletion that was   *)
(* answered is undone by a restart, wherever it falls.                     *)
DeletedSurviveRestart ==
    [][restarts' > restarts
          => \A id \in deleted_ids : acked[id] = Missing => id \in deleted_ids']_vars

-----------------------------------------------------------------------------
(* For clients that never use an id twice the file and the log implement   *)
(* VectorStore, at every step and through every crash.                     *)

Abstract == INSTANCE VectorStore WITH
    store <- [id \in Ids |-> OnDisk(id)],
    used  <- {id_block[i] : i \in UsedSlots}

(* Every step of the engine, restarts included, is a step of a crash-atomic *)
(* map of write-once ids or leaves it unchanged.                           *)
ImplementsVectorStore == Abstract!Spec
=============================================================================
