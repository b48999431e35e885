---------------------------- MODULE StorageManager ----------------------------
(***************************************************************************)
(* The memory-mapped .db file of one IVF database and the operations of    *)
(* StorageManager::Manager on it.                                          *)
(*                                                                         *)
(* The mapping is MAP_SHARED: a store reaches the page cache as it is      *)
(* executed and outlives the process, so these variables survive a crash   *)
(* of the server (not a crash of the machine before msync).  The operators *)
(* below are the file's half of an action: each changes part of the file   *)
(* and leaves the rest UNCHANGED; RedBoxVector conjoins them with the      *)
(* memory's half.                                                          *)
(***************************************************************************)
EXTENDS Integers, FiniteSets

CONSTANTS
    Capacity,     \* header->max_capacity: the number of slots
    NumClusters,  \* header->num_clusters, k
    ManualIds,    \* the ids clients choose for themselves in INSERT
    MaxAuto,      \* bound: the ids INSERT_AUTO may hand out are 1 .. MaxAuto
    Vecs,         \* the vectors clients store
    Garbage       \* a slot's floats when they are no client's vector: the
                  \* zeroes of a new file, or a copy that was cut short

ASSUME CapacityAssumption == Capacity \in Nat \ {0}
ASSUME ClustersAssumption == NumClusters \in Nat \ {0}
ASSUME IdsAssumption ==
    ManualIds \subseteq Nat \ {0} /\ IsFiniteSet(ManualIds) /\ MaxAuto \in Nat
ASSUME VecsAssumption == Garbage \notin Vecs

Slots    == 0 .. Capacity - 1
Clusters == 0 .. NumClusters - 1
Ids      == ManualIds \cup 1 .. MaxAuto
NoId     == 0    \* the bytes of a slot of id_block nothing was written to

VARIABLES
    vector_count,    \* header->vector_count
    id_block,        \* id of each slot
    float_block,     \* vector of each slot
    cluster_block,   \* cluster of each slot
    is_initialized,  \* header->is_initialized: centroids have been computed
    next_id          \* header->next_id

dbFile == <<vector_count, id_block, float_block, cluster_block,
            is_initialized, next_id>>

StorageTypeOK ==
    /\ vector_count \in 0 .. Capacity
    /\ id_block \in [Slots -> Ids \cup {NoId}]
    /\ float_block \in [Slots -> Vecs \cup {Garbage}]
    /\ cluster_block \in [Slots -> Clusters]
    /\ is_initialized \in BOOLEAN
    /\ next_id \in 1 .. MaxAuto + 1

(* The constructor on a file that did not exist: ftruncate zero-fills it.  *)
CreateFile ==
    /\ vector_count = 0
    /\ id_block = [i \in Slots |-> NoId]
    /\ float_block = [i \in Slots |-> Garbage]
    /\ cluster_block = [i \in Slots |-> 0]
    /\ is_initialized = FALSE
    /\ next_id = 1

-----------------------------------------------------------------------------

UsedSlots == 0 .. vector_count - 1

(* The slots holding id, and the last of them.                             *)
SlotsOf(id) == {i \in UsedSlots : id_block[i] = id}
LastSlotOf(id) == CHOOSE i \in SlotsOf(id) : \A j \in SlotsOf(id) : j <= i

(* Mutant: one slot too many.                                              *)
FullTooLate == vector_count > Capacity

Full == vector_count >= Capacity

(* add_vector, up to the increment: the slot past the end is filled in.    *)
FillSlot(id, vec, c) ==
    /\ ~Full
    /\ id_block' = [id_block EXCEPT ![vector_count] = id]
    /\ float_block' = [float_block EXCEPT ![vector_count] = vec]
    /\ cluster_block' = [cluster_block EXCEPT ![vector_count] = c]
    /\ UNCHANGED <<vector_count, is_initialized, next_id>>

(* add_vector's last statement, which is what makes the slot exist.        *)
PublishSlot ==
    /\ vector_count' = vector_count + 1
    /\ UNCHANGED <<id_block, float_block, cluster_block, is_initialized, next_id>>

(* A memcpy into get_float_ptr_mut(i): Garbage while it is under way.      *)
CopyVector(i, vec) ==
    /\ float_block' = [float_block EXCEPT ![i] = vec]
    /\ UNCHANGED <<vector_count, id_block, cluster_block, is_initialized, next_id>>

(* Mutant: the cluster is not written to the file.                         *)
SetNoCluster(i, c) == UNCHANGED dbFile

SetCluster(i, c) ==
    /\ cluster_block' = [cluster_block EXCEPT ![i] = c]
    /\ UNCHANGED <<vector_count, id_block, float_block, is_initialized, next_id>>

(* kmeans_plus_plus_init over the used slots.  Which centroid is nearest   *)
(* is geometry: any assignment is possible.                                *)
AssignClusters ==
    /\ \E nearest \in [UsedSlots -> Clusters] :
          cluster_block' = [i \in Slots |-> IF i \in UsedSlots THEN nearest[i]
                                            ELSE cluster_block[i]]
    /\ UNCHANGED <<vector_count, id_block, float_block, is_initialized, next_id>>

SetClusterInitialized ==
    /\ is_initialized' = TRUE
    /\ UNCHANGED <<vector_count, id_block, float_block, cluster_block, next_id>>

(* Mutant: the counter in the file stays behind.                           *)
PeekNextId ==
    /\ next_id <= MaxAuto
    /\ UNCHANGED dbFile

(* next_id(): a post-increment in the mapped header.                       *)
TakeNextId ==
    /\ next_id <= MaxAuto
    /\ next_id' = next_id + 1
    /\ UNCHANGED <<vector_count, id_block, float_block, cluster_block, is_initialized>>

=============================================================================
