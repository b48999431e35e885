# RedBoxDb in TLA+

RedBoxDb is a vector database: a C++ engine that keeps fixed-size float vectors
in a memory-mapped file, an IVF or HNSW index over them, and a TCP server that
gives each client a thread. This directory holds a model of it in TLA+, the
instances TLC checks, and proofs for TLAPS. All line numbers below refer to the
files of the repository.

## 1. Inventory

| part | code | state it keeps | operations |
|---|---|---|---|
| storage file | `src/engine.cpp` 546-780, `storage_manager.hpp`, `SpecificMetadata.hpp` | header (count, capacity, next id, k, initialized), per-slot id, floats, cluster; centroids; HNSW levels and edges; all in a `MAP_SHARED` mapping | create or open, `add_vector`, `set_cluster`, `get_float_ptr_mut`, `next_id`, `set_cluster_initialized`, unmap |
| tombstone log | `src/engine.cpp` 413-457 | `<db>.del`, one id per entry, and `<db>.del.tmp` | load, append, compact |
| engine | `src/engine.cpp` 18-543, `engine.hpp` | deleted ids and flags, id to slot map, cluster lists, count of log entries, one shared mutex | `insert`, `insert_auto`, `remove`, `update`, `search`, `search_N`, construction |
| IVF | `cluster_manager.hpp` | centroids and counts, in the file | nearest centroid, running mean, k-means++ |
| HNSW | `hnsw_manager.hpp` | levels, edges, entry point, in the file | insert, search, neighbour selection |
| server | `src/server.cpp` | catalog of open databases and its mutex, per-client active database | 14 commands, one thread per client |
| metadata store | `src/metadata_store.cpp`, `sql/schema.sql` | PostgreSQL mirror of the catalog, its counts and an operation log | create, load, update counts, drop, list |
| clients | `Client/client.py`, `redbox-sdk/redboxdb/client.py` | a socket | handshake and commands |

How they interact: a client's bytes reach the server's thread for it, which calls
the engine of the active database; the engine's writers hold its `rw_mutex`
exclusively, searches hold it shared; the engine stores to the mapping and to
the log file; the server then tells the metadata store the new counts, without
any lock of the engine. Nothing is called back, and the only state a restart
finds is the mapped file, the log file and, if configured, PostgreSQL.

What is hard, in the order of weight:

* **Crashes.** Every operation makes several stores to the mapped file and calls
  on the log; the process may die between any two, and the constructor must make
  sense of what it finds.
* **Three records of a deletion** (`deleted_ids`, `deleted_flags`, the log) **and
  three of a slot's place** (`cluster_block`, `cluster_index`, `id_to_index`)
  which must agree after any sequence of operations.
* **Old slots.** Inserting a deleted id again reuses its slot, its list entries
  and, in the log, its tombstone.
* **Threads.** `insert_auto` takes the lock twice. In the server, the catalog
  hands out raw pointers to engines another client may drop.
* **Framing.** The protocol has no resynchronisation: a command that is refused
  before all of it was read, or sent in part, shifts every later one, and an answer
  that comes after a timeout is there for the next call to take.
* **The graph.** An HNSW insertion makes many stores to the file, level by level and
  in both directions of each edge; deletion leaves edges and takes slots out of
  every search, also of the ones that insertions make; lists have a fixed length.
* **The layout.** Where a file's blocks are follows from the arguments of each
  opening, while the header remembers those of the first.

What makes each part correct:

* file: a counted slot is complete; the count never exceeds the capacity; an
  automatic id is handed out once, ever;
* log: with the file it determines which vectors exist; it stays short;
* engine: a search meets exactly the vectors whose insert or update was
  answered, each once, also after a restart;
* IVF: each slot is in the list the file says; the threshold is not missed;
* HNSW: a search finds the nearest live vector of a small graph; every edge leads to
  a counted slot; lists keep within their place in the file;
* layout: the places of different things do not overlap, stores stay in the mapping;
* server: a command acts on the database its client selected, or on none; a
  dropped database is used by nobody; client and server agree where a command
  ends;
* metadata: its rows are the databases of the catalog when nothing is under way;
  a mirrored count may lag, but is never ahead.

## 2. Modules

| module | what it is |
|---|---|
| `StorageManager` | the mapped file of an IVF database: its variables, and one operator for each store |
| `TombstoneLog` | the log and its temporary file: one operator for each call |
| `RedBoxVector` | the engine: extends both, adds the memory, the threads, the lock and the crash; all actions and properties |
| `VectorStore` | what the engine promises a client that uses each id once: a map that changes at one instant |
| `MCRedBoxVector` | symmetry for TLC |
| `RedBoxVectorProofs` | theorems about `RedBoxVector` that hold for any clients: types, the log, the lists |
| `RedBoxVectorSlotProofs` | theorems for clients that keep a discipline: ids, searches, restarts, and the refinement of `VectorStore` |
| `MetadataStore` | the table `databases` in PostgreSQL: one operator for each transaction |
| `Server` | the server: extends `MetadataStore`, adds the files of each directory, the catalog, the locks, a thread per connection, crash and start |
| `MCServer` | symmetry for TLC |
| `ServerProofs` | the types, locks and catalog of `Server` |
| `ServerPointerProofs` | theorems about what threads do with their pointers |
| `ServerRowsProofs` | theorems about rows, catalog and files, and what starts and drops leave of them |
| `HnswManager` | the HNSW index: the graph in the file, the insertion level by level, both layer searches and both searches, deletion, update, crash |
| `MCHnswManager` | the points of the plane its instances use |
| `HnswManagerProofs` | theorems about `HnswManager` |
| `Wire` | the bytes between a client and its thread: both clients, framing, timeouts, breaks, closing and connecting again |
| `WireProofs` | theorems about `Wire` |
| `StorageLayout` | where `StorageManager::Manager` puts things: the creation step by step, opening again with any arguments, closing, crash |
| `StorageLayoutProofs` | theorems about `StorageLayout` |

### How the model corresponds to the code

`insert`, `remove` and `update` hold `rw_mutex` from their first statement to
their last, so no other thread sees them half done; a crash does. So **one action
is one store to a file or one call on a file**, with the changes of memory next
to it, and `Restart`, the crash and the constructor that follows it, is enabled
between any two. `pc[t]` is the next such step of thread `t`'s operation:

| operation | actions, in order | code |
|---|---|---|
| `insert`, deleted id | `BeginReinsert` (the memcpy has begun), `CopyIntoOldSlot`, `RelinkOldSlot` | 96-140 |
| `insert`, fresh slot | `BeginFresh` (the slot past the end), `Publish` (the count), then `ListNewSlot`, or `RunKMeans` and `InitializeClusters`, or neither, then `IndexNewSlot` | 143-203 |
| `insert`, no slot left | `DropInsert` | 146-148 |
| `insert_auto` | `TakeAutoId`, then, with the lock taken anew, `InsertTakenId` | 209-220 |
| `update` | `BeginUpdate` (the memcpy has begun), `FinishUpdate` | 487-498 |
| `remove` | `BeginRemove`, `AppendTombstone`, and if the log is too long `WriteTmp`, `RemoveOldLog`, `RenameTmp` | 424-479 |
| a call on the log fails | `AppendFails`, `CompactionFails`, `RemoveOldLogThrows` | 426, 436, 446, 448 |
| crash, stop, start | `Restart` | 20-43 |
| `search`, `search_N` | no action, they change nothing; `Candidates` is the set of slots they compare with the query, `Repeated` the slots they compare twice | 249-299, 342-390 |

History variables: `acked[id]` is what the callers know about an id (the vector
that was answered, `Missing` after an answered deletion, `Unsure` from the start
of an operation to its answer, also when a crash took the answer away,
`Dropped` when the insert was answered and stored nothing); `restarts` and
`faults` count for the bounds.

Three constants say what clients do: `ManualIds` are the ids they choose,
`InsertLive` whether they insert an id that is in use, `Reinsert` whether they
insert one they have deleted. The properties that hold are stated for the
weakest discipline they hold under, and a violation run shows what happens
beyond it.

In `Server` the engine's calls are atomic, as the lock of the database makes them for
other threads, and **one action is what a thread does between two points at which
another thread or a crash can matter**: taking a lock, a transaction, a call on
a file, a use of a pointer to the engine.

| command | actions, in order | code |
|---|---|---|
| accept, hang up | `Connect`, `Disconnect`, `NoActive` | 543-566, 126, 251 |
| `SELECT_DB`, `CREATE_HNSW_DB`, open | `SelectOpen`, `CheckDimension` (`SELECT_DB` only) | 163-193, 225-249 |
| the same, not open | `SelectClosed` (the lock is taken), `Open` or `OpenThrows`, `Register` | 165-184 |
| `INSERT`, `INSERT_AUTO` | `StartCommand`, `BeginCall`, `Insert`, `ReadCount`, `Mirror` | 253-267, 305-317 |
| `DELETE` | the same with `Delete`, or `OtherCall` if nothing was found | 280-291 |
| `UPDATE`, `SEARCH`, `SEARCH_N` | `StartCommand`, `BeginCall`, `OtherCall` | 268-279, 292-304, 318-334 |
| `SET_PROBES`, `SET_HNSW_EF`, `LIST_DBS`, `DB_INFO`, unknown | `StartCommand`, `OtherCommand` | 368-441 |
| `DROP_DB` | `StartDrop`, `FindInCatalog` (the lock is taken) or `NotInCatalog`, `DropRow`, `Erase`, `RemoveDb`, `RemoveDel` | 253, 335-367 |
| a transaction fails | `StoreFails`: the exception ends the connection, the lock is released | 444-455 |
| crash and start | `Restart`, `RestartWithoutMeta`, `RestartLosesMeta` | 466-520 |

A thread's `active_db` is a plain pointer: the model has **addresses**, `engines[a]`
is what lives at one, and a destroyed engine's address may be used again.
`UseFreed` is the use of an address at which nothing lives, or of a mutex that was
destroyed while held: undefined behaviour, after which `wild` is true and the
model stops. `dropped` is history: the names whose drop was answered and that
nobody selected since; `stored` counts the vectors that commands on a name have stored since a drop of it
was last begun. `DropShared` says whether clients drop what others have
selected, `SameDir` whether `REDBOX_DATA_DIR` is the working directory, `WithMeta`
whether PostgreSQL is configured, and `StartFails` whether a start may lose it
without a reason in the rows. It may also lose it on its own, by a row that it cannot load (`Bad`): one
whose file has another dimension, or one of an HNSW database. `create_database` stores its
entry point, `EMPTY` as long as the graph has no node, as `(int)`, that is -1 (metadata_store.cpp:64), nothing calls
`update_hnsw_state`, and `load_database` reads the column as an unsigned number (107) and throws: **every start after a
`CREATE_HNSW_DB` goes on without PostgreSQL** (server.cpp:510-513), and a drop answered from then on leaves its
row. `HnswNames` are the names that clients create by `CREATE_HNSW_DB`, and they select each
as what it was created (`StorageLayout` has what happens otherwise).

In `HnswManager` there is one writer, `op`, as the lock is held throughout, and **one
action is one store to the file**; the searches, which change nothing, are functions
of the state. A list is an array of fixed length with `EMPTY` in its unused places, and `Connect` and `Prune` store
nothing: they compute what `set_neighbors` then writes place by place, `op.list` into the list of
slot `op.into`. History: `cut` (below), `again`, the slots that were inserted again, and `torn`, the lists a
crash found while `set_neighbors` wrote them.

| code | actions, in order | lines of `hnsw_manager.hpp` |
|---|---|---|
| `insert`, fresh slot | `InsertFresh` (vector, flag and count), then `hnsw_insert` | `engine.cpp` 143-200 |
| `insert`, deleted id | `InsertAgain`, then `hnsw_insert` | `engine.cpp` 96-135 |
| `hnsw_insert`, first node | `EnterFirst`, `Initialize` | 420-425 |
| `hnsw_insert` | `Enter` (a level is drawn, the descent); for each level `Connect` (search and selection) and `set_neighbors` of the new slot's list, then for each neighbour `LinkBack`, or, if its list is full, `Prune` and `set_neighbors` of that list; then `RaiseEntry` and `RaiseLevel` if the level is the highest | 428-520 |
| `append_neighbor` | `LinkBack`: one store, to the first free place | 384-399 |
| `set_neighbors` | `SetNeighbor` for each place whose value changes, first to last, then `SetDone` | 370-382 |
| the insertion returns | `Answer` (the flag is cleared) | `engine.cpp` 137-139 |
| `update`, `remove` | `Update`, `Delete` | `engine.cpp` 460-498 |
| crash, stop, start | `Restart` | `engine.cpp` 57-87 |
| `search`, `search_N` | `Search`, `SearchN` over `hnsw_search_1`, `hnsw_search`, `Descend`, `search_layer`, `search_layer_1` | 76-282, 525-643 |

In `Wire` each byte in flight is the call it belongs to, its part of the frame and its
place in it. An action of the client is a `sendall` or the `recv` of an answer; one of
the server is a `recv_all`, the execution or a `send`.

| code | actions |
|---|---|
| the client connects, calls, is answered, closes | `Connect`, `NextCall` (all of the frame, or some of it: `sendall` times out), `Receive`, `Close` |
| `recv` raises | `Disconnected`, `Timeout` |
| the thread's loop | `ReadHeader`, for a selection `ReadName`, `ReadPayload`, `Execute`, `Answer` |
| the loop ends | `Hangup`, `Throws` |
| the network | `LoseLink` |

`Spoilt(c)` collects the four causes for which the two ends of a connection part: the
SDK's handshake, a refused name, a dimension that is not the database's, a call after
one that failed. The properties say that there is no fifth.

In `StorageLayout` the file is its size, its header and a set of extents, each what
one store wrote; a store destroys the extents it overlaps, and a read finds what was
stored only if an extent has exactly its place.

| code | actions | lines of `engine.cpp` |
|---|---|---|
| constructor, no file | `Create` (`ftruncate`, `mmap`), `InitFields`, `InitVersion`, `InitIndex`, and for HNSW `InitHnsw`, `InitEdges` | 612-676 |
| constructor, a file | `Reopen`, which may refuse | 612-699 |
| `add_vector` | `AddVector`; `AddToNullPointer` if the header's index is not the arguments'; `AddOutside` if the place is past the mapping | 736-752 |
| destructor | `Close` | 704-734 |
| crash | `Crash` | |

`made` is history: the arguments of the creation; `foreign` that a store was made with
others, `cut` that a crash hit the creation after the version was set.

### What is abstracted

* **In `HnswManager`**, vectors are points of the plane with integer coordinates; in
  the runs no two are equally far from a third, so that "nearest" is unique; a level is any choice
  up to `MaxLevel`; a slot stands for its id, and ids, the log and compaction are those
  of `RedBoxVector`. Of equally far candidates a search takes any first, always the same. The array of
  256 candidates of `search_layer_1` is not filled.
* **In `Wire`** there is one application and one database, dropped by nobody else
  (`Server` has the sharing). A thread that takes the middle of a frame for a header is
  `"astray"` and stays there: what it does next depends on the bytes of a vector. The
  answers of `SEARCH_N`, `LIST_DBS` and `DB_INFO`, whose length is in their first bytes,
  have one length each. Of the SDK only the handshake is modelled, as nothing after it
  is reached.
* **In `StorageLayout`** an insertion is one step (`RedBoxVector` has its steps), reads
  outside the mapping are not followed, and the rounding of the mapping to pages is left
  out: a store past its end is `"wild"` even where the page happens to be there.
  Centroids and their counts have a place and no content.

* **In `Server`**, the contents of a file are its dimension and its count; names
  are valid; the catalog of files has two directories, which exist; the store's
  own mutex is part of the atomic transaction; the audit log, the index
  parameters and the bytes on the wire are left out. A call of `StoreFails` stands
  for a transaction that was not done; one that was done and whose
  acknowledgement was lost is not modelled.
* **Geometry.** Vectors are model values, so the nearest centroid of a vector is
  any cluster, and centroid values and counts are left out. k-means assigns any
  cluster to each slot, in one step: a crash inside it leaves `is_initialized`
  unset and nothing reads the assignment then. Consequently the properties speak
  of searches that probe every cluster: whether few probes find the nearest
  vector is recall, not correctness.
* **A memcpy** into a slot is two steps with `Garbage` between them. The fields
  of the slot past the end are written in one step: nothing reads them before
  the count is raised.
* **The crash** is one of the process. Pages of a shared mapping survive it;
  a crash of the machine, which may lose any page not yet synchronised, is not
  modelled, nor a tombstone of which only some bytes were written.
* **The log** is a set of ids and a length; the order of entries is never read.
* **Cluster lists** are multiplicities: how often each list has each slot.
* **Dimensions** are right in `RedBoxVector`: the server reads as many floats as the
  database has (`Wire` has what the client sends).

## 3. Runs

The engine's instances have two clusters. `Capacity`, `KMeansThreshold` and `CompactSlack`
are 1000 or what the client asks, 10000 and 64 in the code; here 2, 1 or 2, and 0, so
that the file is filled, the threshold is passed with slots before and after it, and
compaction runs after one deletion.

| run | clients | crashes | shows |
|---|---|---|---|
| `engine_write_once` | two threads, one id of the client's and two automatic ones, each used once, two slots; `append` may fail once | 2 | `TypeOK`, with the file full; searches find what was stored, hide what was deleted, meet each id once; automatic ids are new, also through crashes; k-means is not skipped; every step is one of `VectorStore` or none |
| `engine_reinsert_restart` | reinsert deleted ids | 2 | a restart loses only reinserted ids that the log still lists; deletions are undone only between remove and rename; lists agree with the file |
| `engine_faults` | two threads, reinsert deleted ids, one automatic id; `write_tmp`, `remove_log` or `rename` may fail | 0 | old slots are found, hidden and found again; tombstones lost by a failed rename are rewritten by the next deletion; the log stays short; the lock is always released, by `insert_auto` twice |

In `engine_write_once` the threshold is 1, so that k-means runs at the first insertion, a
crash may come between it and `is_initialized`, and the second slot is listed by the
nearest centroid; in the other two it is 2, and slots stored before k-means are
found by the scan of all. `SearchHidesDeleted` speaks of the states without a failed call on the
log or without a restart: a deletion whose `append` failed is forgotten by the next start, which is
what the code does.

The server's runs have two connections; every database has room for two vectors, so that a mirrored count can
arrive late and go back.

| run | instance | shows |
|---|---|---|
| `server_private_drop` | two databases, one of them HNSW, two addresses, one dimension, a failing transaction, starts that lose PostgreSQL by an HNSW row or half way, two crashes; `DropShared` false | `TypeOK`; no destroyed engine is used; one engine for each file, and it is the catalog's; rows, catalog and files are the same databases while PostgreSQL is there; commands reach the selected database and its row; no row is given a count its file does not have; what commands on a name stored is in the file its selection is served from |
| `server_shared_drop` | one IVF database, two addresses, two dimensions, a failing transaction, two crashes; `DropShared` | what was dropped stays gone, through late mirrors, crashes and starts; both kinds of lock are released, also when the constructor throws |

Two connections and two databases are the least in which a pointer, an address
and a name can come to belong to different databases; two crashes let a start
find what a failed start left. With one dimension in `server_private_drop` no row and file disagree about it
(`Mismatched` is empty there; the theorems cover it), and `OpenThrows` is in `server_shared_drop`. Connections and addresses
are only compared for equality, so the symmetry is sound; `server_shared_drop`, with
its liveness property, has none, and therefore one database. `server_private_drop` has 3.1 million distinct states,
`server_shared_drop` 0.4 million.
`server_shared_drop` has `CHECK_DEADLOCK FALSE` as the model stops when it is wild; it
thus says nothing of what happens after undefined behaviour.

The other components' runs:

| run | instance | shows |
|---|---|---|
| `hnsw_graph` | four slots, `M` = 2, levels 0 and 1, four points, one update or deletion, one reinsertion, one crash between any two stores | `search` finds the nearest vector and `search_N` the nearest `n`; edges lead to other, counted slots; a list has a slot twice only if it is being rewritten, was when a crash came, or the slot was inserted again; deleted vectors are hidden |
| `wire` | two connections, three calls, both clients, good, bad and too long names, two dimensions, an application that goes on after a failed call | the server takes frames where the client began them and executes each call once; an answer belongs to its call, which was executed; every call ends without the help of a timeout: in all of this but for the four causes of `Spoilt` |
| `layout` | both indexes, two dimensions, capacities and numbers of clusters, three openings in any order, crashes in the creation | with the arguments of the creation, slots read back, edges start empty, stores and `munmap` stay inside the mapping |

`hnsw_graph`: with four slots, a list of level 1 (two places) overflows and the
heuristic chooses anew; a list of level 0 (four places) cannot. `NearestIsFound` makes no
promise once `cut` is set: when a slot has more neighbours at level 0 than its list, or the
list of one of them, has places; when the entry point is deleted; when a crash finds a slot that is linked at an
upper level and not yet with all its neighbours at level 0 (`HalfLinked`; see below for what happens then).
`EfConstruction` is 5, one more than a list of level 0 has places, as the code's 200 is more than its 32.
One reinsertion is enough to find the slot
with old edges from and to it; each of the three exceptions of `EdgesAreDistinct` is reached. The run has 1.6 million
distinct states. `wire`: two connections are the least in
which an earlier thread works on after its client has left, three calls the
least in which a failed one is followed by another on the same connection after the
selection; the three commands stand for the three shapes of frames and answers (a
handshake, a vector and an answer of eight bytes, a header alone), and six bytes are a `sendall` that
stops one byte after the header. `layout`: two of each parameter suffice to make one larger in one place and smaller in
another; the proofs of section 4 have no such bounds.

In the engine's runs, two crashes are the least that let a crash hit an operation on a state that a
crash has already left; two slots and two ids the least in which a slot is
reused while another is in use; two threads the least that meet in the gap of
`insert_auto`. Two vectors suffice to tell an old value from a new one, as
vectors are only compared for equality, which also makes the symmetry sound
(threads are alike too). `MaxListed` cuts the unbounded growth of list entries
(see below): a reinsertion beyond it is not taken. `CHECK_DEADLOCK FALSE`
because clients may use up the ids they may use, and the server may be idle.

**Fairness.** `FairSpec` asks weak fairness of each thread's next step inside an
operation: `LockedStep(t)`. The code holds the lock across no wait, socket or
condition, so the operating system's scheduler is what is assumed. Calls, faults
and crashes are not fair: nobody has to call. In the server, `FairSpec` asks it
of `Locked(c)`, the next step of a thread that holds the catalog's lock or a
database's: between taking and releasing these it waits for no client; it does
wait for PostgreSQL, whose transactions are assumed to end, well or badly. In `Wire`,
`FairSpec` asks it of `ServerStep(c)` and of `ClientStep(c)`, the receiving of an answer or of
the end of the connection: threads run and bytes that were sent arrive or the
connection is reported broken. Calls, timeouts, closing, exceptions and
losses are not fair, so that `CallEnds` does not rest on a timeout.

### Where the code and its documents part

Each of these runs has one property that a document or a test states, and TLC
finds it violated.

| run | document | code |
|---|---|---|
| `engine_compaction_crash` | CHANGELOG.md:53: the log is "rewritten atomically" | the log is removed (446) before the new one is renamed (448) and nothing reads the temporary file: a crash in between undoes every deletion |
| `server_shared_pointer` | server.cpp:339: "active_db is already selected; grab its name from the catalog" | a drop clears the pointers of its own thread only (358): the other connections of the database keep a pointer to what was destroyed |
| `hnsw_deleted_entry` | PROTOCOL.md:63: a search answers -1 "if the database is empty" | deleted slots are no candidates for the edges of a new one (hnsw_manager.hpp:472): inserted after the deletion of the only other vector, a vector is linked to nothing, and every search, from the deleted entry point, answers -1 |
| `layout_other_capacity` | PROTOCOL.md:37: the capacity of a selection is "only used if the database doesn't exist yet" | the pointers of an existing file are computed from it (engine.cpp:631-649): slots are read from, and written to, other places |

Further disagreements that the models have as steps, without a run of their own.
The first seven are the conditions under which properties above are stated.

* A reinsertion is not taken out of the log (engine.cpp:97): a restart deletes the
  vector. README.md:43 says data is persisted. `RestartLosesOnlyReinserted` says that
  nothing else is lost.
* An id inserted while it is in use has two slots (engine.cpp:143-202), and deletion
  hides one. PROTOCOL.md:67 says a deleted vector is "excluded from future searches".
  This is what the constant `InsertLive` allows.
* With another `REDBOX_DATA_DIR`, a start opens its files there (server.cpp:494), and creates
  empty ones for the databases that selections made in the working directory (167).
  PROTOCOL.md:36 says that selecting an existing database "just opens it". This is `SameDir`.
* After a refused name the dimension and the capacity are still to be read, and are taken for a
  header (server.cpp:143-148); PROTOCOL.md:86 says that the connection stays open and one
  can retry, and that the answer is '0', which is the byte 0. The reference client
  takes that byte for success (Client/client.py:59).
* The SDK's handshake sends no capacity (redbox-sdk/redboxdb/client.py:121-125), the server
  waits for it (server.cpp:154): neither goes on.
* A client that was told '1' by a selection with another dimension sends as many floats as it
  asked for, the server waits for as many as the database has (server.cpp:254).
* The reference client's answer to a timeout is an exception; an application that goes on with the
  connection reads the late answer as the next call's.
* A new HNSW vector that is far from all its neighbours is dropped from their full lists
  (hnsw_manager.hpp:487-508) and no search meets it; the comment at 474 speaks of a
  "well-connected graph". `HnswManager` has this with lists of level 0 that overflow.
* A crash between the counting of the first slot and the entry point leaves `EMPTY` as the entry
  point of a database that is not empty, and a search reads the slot of that number
  (hnsw_manager.hpp:543). In the model this slot does not exist; `DeletedAreHidden`
  therefore speaks of graphs that are initialised, and `NearestIsFound` of
  databases in which an insertion was answered.
* `set_neighbors` overwrites a list in place (hnsw_manager.hpp:379-381). A crash after the first store of `[far, near]`
  becoming `[near, new]` leaves `[near, near]` (`torn`): the list is read as it is after the restart, with one place
  lost to a slot that is there twice.
* HNSW.md:228 says that `ef_construction` is doubled at level 0; the code (471) does not.
* A crash among the edges back at level 0 of a slot that has edges at an upper level leaves a slot that
  searches reach and from which they do not reach all others; an insertion that starts there is linked to a
  part of the graph only (hnsw_manager.hpp:470-511; `HalfLinked`).
* With an `ef_construction` not above the length of the lists of level 0, deletions can take the last path
  to a vector: `BeamIsWide` of section 4 excludes it. With `M` = 1 the level is divided by log(1) = 0 (27). `GraphAssumption` leaves
  that out.
* A file opened as one of the other index has null pointers, and the first insertion ends the
  process (`AddToNullPointer`, engine.cpp:638-644).
* A crash in the creation before the version is set leaves a file that every later opening
  refuses as "legacy" (engine.cpp:679); one after it leaves a file that is opened with half a header,
  and with edges that all lead to slot 0 (`cut`). A refused opening still makes the file longer
  (616).

* Once the centroids exist, each delete and insert cycle of an id adds an entry for
  its slot to a list (engine.cpp:123) and `search_N` returns the id as often;
  the test of such cycles (test_main.cpp:651) stays below the k-means threshold.
* An insert into a full database returns like any other and is answered '1'
  (`DropInsert`, engine.cpp:146-148); DEPLOYMENT.md:76 says it is rejected.
* A selection with another dimension is acknowledged, as PROTOCOL.md:39 says, if
  the database is open; if it is only on disk the constructor throws
  (`OpenThrows`, engine.cpp:690) and the connection ends.
* With another `REDBOX_DATA_DIR`, a drop deletes the files in the working directory
  (`RemoveDb`, 356) and leaves those a start has opened elsewhere; PROTOCOL.md:121
  says it deletes the files.
* Every start after a `CREATE_HNSW_DB` loses PostgreSQL (metadata_store.cpp:64, 107; server.cpp:510), although
  PROTOCOL.md:162-175 makes the answer of `LIST_DBS` depend on the build and the configuration only; CreateHnswDatabase in
  tests/test_metadata_store.cpp:74-94 loads a row with the entry point 0, and so does not meet it.
* After a start that lost PostgreSQL (`RestartLosesMeta`) a drop leaves the row
  (350), and a later start creates the database again, empty. `DroppedIsGone`
  is therefore checked, and proved, for servers without HNSW databases on which starts do not fail.

## 4. Proofs

Each theorem holds for every value of the constants, under the `ASSUME`s of the modules, which say no
more than that these are of their types, that bounds are natural numbers and that the answers are not
vectors. Hypotheses beyond that are named with the theorem; they are what clients do, or which failure
is left out, and section 3 shows with a run or a document what happens without them.

### The engine, for any clients (`RedBoxVectorProofs`)

* `TypeCorrect`: `Spec => []TypeOK`. Types alone are not inductive: an insert that
  raises the count has checked the capacity two steps ago, and an update writes
  through a slot number it was handed by the index. `IndInv` adds
  `LockInv` (a thread is inside an operation if and only if it holds the lock),
  `ArgInv` (its slot is a used one that holds its id, or the one past the end, and
  there is one) and `MapInv` (the index sends an id to a used slot that holds it).
  There is one lemma for each action; the three ways an operation moves on
  (`Begin`, `Goto`, `Finish`) have one each for the lock, and
  `OthersKeepArgs` says once that a step of one thread leaves the others'
  operands right. For the restart, `LastSlotExists` shows that the last slot of
  an id exists, by well-foundedness of `<` on the distance from the end.
* `DeletionsAreDurable`: if `append` and `rename` do not fail,
  `Spec => DeletedComeBackOnlyFromRename`. `TombInv` says of each deleted id that it
  is in the log, or about to be appended and then not answered yet, or that a
  thread stands before the rename, and that the temporary file then holds all
  deleted ids. So the window of `engine_compaction_crash` is the only one.
* `LostTombstonesAreCounted` (if `append` does not fail) and `CompactionKeepsUp` (whatever fails) are about the
  length of the log. `CountInv` says that the engine's count of entries is never below the log's, that a
  compaction that is under way is needed, and that the log either has every deleted id or is counted as too
  long. The last part rests on cardinalities: compaction sets the count to the number of deleted ids only
  when it wrote exactly those.
* `ListsMatch` and `KMeansRuns`, from `ListInv`: once centroids exist, each used slot without the flag of a
  deletion is in its list or a thread is about to put it there; and nobody who still has kmeans before
  it can see `is_initialized`.

### The engine, for clients that keep a discipline (`RedBoxVectorSlotProofs`)

All of these assume that the ids clients choose are not among those `insert_auto` counts through
(`RangesApart`), as the tests take for granted (tests/test_main.cpp:311); all but the first that no id in use is
inserted (`InsertLive = FALSE`).

| theorem | further hypotheses | property |
|---|---|---|
| `NewAutoIds` | | `AutoIdsAreNew` |
| `RestartLosesReinserted` | `append` and `rename` do not fail | `RestartLosesOnlyReinserted` |
| `StoredAreFound`, `DeletedAreHidden` | no id is used twice, or the process is not restarted | `SearchFindsStored`, `SearchHidesDeleted` |
| `NoDuplicates` | no id is used twice | `SearchHasNoDuplicates` |
| `Implements` | no id is used twice | `ImplementsVectorStore`, the refinement |

* `IdInv`: what is deleted or logged has a slot, each automatic id in a slot is below `next_id`, and an id that
  a thread carries between the two locks of `insert_auto` has no slot and is carried by nobody else.
* `SlotInv`: no two slots have one id; a slot is in use, or deleted (its flag, `deleted_ids` and the index agree), or
  is the one a thread is inserting into. It is where the three records of section 1 are related.
* `OnceLogInv`: for clients that use no id twice the log has only ids that are deleted now, each once. Its length
  is therefore never above the number of deletions, and **compaction never runs**, whatever fails: this is why
  the refinement holds although `engine_compaction_crash` shows that a crash in a compaction undoes deletions.
* `AnswerInv` relates `acked` to memory, file and log at every step of every operation, a crash
  between any two included; `OnceListInv` says that a slot is in at most one list, once. The refinement
  mapping is `OnDisk(id)`; `OnDiskIs` replaces its `CHOOSE` by the facts the proof needs. There is one
  lemma for each action that changes the abstract map and one (`QuietStepStutters`) for all that do not.

### The server

`IndInv` (`ServerProofs`) adds to the types: `LockInv` (the catalog's lock is with the thread that is inside a
selection or a drop, a database's mutex with a thread in a call to it), `ArgInv` (what a thread still knows of
the name and the address it looked up steps ago) and `CatalogInv` (the catalog and the engines are
inverse to each other and every engine's file exists). `TypeCorrect` and `OneEngine` follow. A start is the
hard step: `LoadMeans` says what is open after it, wherever in memory the engines are put.

* `ServerPointerProofs` assumes `DropShared = FALSE`: clients drop only what no other connection has selected
  (`server_shared_pointer` shows the rest). `PointerInv`: the catalog has every thread's `active_db` under its
  `active_db_name`, but for the thread that has just destroyed it; nobody shares the pointer of a thread inside a
  drop, nobody has yet that of a database whose selection is not complete; and a thread in a call holds its mutex. From it
  `NoUseAfterPrivateDrop` and `CommandsReachTheirs`; and, with `SameDir`, `StoredServed`: an insertion counts for the
  name its connection selected and adds to the file behind its pointer, so that the two must be one database's
  across every interleaving, and a file may shrink only in a drop of its own name. `MirroredCounts` (with `SameDir`) needs `MirrorInv` too: the count a
  thread carries to its row is at most its file's, which only grows while the thread's pointer keeps the file
  from being dropped.
* `ServerRowsProofs` has no assumption about drops. The three records of a database are changed one after the other;
  `RowInv` says of each difference between them which thread is at which step of a selection or a drop, so that there
  is none when the catalog's lock is free: `RowsMatch`. `DroppedStaysGone` (with `SameDir`, no HNSW database and no failing starts) rests on `GoneInv`: every row has its file's dimension
  and nothing is in the other directory, so that a start opens what the rows say and makes nothing; a thread that goes on with a drop
  has the row behind it; a dropped name is not being opened.

### The wire (`WireProofs`)

No hypotheses, any number of connections and calls. `TypeCorrect`, `Agreement` (`FramesAgree`) and
`RightAnswers` (`AnswersMatch`) follow from one inductive invariant: `Shapes` (types), `CallsInv` (calls are
made one after the other and the last alone may wait), `ThreadInv` (what a thread wants, at each phase)
and `StreamInv`. The latter is the reason why the protocol works where it does: on a connection without one
of the four causes at most one call is without an answer; the bytes on their way to the server are the
frame of that call from the place the thread has reached, those on their way back are none or all of its
answer; and if every call has its answer nothing is under way. The causes are what breaks exactly
this: a frame cut short, a frame whose length the two ends count differently, or an answer nobody waits for.

### The layout

`StorageLayoutProofs` holds for every set of dimensions, capacities, numbers of clusters and
`M`, the numbers of the code's own blocks being what they are. `LayoutAssumption` asks that dimensions
and `M` are not 0.

* `Places` puts each part of a slot into its block, `PartsApart` says that no two parts of slots below
  the capacity share a byte, `PartsAreAreas` that they end before the file does. The arithmetic
  is in `Cell` and `CellBelow`: a slot's cell ends at the latest where the next begins.
* `IInv` is the inductive invariant: `Shape` (types, and the extents lie in the file), `Opened` (an opening
  maps what its arguments need), `Written` (what the header can say at each point of the creation,
  and what a crash leaves of it) and `Content` (what the extents hold, as long as only the
  arguments of the creation were used). `SlotsReadBack` alone is not inductive: a store keeps the
  other slots only because extents are apart (`Apart`), and slots are below the capacity of the creation only
  because the header that counts them has that capacity once the version is set.
* From it follow `TypeCorrect`, `SlotsAreReadBack`, `EdgesAreEmptyAtFirst`, `WhatIsUnmappedWasMapped`, and
  `NothingLeavesTheMapping`, the action property `StoresStayInside`. The latter needs
  `TotalIsMapped`: after a creation that was cut, the destructor unmaps less than was mapped, never more.

### The HNSW index

`HnswManagerProofs` holds for every capacity, `M` above 1, number of levels, beam widths and set of points
(`VecsAssumption`: points of the plane, so that distances are never negative). Two points may be equally far there: `Least` is any
nearest one. `TypeCorrect`, `EdgesSound` (`EdgesAreSound`), `EdgesDistinct` (`EdgesAreDistinct`) and
`DeletedHidden` (`DeletedAreHidden`) follow from `IInv`.

* The descent, the beam search, the sorts and the selection of neighbours are recursive functions, of which nothing
  is known until they are shown to exist. Each calls itself at most once, with an argument of less weight: for the
  greedy walk the number of counted slots that are nearer, for the beam search the candidates and twice the slots not
  met yet. `Recursion` proves once, by the well-foundedness of `<`, that such a function exists,
  `RecursionKeeps` that what holds where it stops and is kept by a call holds of all its values. So the proofs
  also say that the code's loops end.
* `WalkIs`, `DescendIs` and `LayerIs`: a walk that starts in a set of slots no edge leaves (`Closed`) stays in it, and
  a layer search finds in it only what is not flagged. `OrderOf`, `SortedListIs` and `HeuristicIs`: sorting and selecting
  neither invent nor double a slot.
* `Apart` is the strengthening that `EdgesAreSound` needs, which is not inductive: were the slot that is inserted met by its
  own search, it would get an edge to itself. At a level not yet linked nothing leads to it but the edges back it has
  been given, so that all others are a closed set. For a reinsertion this is false, as old edges still lead to
  the slot; there it is the flag, cleared only with the answer, that keeps the slot out of the results
  (`LinkInv`). `EdgesAreDistinct` needs `Apart` too, and `SetInv` about the list that is
  being written: it is a selection without repetition, unless the list it replaces was torn, and a list that gets
  the new slot is of a slot that is no longer in `todo`. Each store of
  `set_neighbors` leaves a mixture of two lists until its last one, hence the exceptions. `OpInv` says what the
  writer holds between two stores, `CountedInv` that what is counted has a
  vector, `FlagInv` that an answered deletion is in both records of it.

`NearestFound` (`NearestIsFound`) is about the geometry of the graph. Its hypothesis is `BeamIsWide`,
`EfConstruction > 2 * M`; the defaults are 200 and 16 (storage_manager.hpp:57),
and a client that asks for others may be outside it (server.cpp:216-219). It says what the code
promises of graphs that fit into the lists of level 0; the recall of larger ones is not promised by the code
and not stated here.

* A found vector is the nearest if the search cannot stop before it meets it. The reason is `Whole`: each
  two slots of the `Core` have an edge at level 0. Then any search that enters the core at level 0 has all of it
  before it after one expansion. `LayerIs`, with `Covered` and `Fair`, says so for every width of the beam: what a search
  does not return is no nearer than all it returns, and it returns as many as it may.
* The `Core` is not the stored slots. It has also those that a crash left unanswered and that a walk may still
  enter, which are those with an edge to them at an upper level, or soon with one by the list that is being written (`HasUpper`), and the slot that is being inserted once all its
  edges are set; a deleted slot, whose flag hides it, is not in it. `CoreClosed`: at the upper levels
  the live neighbours of core slots are in the core, so the descent from the entry point ends there (`Entered`,
  `Started`).
* `Joining` is the state between two stores at level 0: the list being written is the new slot's and has all the core; once it is written
  the new slot has edges to all the core, those with an edge back
  are the core without `todo`. `AllAreSelected` is why none is missing: results that all find a place are all
  selected, as the heuristic drops some only if it can fill the list with others.
  That the results are the whole core needs `BeamIsWide`: a beam that is full would hide that there were
  more, and `cut` would not be set.
* `FirstInv` (before the first entry point there is no edge and nothing is stored) and `HeldInv`
  (each flag has its tombstone, and of the slot under way nothing was answered) are what the restart and the reinsertion need.
* The exception for crashes is as wide as `HalfLinked` because the proof asked for it. With one for a
  crash between two levels only, the step of `Restart` cannot be proved, and TLC finds, with three
  levels and two changes, the insertion that is then linked to a part of the graph.

### Model-checked only

`LockIsReleased`, `LocksAreReleased` and `CallEnds`: liveness under fairness.

## 5. Not modelled, and what is left to prove

Every safety property of the runs that pass is proved, each under the hypotheses of section 4.

Not modelled, and why:

* floating point: distances, their AVX2 path and rounding, centroid values, recall; TLC has
  integers. The IVF search with fewer probes than clusters, and `num_probes` above the number of
  clusters, where the code reads past the end of a vector (engine.cpp:280);
* the contents of `LIST_DBS` and `DB_INFO`, the audit log in PostgreSQL and the logger: they report, and
  nothing depends on them;
* ids above 2^31, which the engine truncates to `int` in one place (engine.cpp:312);
* `set_num_probes` and `set_hnsw_ef_search`, which store to the header without the lock (501) while a
  search may read it: one byte, or one word, of the value before or after;
* crashes of the machine and files on a full disk (`StorageLayout` takes `ftruncate` and `mmap` to succeed).

Nothing of the example program, the benchmarks and the build has state of its own.
