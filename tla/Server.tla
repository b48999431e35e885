-------------------------------- MODULE Server --------------------------------
(***************************************************************************)
(* RedBoxServer: the catalog of open databases, one thread per connection, *)
(* the files and the rows each database consists of, and the crash and     *)
(* start of the server.                                                    *)
(*                                                                         *)
(* A thread keeps plain pointers to the engine and the mutex of its active *)
(* database.  catalog_mutex guards the catalog, the mutex of a database    *)
(* guards calls to its engine, and DROP_DB, which destroys both, takes the *)
(* first only.  An engine lives at an address; a destroyed one leaves its  *)
(* address to be used again.  When a thread uses an address at which       *)
(* nothing lives anything may happen: wild becomes true and the model      *)
(* stops there.                                                            *)
(*                                                                         *)
(* The engine's calls are atomic here (RedBoxVector is about what happens  *)
(* in them), and of its contents there is the number of vectors.           *)
(***************************************************************************)
EXTENDS MetadataStore, Functions

CONSTANTS
    Clients, NoClient,      \* connections, and nobody
    NoName,
    Addresses, NoEngine,    \* where engines may live, and the null pointer
    WithMeta,               \* is PostgreSQL configured?
    SameDir,                \* is REDBOX_DATA_DIR the working directory?
    StartFails,             \* may a start lose PostgreSQL?
    DropShared,             \* do clients drop databases others have selected?
    MaxCount,               \* capacity of every database
    MaxRestarts,            \* bound on restarts
    MaxFaults               \* bound on failing transactions

ASSUME ClientsAssumption == NoClient \notin Clients
ASSUME NamesAssumption == NoName \notin Names
ASSUME AddressesAssumption == NoEngine \notin Addresses
ASSUME SettingsAssumption ==
    {WithMeta, SameDir, StartFails, DropShared} \subseteq BOOLEAN
ASSUME ServerBoundsAssumption ==
    MaxCount \in Nat \ {0} /\ MaxRestarts \in Nat /\ MaxFaults \in Nat

Dirs    == {"working", "data"}
DataDir == IF SameDir THEN "working" ELSE "data"
NoFile  == [dim |-> 0, count |-> 0]
Freed   == [name |-> NoName, dir |-> "working"]

VARIABLES
    \* on disk
    db_files,        \* the .db file of each name in each directory
    del_files,       \* the names that have a .db.del file, in each directory
    \* the process
    meta,            \* has it a connection to PostgreSQL?
    catalog,         \* state.catalog and state.db_mutexes: name to address
    engines,         \* what lives at each address: the file it has mapped
    catalog_mutex,   \* the connection whose thread holds it
    db_mutex,        \* for each address, the connection that is in a call
    \* each connection's thread
    pc, active_db, active_db_name,
    arg,             \* name and dimension of the database in the handshake or
                     \* drop, count for the mirror
    \* history
    wild,            \* a destroyed engine was used
    dropped,         \* the names whose drop was answered and that nobody
                     \* selected since
    stored,          \* how many vectors commands on each name have stored,
                     \* since the last drop of it was begun
    restarts, faults

disk    == <<db_files, del_files>>
shared  == <<meta, catalog, engines, catalog_mutex>>
threads == <<pc, active_db, active_db_name, arg>>
history == <<wild, dropped, stored, restarts, faults>>
vars    == <<databases, disk, shared, db_mutex, threads, history>>

NoArg == [name |-> NoName, dim |-> 0, count |-> 0]

InHandshake == {"open", "register", "check"}
InDrop      == {"drop", "drop_row", "erase", "remove_db", "remove_del"}
InCommand   == {"payload", "call", "count", "mirror"}
Steps       == {"closed", "idle"} \cup InHandshake \cup InDrop \cup InCommand

(* Every variable ranges over the values its declaration in the code has.  *)
TypeOK ==
    /\ MetadataTypeOK
    /\ db_files \in [Dirs -> [Names -> [dim : Dims, count : 0 .. MaxCount] \cup {NoFile}]]
    /\ del_files \in [Dirs -> SUBSET Names]
    /\ meta \in BOOLEAN
    /\ catalog \in [Names -> Addresses \cup {NoEngine}]
    /\ engines \in [Addresses -> [name : Names, dir : Dirs] \cup {Freed}]
    /\ catalog_mutex \in Clients \cup {NoClient}
    /\ db_mutex \in [Addresses -> Clients \cup {NoClient}]
    /\ pc \in [Clients -> Steps]
    /\ active_db \in [Clients -> Addresses \cup {NoEngine}]
    /\ active_db_name \in [Clients -> Names \cup {NoName}]
    /\ arg \in [Clients -> [name : Names \cup {NoName}, dim : Dims \cup {0},
                            count : 0 .. MaxCount]]
    /\ wild \in BOOLEAN
    /\ dropped \subseteq Names
    /\ stored \in [Names -> Nat]
    /\ restarts \in 0 .. MaxRestarts
    /\ faults \in 0 .. MaxFaults

Init ==
    /\ databases = [n \in Names |-> NoRow]
    /\ db_files = [d \in Dirs |-> [n \in Names |-> NoFile]]
    /\ del_files = [d \in Dirs |-> {}]
    /\ meta = WithMeta
    /\ catalog = [n \in Names |-> NoEngine]
    /\ engines = [a \in Addresses |-> Freed]
    /\ catalog_mutex = NoClient
    /\ db_mutex = [a \in Addresses |-> NoClient]
    /\ pc = [c \in Clients |-> "closed"]
    /\ active_db = [c \in Clients |-> NoEngine]
    /\ active_db_name = [c \in Clients |-> NoName]
    /\ arg = [c \in Clients |-> NoArg]
    /\ wild = FALSE
    /\ dropped = {}
    /\ stored = [n \in Names |-> 0]
    /\ restarts = 0
    /\ faults = 0

-----------------------------------------------------------------------------
(* Connections.                                                            *)

Goto(c, step) ==
    /\ pc' = [pc EXCEPT ![c] = step]
    /\ UNCHANGED <<active_db, active_db_name, arg>>

(* The thread leaves its loop or its try block: locals and locks go.       *)
Hangup(c) ==
    /\ pc' = [pc EXCEPT ![c] = "closed"]
    /\ active_db' = [active_db EXCEPT ![c] = NoEngine]
    /\ active_db_name' = [active_db_name EXCEPT ![c] = NoName]
    /\ arg' = [arg EXCEPT ![c] = NoArg]

NothingElse == UNCHANGED <<databases, disk, shared, db_mutex, history>>

Connect(c) ==
    /\ pc[c] = "closed"
    /\ Goto(c, "idle")
    /\ NothingElse

Disconnect(c) ==
    /\ pc[c] \in {"idle", "payload"}
    /\ Hangup(c)
    /\ NothingElse

(* Something lives where c's pointer points.                               *)
Alive(c) == engines[active_db[c]] # Freed

-----------------------------------------------------------------------------
(* SELECT_DB and CREATE_HNSW_DB.                                           *)

(* SELECT_DB goes on to compare dimensions, CREATE_HNSW_DB to its answer.  *)
AfterActivate == {"check", "idle"}

Point(c, a) ==
    /\ \E step \in AfterActivate : pc' = [pc EXCEPT ![c] = step]
    /\ active_db' = [active_db EXCEPT ![c] = a]
    /\ arg' = [arg EXCEPT ![c] = NoArg]

(* Mutant: active_db_name is left from the last selection.                 *)
ActivateKeepingName(c, n, a) ==
    /\ Point(c, a)
    /\ active_db_name' = [active_db_name EXCEPT ![c] = IF @ = NoName THEN n ELSE @]

Activate(c, n, a) ==
    /\ Point(c, a)
    /\ active_db_name' = [active_db_name EXCEPT ![c] = n]

(* Clients that do not drop what others use select nothing being dropped.  *)
MaySelect(n) ==
    DropShared \/ \A d \in Clients : pc[d] = "drop" => active_db_name[d] # n

(* The database is open: whatever dimension was asked for, it is taken.    *)
SelectOpen(c, n) ==
    /\ pc[c] = "idle" /\ catalog_mutex = NoClient /\ MaySelect(n)
    /\ catalog[n] # NoEngine
    /\ Activate(c, n, catalog[n])
    /\ NothingElse

(* It is not in the catalog: the thread will open it.                      *)
NotOpen(c, n, dim) ==
    /\ pc[c] = "idle" /\ catalog_mutex = NoClient
    /\ catalog[n] = NoEngine
    /\ pc' = [pc EXCEPT ![c] = "open"]
    /\ arg' = [arg EXCEPT ![c] = [name |-> n, dim |-> dim, count |-> 0]]
    /\ dropped' = dropped \ {n}
    /\ UNCHANGED <<databases, disk, meta, catalog, engines, db_mutex, active_db,
                   active_db_name, wild, stored, restarts, faults>>

(* Mutant: the lock is not kept while the database is opened.              *)
SelectClosedUnlocked(c, n, dim) == NotOpen(c, n, dim) /\ UNCHANGED catalog_mutex

SelectClosed(c, n, dim) == NotOpen(c, n, dim) /\ catalog_mutex' = c

(* Mutant: the constructor starts every file afresh.                       *)
OpenedAfresh(file, dim) == [dim |-> dim, count |-> 0]

(* The file as the constructor leaves it: made if there was none.          *)
Opened(file, dim) == IF file = NoFile THEN [dim |-> dim, count |-> 0] ELSE file

(* The constructor maps the file in the working directory ...              *)
Open(c) ==
    /\ pc[c] = "open"
    /\ LET n    == arg[c].name
           file == db_files["working"][n] IN
       /\ file = NoFile \/ file.dim = arg[c].dim
       /\ db_files' = [db_files EXCEPT !["working"][n] = Opened(file, arg[c].dim)]
       /\ \E a \in Addresses :
             /\ engines[a] = Freed
             /\ engines' = [engines EXCEPT ![a] = [name |-> n, dir |-> "working"]]
             /\ catalog' = [catalog EXCEPT ![n] = a]
             /\ IF meta THEN Goto(c, "register") /\ UNCHANGED catalog_mutex
                ELSE Activate(c, n, a) /\ catalog_mutex' = NoClient
    /\ UNCHANGED <<databases, del_files, meta, db_mutex, history>>

(* ... or finds another dimension in it and throws.                        *)
OpenThrows(c) ==
    /\ pc[c] = "open"
    /\ db_files["working"][arg[c].name].dim \notin {0, arg[c].dim}
    /\ catalog_mutex' = NoClient
    /\ Hangup(c)
    /\ UNCHANGED <<databases, disk, meta, catalog, engines, db_mutex, history>>

Register(c) ==
    /\ pc[c] = "register"
    /\ LET n == arg[c].name IN
       /\ CreateDatabase(n, arg[c].dim, db_files["working"][n].count)
       /\ Activate(c, n, catalog[n])
    /\ catalog_mutex' = NoClient
    /\ UNCHANGED <<disk, meta, catalog, engines, db_mutex, history>>

(* SELECT_DB asks the engine its dimension, and only warns.                *)
CheckDimension(c) ==
    /\ pc[c] = "check" /\ Alive(c)
    /\ Goto(c, "idle")
    /\ NothingElse

-----------------------------------------------------------------------------
(* Commands on the active database.                                        *)

NoActive(c) ==
    /\ pc[c] = "idle" /\ active_db[c] = NoEngine
    /\ Hangup(c)
    /\ NothingElse

(* The dimension says how much payload to wait for.                        *)
StartCommand(c) ==
    /\ pc[c] = "idle" /\ active_db[c] # NoEngine /\ Alive(c)
    /\ Goto(c, "payload")
    /\ NothingElse

(* Commands that only read or set a parameter take no lock.                *)
OtherCommand(c) ==
    /\ pc[c] = "payload"
    /\ Goto(c, "idle")
    /\ NothingElse

BeginCall(c) ==
    /\ pc[c] = "payload" /\ Alive(c)
    /\ db_mutex[active_db[c]] = NoClient
    /\ db_mutex' = [db_mutex EXCEPT ![active_db[c]] = c]
    /\ Goto(c, "call")
    /\ UNCHANGED <<databases, disk, shared, history>>

InCall(c) == pc[c] = "call" /\ Alive(c) /\ db_mutex[active_db[c]] = c

Unlock(c) == db_mutex' = [db_mutex EXCEPT ![active_db[c]] = NoClient]

MirrorNext(c) == Goto(c, IF meta THEN "count" ELSE "idle")

CountOf(e) == db_files[e.dir][e.name].count

(* Mutant: the call has no look at the capacity.                           *)
AddUnbounded(c) ==
    LET e == engines[active_db[c]] IN
    db_files' = [db_files EXCEPT ![e.dir][e.name].count = @ + 1]

(* The vector takes a new slot, if there is one.                           *)
Add(c) ==
    LET e == engines[active_db[c]] IN
    db_files' = [db_files EXCEPT ![e.dir][e.name].count = IF @ < MaxCount THEN @ + 1 ELSE @]

(* An INSERT of a new id, or an INSERT_AUTO.                               *)
Insert(c) ==
    /\ InCall(c)
    /\ Add(c)
    /\ stored' = IF CountOf(engines[active_db[c]]) < MaxCount
                 THEN [stored EXCEPT ![active_db_name[c]] = @ + 1] ELSE stored
    /\ Unlock(c) /\ MirrorNext(c)
    /\ UNCHANGED <<databases, del_files, shared, wild, dropped, restarts, faults>>

(* A DELETE that finds its vector; or an INSERT of a deleted id.           *)
Delete(c) ==
    /\ InCall(c)
    /\ LET e == engines[active_db[c]] IN
       /\ CountOf(e) > 0
       /\ del_files' = [del_files EXCEPT ![e.dir] = @ \cup {e.name}]
    /\ Unlock(c) /\ MirrorNext(c)
    /\ UNCHANGED <<databases, db_files, shared, history>>

(* An UPDATE, a search, a DELETE that finds nothing.                       *)
OtherCall(c) ==
    /\ InCall(c)
    /\ Unlock(c) /\ Goto(c, "idle")
    /\ UNCHANGED <<databases, disk, shared, history>>

CountRead(c, count) ==
    /\ pc[c] = "count" /\ Alive(c)
    /\ pc' = [pc EXCEPT ![c] = "mirror"]
    /\ arg' = [arg EXCEPT ![c].count = count]
    /\ UNCHANGED <<active_db, active_db_name>> /\ NothingElse

(* Mutant: next_id is passed for the count.                                *)
ReadNextId(c) == CountRead(c, CountOf(engines[active_db[c]]) + 1)

(* With the mutex released, the count is read for the mirror ...           *)
ReadCount(c) == CountRead(c, CountOf(engines[active_db[c]]))

(* ... and written, and the client has its answer.                         *)
Mirror(c) ==
    /\ pc[c] = "mirror"
    /\ UpdateCounts(active_db_name[c], arg[c].count)
    /\ pc' = [pc EXCEPT ![c] = "idle"]
    /\ arg' = [arg EXCEPT ![c] = NoArg]
    /\ UNCHANGED <<disk, shared, db_mutex, active_db, active_db_name, history>>


-----------------------------------------------------------------------------
(* DROP_DB.                                                                *)

MayDrop(c) ==
    DropShared \/ \A d \in Clients \ {c} : active_db[d] # active_db[c]

(* Like every command it asks the engine its dimension first.              *)
StartDrop(c) ==
    /\ pc[c] = "idle" /\ active_db[c] # NoEngine /\ Alive(c) /\ MayDrop(c)
    /\ Goto(c, "drop")
    /\ NothingElse

(* The catalog is searched for the pointer.                                *)
FindInCatalog(c, n) ==
    /\ pc[c] = "drop" /\ catalog_mutex = NoClient
    /\ catalog[n] = active_db[c]
    /\ catalog_mutex' = c
    /\ pc' = [pc EXCEPT ![c] = IF meta THEN "drop_row" ELSE "erase"]
    /\ arg' = [arg EXCEPT ![c].name = n]
    /\ stored' = [stored EXCEPT ![n] = 0]
    /\ UNCHANGED <<databases, disk, meta, catalog, engines, db_mutex, active_db,
                   active_db_name, wild, dropped, restarts, faults>>

(* It is not there: the answer is '0', and the pointer stays.              *)
NotInCatalog(c) ==
    /\ pc[c] = "drop" /\ catalog_mutex = NoClient
    /\ \A n \in Names : catalog[n] # active_db[c]
    /\ Goto(c, "idle")
    /\ NothingElse

DropRow(c) ==
    /\ pc[c] = "drop_row"
    /\ DropDatabase(arg[c].name)
    /\ Goto(c, "erase")
    /\ UNCHANGED <<disk, shared, db_mutex, history>>

(* The engine and its mutex are destroyed, whoever is using them.          *)
Erase(c) ==
    /\ pc[c] = "erase"
    /\ LET a == catalog[arg[c].name] IN
       /\ engines' = [engines EXCEPT ![a] = Freed]
       /\ db_mutex' = [db_mutex EXCEPT ![a] = NoClient]
    /\ catalog' = [catalog EXCEPT ![arg[c].name] = NoEngine]
    /\ Goto(c, "remove_db")
    /\ UNCHANGED <<databases, disk, meta, catalog_mutex, history>>

RemoveDb(c) ==
    /\ pc[c] = "remove_db"
    /\ db_files' = [db_files EXCEPT !["working"][arg[c].name] = NoFile]
    /\ Goto(c, "remove_del")
    /\ UNCHANGED <<databases, del_files, shared, db_mutex, history>>

RemoveLast(c) ==
    /\ pc[c] = "remove_del"
    /\ del_files' = [del_files EXCEPT !["working"] = @ \ {arg[c].name}]
    /\ dropped' = dropped \cup {arg[c].name}
    /\ catalog_mutex' = NoClient
    /\ pc' = [pc EXCEPT ![c] = "idle"]
    /\ arg' = [arg EXCEPT ![c] = NoArg]
    /\ UNCHANGED <<databases, db_files, meta, catalog, engines, db_mutex, wild, stored,
                   restarts, faults>>

(* Mutant: active_db is left pointing to what was destroyed.               *)
RemoveDelKeepingPointer(c) == RemoveLast(c) /\ UNCHANGED <<active_db, active_db_name>>

(* The last file goes, the pointer is cleared, the answer is '1'.          *)
RemoveDel(c) ==
    /\ RemoveLast(c)
    /\ active_db' = [active_db EXCEPT ![c] = NoEngine]
    /\ active_db_name' = [active_db_name EXCEPT ![c] = NoName]

-----------------------------------------------------------------------------
(* A transaction fails: the exception ends the connection and the lock.    *)
(* What was done before stays: a database opened for a row that cannot be  *)
(* written, an insertion that is not mirrored.                             *)

InTransaction(c) ==
    /\ pc[c] \in {"register", "mirror", "drop_row"}
    /\ faults < MaxFaults /\ faults' = faults + 1
    /\ UNCHANGED <<databases, disk, meta, catalog, engines, db_mutex, wild, dropped, stored,
                   restarts>>

(* Mutant: the lock is taken and released by hand.                         *)
StoreFailsLocked(c) ==
    /\ InTransaction(c)
    /\ UNCHANGED catalog_mutex
    /\ Hangup(c)

StoreFails(c) ==
    /\ InTransaction(c)
    /\ catalog_mutex' = IF catalog_mutex = c THEN NoClient ELSE catalog_mutex
    /\ Hangup(c)

-----------------------------------------------------------------------------
(* The thread uses a pointer to what was destroyed.                        *)

UsesPointer(c) ==
    \/ pc[c] \in {"check", "payload", "call", "count"}
    \/ pc[c] = "idle" /\ active_db[c] # NoEngine

UseFreed(c) ==
    /\ UsesPointer(c)
    /\ Alive(c) => pc[c] = "call" /\ db_mutex[active_db[c]] # c
    /\ wild' = TRUE
    /\ UNCHANGED <<databases, disk, shared, db_mutex, threads, dropped, stored, restarts, faults>>

-----------------------------------------------------------------------------
(* The process ends at any point, and starts again.                        *)

Mismatched(rows) ==
    {n \in Names : /\ rows[n] # NoRow /\ db_files[DataDir][n] # NoFile
                   /\ rows[n].dim # db_files[DataDir][n].dim}

(* What a start cannot load: a row it cannot read, a file it cannot open.  *)
Bad(rows) == Unreadable(rows) \cup Mismatched(rows)

(* The databases in loaded are opened, in the data directory.              *)
Load(rows, loaded) ==
    /\ db_files' = [db_files EXCEPT ![DataDir] = [n \in Names |->
           IF n \in loaded THEN Opened(@[n], rows[n].dim) ELSE @[n]]]
    /\ \E place \in [loaded -> Addresses] :
          /\ IsInjective(place)
          /\ catalog' = [n \in Names |-> IF n \in loaded THEN place[n] ELSE NoEngine]
          /\ engines' = [a \in Addresses |->
                IF a \in Range(place) THEN [name |-> AntiFunction(place)[a], dir |-> DataDir]
                ELSE Freed]

Stop ==
    /\ restarts < MaxRestarts /\ restarts' = restarts + 1
    /\ catalog_mutex' = NoClient
    /\ db_mutex' = [a \in Addresses |-> NoClient]
    /\ pc' = [c \in Clients |-> "closed"]
    /\ active_db' = [c \in Clients |-> NoEngine]
    /\ active_db_name' = [c \in Clients |-> NoName]
    /\ arg' = [c \in Clients |-> NoArg]
    /\ UNCHANGED <<del_files, wild, dropped, stored, faults>>

(* Every file without a row gets one, every row is loaded.                 *)
Restart ==
    /\ Stop
    /\ WithMeta
    /\ LET rows == Seeded(db_files[DataDir]) IN
       /\ Bad(rows) = {}
       /\ databases' = rows
       /\ Load(rows, {n \in Names : rows[n] # NoRow})
    /\ meta' = TRUE

RestartWithoutMeta ==
    /\ Stop
    /\ ~WithMeta \/ StartFails
    /\ Load(databases, {})
    /\ meta' = FALSE
    /\ UNCHANGED databases

(* A row or file that cannot be loaded, or a failure, ends the loading:    *)
(* what is loaded stays, and the server goes on without PostgreSQL.        *)
RestartLosesMeta ==
    /\ Stop
    /\ WithMeta
    /\ \E seen \in SUBSET Names :
          LET rows == Seeded([n \in Names |-> IF n \in seen THEN db_files[DataDir][n]
                                              ELSE NoFile])
          IN /\ databases' = rows
             /\ (seen = Names => Bad(rows) = {}) => StartFails
             /\ \E loaded \in SUBSET ({n \in Names : rows[n] # NoRow} \ Bad(rows)) :
                   /\ loaded # {} => rows = Seeded(db_files[DataDir])
                   /\ Load(rows, loaded)
    /\ meta' = FALSE

-----------------------------------------------------------------------------

(* What a thread that holds a lock does next.                              *)
Locked(c) ==
    \/ Open(c) \/ OpenThrows(c) \/ Register(c)
    \/ DropRow(c) \/ Erase(c) \/ RemoveDb(c) \/ RemoveDel(c)
    \/ Insert(c) \/ Delete(c) \/ OtherCall(c)

Unlocked(c) ==
    \/ Connect(c) \/ Disconnect(c)
    \/ \E n \in Names : \/ SelectOpen(c, n)
                        \/ \E dim \in Dims : SelectClosed(c, n, dim)
                        \/ FindInCatalog(c, n)
    \/ CheckDimension(c)
    \/ NoActive(c) \/ StartCommand(c) \/ OtherCommand(c) \/ BeginCall(c)
    \/ ReadCount(c) \/ Mirror(c) \/ StoreFails(c)
    \/ StartDrop(c) \/ NotInCatalog(c)
    \/ UseFreed(c)

Next ==
    /\ ~wild
    /\ \/ \E c \in Clients : Locked(c) \/ Unlocked(c)
       \/ Restart \/ RestartWithoutMeta \/ RestartLosesMeta

Spec == Init /\ [][Next]_vars

(* A thread that holds a lock runs on: it waits for no client and for no   *)
(* other lock than the store's own, which is held for a transaction.       *)
FairSpec == Spec /\ \A c \in Clients : WF_vars(~wild /\ Locked(c))

-----------------------------------------------------------------------------
(* Properties.                                                             *)

(* As long as no client drops a database that another has selected, no     *)
(* thread uses an engine, or releases a mutex, that was destroyed: the     *)
(* dropping thread clears its own pointers, and nobody else had any        *)
(* (server.cpp:339-363).                                                   *)
NoUseAfterDrop == ~wild

(* However many connections select a database at once, one engine has its  *)
(* file mapped, and that is the one in the catalog; a second would keep    *)
(* its own index and locks over the same pages (server.cpp:163-184).       *)
OneEnginePerDatabase ==
    \A a \in Addresses : engines[a] # Freed =>
        /\ catalog[engines[a].name] = a
        /\ \A b \in Addresses \ {a} : engines[b].name # engines[a].name

(* What a command changes, in a file and in the mirror, is in the database *)
(* its connection selected last, whatever the connection selected before   *)
(* and whichever addresses were used again (server.cpp:181-183, 256-317).  *)
CommandsReachTheirDatabase ==
    [][\A c \in Clients : pc[c] \in {"call", "mirror"} /\ pc'[c] \notin {pc[c], "closed"} =>
          \A n \in Names \ {active_db_name[c]} :
             /\ databases'[n] = databases[n]
             /\ \A d \in Dirs : /\ db_files'[d][n] = db_files[d][n]
                                /\ n \in del_files'[d] <=> n \in del_files[d]
             /\ engines[active_db[c]].name # n]_vars

(* Whenever the catalog's lock is free and PostgreSQL is there, every row  *)
(* is of a database in the catalog; and unless a transaction failed the    *)
(* catalog, the rows and the files in the data directory are the same      *)
(* databases, also after a crash in the middle of a selection or a drop    *)
(* (server.cpp:163-184, 340-363, 485-508).                                 *)
RowsMatchCatalog ==
    meta /\ catalog_mutex = NoClient =>
        LET opened == {n \in Names : catalog[n] # NoEngine} IN
        /\ Registered \subseteq opened
        /\ faults = 0 =>
              /\ opened = Registered
              /\ SameDir => opened = {n \in Names : db_files[DataDir][n] # NoFile}

(* The mirrored count may lag behind the file's, and go back, as each      *)
(* thread reads it after it released the mutex and writes it in its own    *)
(* time; but what is written to a row was the count of its database        *)
(* (server.cpp:259-266, metadata_store.cpp:118-126).                       *)
MirroredCountIsReal ==
    [][\A n \in Names : databases'[n].count # databases[n].count /\ databases'[n] # NoRow =>
          databases'[n].count <= db_files[IF catalog[n] = NoEngine THEN DataDir
                                          ELSE engines[catalog[n]].dir][n].count]_vars

(* A select of n is served from this file.                                 *)
Serves(n) ==
    IF catalog[n] # NoEngine THEN db_files[engines[catalog[n]].dir][n]
    ELSE db_files["working"][n]

(* Every vector that commands on a name have stored is in the file a       *)
(* select of that name is served from, until a drop of it is begun: the    *)
(* calls went to that database and not to another at the same address, no  *)
(* drop took another's file, and no crash, start or new engine began the   *)
(* file afresh (server.cpp:167-169, 259, 340-363, 485-508).                *)
StoredAreServed == \A n \in Names : stored[n] <= Serves(n).count

(* After a drop was answered with '1', and until somebody selects the name *)
(* again, no trace of the database comes back: not in the catalog, not in  *)
(* PostgreSQL, not on disk, and not with a restart (server.cpp:348-362).   *)
(* This is for servers on which no start loses PostgreSQL, so none with an *)
(* HNSW database: without PostgreSQL a drop leaves the row behind.         *)
DroppedIsGone ==
    \A n \in dropped :
        /\ catalog[n] = NoEngine
        /\ databases[n] = NoRow
        /\ \A d \in Dirs : db_files[d][n] = NoFile /\ n \notin del_files[d]

(* A connection that has selected a database finds it in the catalog       *)
(* (server.cpp:339).                                                       *)
ActiveIsInCatalog ==
    \A c \in Clients : pc[c] \in {"idle", "drop"} /\ active_db[c] # NoEngine =>
        \E n \in Names : catalog[n] = active_db[c]

(* Whoever takes the catalog's lock or a database's releases it, whatever  *)
(* the constructor, PostgreSQL or the call does in between, short of a use *)
(* of what was destroyed (server.cpp:163, 259, 341).                       *)
LocksAreReleased ==
    \A c \in Clients :
        /\ catalog_mutex = c ~> catalog_mutex # c \/ wild
        /\ \A a \in Addresses : db_mutex[a] = c ~> db_mutex[a] # c \/ wild

=============================================================================
