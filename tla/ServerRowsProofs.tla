---------------------------- MODULE ServerRowsProofs ----------------------------
(***************************************************************************)
(* Proofs about the rows, the catalog and the files of Server: what they   *)
(* say of each other, and what a start and a drop leave of them.           *)
(***************************************************************************)
EXTENDS ServerProofs

-----------------------------------------------------------------------------
(* The three are changed one after the other, under the catalog's lock.    *)
(* While PostgreSQL is there, a row is of an open database; an open        *)
(* database without a row is being selected or dropped, unless a           *)
(* transaction failed; a file in the one directory of an unopened database *)
(* is being dropped.                                                       *)

RowOK(n) ==
    /\ databases[n] # NoRow => catalog[n] # NoEngine
    /\ faults = 0 /\ catalog[n] # NoEngine /\ databases[n] = NoRow =>
          \E c \in Clients : pc[c] \in {"register", "erase"} /\ arg[c].name = n
    /\ SameDir /\ catalog[n] = NoEngine /\ db_files["working"][n] # NoFile =>
          \E c \in Clients : pc[c] = "remove_db" /\ arg[c].name = n

RowInv ==
    meta => /\ \A n \in Names : RowOK(n)
            /\ \A c \in Clients : pc[c] = "erase" => databases[arg[c].name] = NoRow

LEMMA InitRowInv == Init => RowInv
BY DEF Init, RowInv, RowOK, Dirs

(* Steps that change none of the three keep what they say of each other.   *)
LEMMA OtherStepsKeepRows ==
    ASSUME IndInv, RowInv, NEW c \in Clients, Locked(c) \/ Unlocked(c),
           UNCHANGED <<catalog, databases, db_files>>,
           pc[c] \notin {"register", "erase", "remove_db"} \/ StoreFails(c),
           meta /\ pc'[c] = "erase" => databases[arg'[c].name] = NoRow
    PROVE  RowInv'
<1>1. meta' = meta /\ (faults' # faults => StoreFails(c))
  BY StepFrame
<1>2. \A d \in Clients \ {c} : pc'[d] = pc[d] /\ arg'[d] = arg[d]
  BY OthersStay DEF IndInv
<1>3. StoreFails(c) => pc[c] # "remove_db" /\ pc[c] # "erase" /\ faults' # 0
  BY ServerBoundsAssumption DEF StoreFails, InTransaction, IndInv, TypeOK
<1> SUFFICES ASSUME meta
             PROVE  /\ \A n \in Names : RowOK(n)'
                    /\ \A d \in Clients : pc'[d] = "erase" => databases'[arg'[d].name] = NoRow
  BY <1>1 DEF RowInv
<1>4. ASSUME NEW n \in Names PROVE RowOK(n)'
  <2>1. RowOK(n)
    BY DEF RowInv
  <2> QED BY <1>1, <1>2, <1>3, <2>1 DEF RowOK
<1>5. \A d \in Clients : pc'[d] = "erase" => databases'[arg'[d].name] = NoRow
  BY <1>2 DEF RowInv
<1> QED BY <1>4, <1>5

(* An insertion may change a count, and a mirror a row's, but no file and  *)
(* no row comes or goes by them.                                           *)
LEMMA CountsKeepRows ==
    ASSUME IndInv, RowInv, NEW c \in Clients, Insert(c) \/ Mirror(c)
    PROVE  RowInv'
<1> USE DEF IndInv
<1>1. /\ UNCHANGED <<catalog, meta, faults>>
      /\ pc[c] \in {"call", "mirror"} /\ pc'[c] \in {"idle", "count"}
  BY DEF Insert, InCall, MirrorNext, Goto, Mirror, shared, history, TypeOK
<1>2. \A d \in Clients \ {c} : pc'[d] = pc[d] /\ arg'[d] = arg[d]
  BY OthersStay DEF Locked, Unlocked
<1>3. \A n \in Names : databases'[n] = NoRow <=> databases[n] = NoRow
  <2>1. CASE Insert(c)
    BY <2>1 DEF Insert
  <2>2. CASE Mirror(c)
    <3> SUFFICES ASSUME NEW n \in Registered, n = active_db_name[c],
                        databases' = [databases EXCEPT ![n].count = arg[c].count]
                 PROVE  databases'[n] # NoRow
      BY <2>2 DEF Mirror, UpdateCounts, Registered, TypeOK, MetadataTypeOK
    <3>1. databases[n].dim \in Dims /\ databases'[n].dim = databases[n].dim
      BY DEF TypeOK, MetadataTypeOK, Registered
    <3> QED BY <3>1, DimsAssumption DEF NoRow
  <2> QED BY <2>1, <2>2
<1>4. \A n \in Names : db_files'["working"][n] = NoFile <=> db_files["working"][n] = NoFile
  <2>1. CASE Mirror(c)
    BY <2>1 DEF Mirror, disk
  <2>2. CASE Insert(c)
    <3> DEFINE e == engines[active_db[c]]
               file == db_files[e.dir][e.name]
    <3>1. /\ e.dir \in Dirs /\ e.name \in Names /\ file \in [dim : Dims, count : 0 .. MaxCount]
      BY <2>2, CallFacts DEF Insert
    <3>2. PICK count : db_files' = [db_files EXCEPT ![e.dir][e.name] = [file EXCEPT !.count = count]]
      BY <2>2 DEF Insert, Add
    <3>3. [file EXCEPT !.count = count] # NoFile /\ file # NoFile
      BY <3>1, DimsAssumption DEF NoFile
    <3> HIDE DEF e
    <3> QED BY <3>1, <3>2, <3>3 DEF TypeOK, Dirs
  <2> QED BY <2>1, <2>2
<1> SUFFICES ASSUME meta
             PROVE  /\ \A n \in Names : RowOK(n)'
                    /\ \A d \in Clients : pc'[d] = "erase" => databases'[arg'[d].name] = NoRow
  BY <1>1 DEF RowInv
<1>5. ASSUME NEW n \in Names PROVE RowOK(n)'
  <2>1. RowOK(n)
    BY DEF RowInv
  <2> QED BY <1>1, <1>2, <1>3, <1>4, <2>1 DEF RowOK
<1>6. ASSUME NEW d \in Clients, pc'[d] = "erase" PROVE databases'[arg'[d].name] = NoRow
  <2>1. d # c /\ pc[d] = "erase" /\ arg'[d] = arg[d]
    BY <1>1, <1>2, <1>6
  <2>2. arg[d].name \in Names /\ databases[arg[d].name] = NoRow
    BY <2>1, DropFacts DEF RowInv, InCatalog, InDrop
  <2> QED BY <1>3, <2>1, <2>2
<1> QED BY <1>5, <1>6

(* A step made under the lock is about one name; nobody else is inside a   *)
(* selection or a drop, so what is true of the other names stays.          *)
LEMMA LockedStepKeepsRows ==
    ASSUME IndInv, RowInv, NEW c \in Clients, Locked(c), catalog_mutex = c, NEW n \in Names,
           pc[c] \in InCatalog, arg[c].name = n,
           \A m \in Names \ {n} :
              /\ databases'[m] = databases[m] /\ catalog'[m] = catalog[m]
              /\ db_files'["working"][m] = db_files["working"][m],
           meta => RowOK(n)',
           meta /\ pc'[c] = "erase" => databases'[arg'[c].name] = NoRow
    PROVE  RowInv'
<1>1. meta' = meta /\ (faults' # faults => StoreFails(c))
  BY StepFrame
<1>2. \A d \in Clients \ {c} : pc'[d] = pc[d] /\ arg'[d] = arg[d] /\ pc[d] \notin InCatalog
  BY OthersStay, ClientsAssumption DEF IndInv, LockInv
<1>3. faults' = 0 => faults = 0
  BY <1>1, ServerBoundsAssumption DEF StoreFails, InTransaction, IndInv, TypeOK
<1> SUFFICES ASSUME meta
             PROVE  /\ \A m \in Names : RowOK(m)'
                    /\ \A d \in Clients : pc'[d] = "erase" => databases'[arg'[d].name] = NoRow
  BY <1>1 DEF RowInv
<1>4. ASSUME NEW m \in Names \ {n} PROVE RowOK(m)'
  <2>1. RowOK(m)
    BY DEF RowInv
  <2>2. \A d \in Clients : pc[d] \in {"register", "erase", "remove_db"} => arg[d].name = n
    BY <1>2 DEF InCatalog, InDrop
  <2> QED BY <1>2, <1>3, <2>1, <2>2 DEF RowOK
<1>5. \A d \in Clients : pc'[d] = "erase" => databases'[arg'[d].name] = NoRow
  BY <1>2 DEF InCatalog, InDrop
<1> QED BY <1>4, <1>5

LEMMA OpenKeepsRows ==
    ASSUME IndInv, RowInv, NEW c \in Clients, Open(c)
    PROVE  RowInv'
<1>1. PICK n \in Names :
      /\ n = arg[c].name /\ pc[c] = "open" /\ catalog_mutex = c /\ n \in Names /\ catalog[n] = NoEngine
  BY DropFacts DEF Open, InCatalog, IndInv, ArgInv, OpensOK
<1>2. PICK a \in Addresses :
         /\ catalog' = [catalog EXCEPT ![n] = a]
         /\ IF meta THEN Goto(c, "register") ELSE Activate(c, n, a)
  BY <1>1 DEF Open
<1>3. /\ databases' = databases
      /\ db_files' = [db_files EXCEPT !["working"][n] = Opened(db_files["working"][n], arg[c].dim)]
  BY <1>1 DEF Open
<1>4. \A m \in Names \ {n} : /\ databases'[m] = databases[m] /\ catalog'[m] = catalog[m]
                            /\ db_files'["working"][m] = db_files["working"][m]
  BY <1>1, <1>2, <1>3 DEF IndInv, TypeOK, Dirs
<1>5. ASSUME meta PROVE RowOK(n)' /\ pc'[c] = "register"
  <2>1. pc'[c] = "register" /\ arg'[c].name = n /\ catalog'[n] = a /\ a # NoEngine
    BY <1>1, <1>2, <1>5, AddressesAssumption DEF Goto, IndInv, TypeOK
  <2> QED BY <2>1 DEF RowOK
<1> QED BY <1>1, <1>4, <1>5, LockedStepKeepsRows DEF Locked, InCatalog

LEMMA RegisterKeepsRows ==
    ASSUME IndInv, RowInv, NEW c \in Clients, Register(c)
    PROVE  RowInv'
<1>1. PICK n \in Names :
      /\ n = arg[c].name /\ pc[c] = "register" /\ catalog_mutex = c /\ n \in Names /\ arg[c].dim \in Dims
      /\ catalog[n] \in Addresses /\ UNCHANGED <<catalog, db_files>>
  BY DropFacts DEF Register, disk, InCatalog, IndInv, ArgInv, OperandsOK, OpensOK
<1>2. databases' = [databases EXCEPT ![n] = Row(n, arg[c].dim, db_files["working"][n].count)]
  BY <1>1 DEF Register, CreateDatabase
<1>3. \A m \in Names \ {n} : /\ databases'[m] = databases[m] /\ catalog'[m] = catalog[m]
                            /\ db_files'["working"][m] = db_files["working"][m]
  BY <1>1, <1>2 DEF IndInv, TypeOK, MetadataTypeOK
<1>4. databases'[n].dim = arg[c].dim /\ databases'[n] # NoRow
  BY <1>1, <1>2, DimsAssumption DEF IndInv, TypeOK, MetadataTypeOK, NoRow, Row
<1>5. RowOK(n)'
  BY <1>1, <1>4, AddressesAssumption DEF RowOK
<1>6. pc'[c] # "erase"
  BY DEF Register, Activate, Point, AfterActivate, IndInv, TypeOK
<1> QED BY <1>1, <1>3, <1>5, <1>6, LockedStepKeepsRows DEF Locked, InCatalog

LEMMA DropKeepsRows ==
    ASSUME IndInv, RowInv, NEW c \in Clients, DropRow(c) \/ Erase(c) \/ RemoveDb(c)
    PROVE  RowInv'
<1> USE DEF IndInv, TypeOK, MetadataTypeOK
<1>1. PICK n \in Names :
      /\ n = arg[c].name /\ pc[c] \in InCatalog /\ catalog_mutex = c /\ n \in Names /\ arg' = arg
  BY DropFacts DEF DropRow, Erase, RemoveDb, Goto, InCatalog, InDrop
<1>2. CASE DropRow(c)
  <2>1. /\ databases' = [databases EXCEPT ![n] = NoRow]
        /\ UNCHANGED <<catalog, db_files>> /\ pc' = [pc EXCEPT ![c] = "erase"]
    BY <1>1, <1>2 DEF DropRow, DropDatabase, Goto, disk, shared
  <2>2. catalog[n] # NoEngine
    BY <1>1, <1>2, AddressesAssumption DEF DropRow, ArgInv, OpensOK
  <2>3. RowOK(n)'
    BY <1>1, <2>1, <2>2 DEF RowOK
  <2>4. \A m \in Names \ {n} : databases'[m] = databases[m]
    BY <2>1
  <2> QED BY <1>1, <1>2, <2>1, <2>3, <2>4, LockedStepKeepsRows DEF Locked
<1>3. CASE Erase(c)
  <2>1. /\ catalog' = [catalog EXCEPT ![n] = NoEngine]
        /\ UNCHANGED <<databases, db_files>> /\ pc' = [pc EXCEPT ![c] = "remove_db"]
        /\ pc[c] = "erase"
    BY <1>1, <1>3 DEF Erase, Goto, disk
  <2>2. meta => databases[n] = NoRow
    BY <1>1, <2>1 DEF RowInv
  <2>3. meta => RowOK(n)'
    BY <1>1, <2>1, <2>2 DEF RowOK
  <2>4. \A m \in Names \ {n} : catalog'[m] = catalog[m]
    BY <2>1
  <2> QED BY <1>1, <1>3, <2>1, <2>3, <2>4, LockedStepKeepsRows DEF Locked
<1>4. CASE RemoveDb(c)
  <2>1. /\ db_files' = [db_files EXCEPT !["working"][n] = NoFile]
        /\ UNCHANGED <<databases, catalog>> /\ pc' = [pc EXCEPT ![c] = "remove_del"]
        /\ pc[c] = "remove_db"
    BY <1>1, <1>4 DEF RemoveDb, Goto, shared
  <2>2. catalog[n] = NoEngine
    BY <1>1, <2>1 DEF ArgInv, OpensOK
  <2>3. meta => databases[n] = NoRow
    BY <1>1, <2>2 DEF RowInv, RowOK
  <2>4. db_files'["working"][n] = NoFile
    BY <1>1, <2>1 DEF Dirs
  <2>5. meta => RowOK(n)'
    BY <2>1, <2>2, <2>3, <2>4 DEF RowOK
  <2>6. \A m \in Names \ {n} : db_files'["working"][m] = db_files["working"][m]
    BY <2>1 DEF Dirs
  <2> QED BY <1>1, <1>4, <2>1, <2>5, <2>6, LockedStepKeepsRows DEF Locked
<1> QED BY <1>2, <1>3, <1>4

(* Which steps those are.                                                  *)
LEMMA StepsToErase ==
    ASSUME TypeOK, NEW c \in Clients, Locked(c) \/ Unlocked(c)
    PROVE  /\ pc[c] \in {"register", "erase", "remove_db"} =>
                 Register(c) \/ Erase(c) \/ RemoveDb(c) \/ StoreFails(c)
           /\ meta /\ pc'[c] = "erase" => DropRow(c)
<1> USE DEF TypeOK, Goto, Hangup, Activate, Point, AfterActivate
<1>1. CASE Locked(c)
  <2>1. CASE Open(c) \/ OpenThrows(c)
    BY <2>1 DEF Open, OpenThrows
  <2>2. CASE Register(c) \/ Erase(c) \/ RemoveDb(c)
    BY <2>2 DEF Register, Erase, RemoveDb
  <2>3. CASE DropRow(c) \/ RemoveDel(c)
    BY <2>3 DEF DropRow, RemoveDel, RemoveLast
  <2>4. CASE Insert(c) \/ Delete(c) \/ OtherCall(c)
    BY <2>4 DEF Insert, Delete, OtherCall, InCall, MirrorNext
  <2> HIDE DEF TypeOK, Goto, Hangup, Activate, Point, AfterActivate
  <2> QED BY <1>1, <2>1, <2>2, <2>3, <2>4, Zenon DEF Locked
<1>2. CASE Unlocked(c)
  <2>1. CASE Connect(c) \/ Disconnect(c) \/ CheckDimension(c) \/ NoActive(c) \/ StartCommand(c)
             \/ OtherCommand(c) \/ BeginCall(c) \/ StartDrop(c) \/ NotInCatalog(c)
    BY <2>1 DEF Connect, Disconnect, CheckDimension, NoActive, StartCommand, OtherCommand, BeginCall,
                StartDrop, NotInCatalog
  <2>2. CASE ReadCount(c) \/ Mirror(c) \/ UseFreed(c)
    BY <2>2 DEF ReadCount, CountRead, Mirror, UseFreed, UsesPointer, threads
  <2>3. CASE StoreFails(c)
    BY <2>3 DEF StoreFails
  <2>4. CASE \E n \in Names : \/ SelectOpen(c, n)
                              \/ \E dim \in Dims : SelectClosed(c, n, dim)
                              \/ FindInCatalog(c, n)
    BY <2>4 DEF SelectOpen, SelectClosed, NotOpen, FindInCatalog
  <2> HIDE DEF TypeOK, Goto, Hangup, Activate, Point, AfterActivate
  <2> QED BY <1>2, <2>1, <2>2, <2>3, <2>4, Zenon DEF Unlocked
<1> QED BY <1>1, <1>2

LEMMA RestartKeepsRows ==
    ASSUME IndInv, Restart
    PROVE  RowInv'
<1> DEFINE rows == Seeded(db_files[DataDir])
           loaded == {n \in Names : rows[n] # NoRow}
<1>1. rows \in [Names -> [dim : Dims, count : Nat, entry : {-1, 0}] \cup {NoRow}]
  BY FilesOfDataDir, SeededType
<1>2. Stop /\ databases' = rows /\ Load(rows, loaded)
  BY DEF Restart
<1>3. ASSUME NEW n \in Names, rows[n] = NoRow PROVE db_files[DataDir][n] = NoFile
  <2>1. n \notin Registered
    BY <1>3 DEF Seeded, Registered
  <2>2. ASSUME db_files[DataDir][n].dim # 0
        PROVE  rows[n].dim = db_files[DataDir][n].dim
    BY <2>1, <2>2 DEF Seeded, Row
  <2>3. db_files[DataDir][n].dim = 0
    BY <1>3, <2>2 DEF NoRow
  <2> QED BY <2>3, FilesOfDataDir, DimsAssumption
<1> HIDE DEF rows
<1>4. LoadedFacts(rows, loaded)
  BY <1>1, <1>2, LoadMeans
<1>5. ASSUME NEW n \in Names PROVE RowOK(n)'
  <2>1. catalog'[n] # NoEngine <=> databases'[n] # NoRow
    BY <1>2, <1>4 DEF LoadedFacts
  <2>2. SameDir /\ catalog'[n] = NoEngine => db_files'["working"][n] = NoFile
    BY <1>2, <1>3, <1>4, <2>1 DEF LoadedFacts, DataDir, Dirs
  <2> QED BY <2>1, <2>2 DEF RowOK
<1>6. \A c \in Clients : pc'[c] = "closed"
  BY <1>2 DEF Stop
<1> QED BY <1>5, <1>6 DEF RowInv

LEMMA NextKeepsRows == IndInv /\ RowInv /\ [Next]_vars => RowInv'
<1> SUFFICES ASSUME IndInv, RowInv, [Next]_vars PROVE RowInv'
  OBVIOUS
<1>1. ASSUME NEW c \in Clients, Locked(c) \/ Unlocked(c) PROVE RowInv'
  <2>1. CASE Open(c) \/ Register(c) \/ DropRow(c) \/ Erase(c) \/ RemoveDb(c) \/ Insert(c) \/ Mirror(c)
    BY <2>1, OpenKeepsRows, RegisterKeepsRows, DropKeepsRows, CountsKeepRows
  <2>2. CASE ~(Open(c) \/ Register(c) \/ DropRow(c) \/ Erase(c) \/ RemoveDb(c) \/ Insert(c) \/ Mirror(c))
    <3>1. UNCHANGED <<catalog, databases, db_files>>
      BY <1>1, <2>2, StepFrame
    <3>2. /\ pc[c] \notin {"register", "erase", "remove_db"} \/ StoreFails(c)
          /\ ~(meta /\ pc'[c] = "erase")
      BY <1>1, <2>2, StepsToErase DEF IndInv
    <3> QED BY <1>1, <3>1, <3>2, OtherStepsKeepRows
  <2> QED BY <2>1, <2>2
<1>2. CASE RestartWithoutMeta \/ RestartLosesMeta
  BY <1>2 DEF RestartWithoutMeta, RestartLosesMeta, RowInv
<1>3. CASE UNCHANGED vars
  BY <1>3 DEF vars, disk, shared, threads, history, RowInv, RowOK
<1> QED BY <1>1, <1>2, <1>3, RestartKeepsRows DEF Next

LEMMA RowsFollow == Spec => [](IndInv /\ RowInv)
BY InitRowInv, NextKeepsRows, Invariance, PTL DEF Spec

(* When nobody is inside a selection or a drop and PostgreSQL is there,    *)
(* every row is of an open database; if no transaction ever failed, open   *)
(* databases, rows and, with one directory, files are the same, whatever   *)
(* was selected and dropped, by how many connections, and whenever the     *)
(* process died (server.cpp:163-184, 340-363, 485-508).                    *)
THEOREM RowsMatch == Spec => []RowsMatchCatalog
<1>1. ASSUME IndInv, RowInv, meta, catalog_mutex = NoClient
      PROVE  LET opened == {n \in Names : catalog[n] # NoEngine} IN
             /\ Registered \subseteq opened
             /\ faults = 0 =>
                  /\ opened = Registered
                  /\ SameDir => opened = {n \in Names : db_files[DataDir][n] # NoFile}
  <2>1. \A c \in Clients : pc[c] \notin InCatalog
    BY <1>1, ClientsAssumption DEF IndInv, LockInv
  <2>2. \A c \in Clients : pc[c] \notin {"register", "erase", "remove_db"}
    BY <2>1 DEF InCatalog, InDrop
  <2>3. \A n \in Names : databases[n] # NoRow => catalog[n] # NoEngine
    BY <1>1 DEF RowInv, RowOK
  <2>4. faults = 0 => \A n \in Names : catalog[n] # NoEngine => databases[n] # NoRow
    BY <1>1, <2>2 DEF RowInv, RowOK
  <2>5. SameDir => \A n \in Names : db_files[DataDir][n] # NoFile => catalog[n] # NoEngine
    BY <1>1, <2>2 DEF RowInv, RowOK, DataDir
  <2>6. SameDir => \A n \in Names : catalog[n] # NoEngine => db_files[DataDir][n] # NoFile
    <3> SUFFICES ASSUME SameDir, NEW n \in Names, catalog[n] # NoEngine
                 PROVE  db_files[DataDir][n] # NoFile
      OBVIOUS
    <3>1. catalog[n] \in Addresses
      BY <1>1 DEF IndInv, TypeOK
    <3>2. engines[catalog[n]] # Freed /\ engines[catalog[n]].name = n
      BY <1>1 DEF IndInv, CatalogInv
    <3>3. engines[catalog[n]].dir = DataDir
      BY <1>1, <3>1, <3>2 DEF IndInv, CatalogInv, DataDir
    <3> QED BY <1>1, <3>1, <3>2, <3>3 DEF IndInv, CatalogInv
  <2> QED BY <2>3, <2>4, <2>5, <2>6 DEF Registered
<1>2. IndInv /\ RowInv => RowsMatchCatalog
  BY <1>1 DEF RowsMatchCatalog
<1> QED BY <1>2, RowsFollow, PTL

-----------------------------------------------------------------------------
(* With one directory, no HNSW databases, and starts that find PostgreSQL  *)
(* when it is configured, nothing is ever in the other directory, every    *)
(* row can be read and has the dimension of its file, and a dropped        *)
(* database left nothing; a thread that goes on with a drop has the row    *)
(* behind it, and nobody opens a database that counts as dropped.          *)

NameOK(n) ==
    /\ db_files["data"][n] = NoFile /\ n \notin del_files["data"]
    /\ databases[n] # NoRow => WithMeta /\ db_files["working"][n].dim = databases[n].dim
    /\ databases[n].entry = 0
    /\ n \in dropped => /\ catalog[n] = NoEngine /\ databases[n] = NoRow
                        /\ db_files["working"][n] = NoFile /\ n \notin del_files["working"]

ThreadOK(c) ==
    /\ pc[c] \in {"erase", "remove_db", "remove_del"} => databases[arg[c].name] = NoRow
    /\ pc[c] = "open" => arg[c].name \notin dropped

GoneInv == meta = WithMeta /\ (\A n \in Names : NameOK(n)) /\ (\A c \in Clients : ThreadOK(c))

LEMMA InitGoneInv == Init => GoneInv
BY DEF Init, GoneInv, NameOK, ThreadOK, Dirs, NoRow

(* A step under the catalog's lock is about one name.                      *)
LEMMA LockedStepKeepsGone ==
    ASSUME IndInv, GoneInv, NEW c \in Clients, Locked(c), catalog_mutex = c, NEW n \in Names,
           \A m \in Names \ {n} :
              /\ databases'[m] = databases[m] /\ catalog'[m] = catalog[m]
              /\ \A d \in Dirs : /\ db_files'[d][m] = db_files[d][m]
                                 /\ m \in del_files'[d] => m \in del_files[d]
              /\ m \in dropped' => m \in dropped,
           NameOK(n)', ThreadOK(c)'
    PROVE  GoneInv'
<1>1. meta' = meta
  BY StepFrame
<1>2. \A d \in Clients \ {c} : pc'[d] = pc[d] /\ pc[d] \notin InCatalog
  BY OthersStay, ClientsAssumption DEF IndInv, LockInv
<1>3. ASSUME NEW m \in Names \ {n} PROVE NameOK(m)'
  <2>1. NameOK(m) /\ "working" \in Dirs /\ "data" \in Dirs
    BY DEF GoneInv, Dirs
  <2>2. /\ databases'[m] = databases[m] /\ catalog'[m] = catalog[m]
        /\ db_files'["working"][m] = db_files["working"][m]
        /\ db_files'["data"][m] = db_files["data"][m]
        /\ m \in del_files'["working"] => m \in del_files["working"]
        /\ m \in del_files'["data"] => m \in del_files["data"]
        /\ m \in dropped' => m \in dropped
    BY <2>1
  <2> QED BY <2>1, <2>2 DEF NameOK
<1>4. ASSUME NEW d \in Clients \ {c} PROVE ThreadOK(d)'
  BY <1>2 DEF ThreadOK, InCatalog, InDrop
<1> QED BY <1>1, <1>3, <1>4 DEF GoneInv

(* Any other step makes no row and drops nothing.                          *)
LEMMA OtherStepKeepsGone ==
    ASSUME IndInv, GoneInv, NEW c \in Clients, Locked(c) \/ Unlocked(c),
           \A n \in Names : NameOK(n)' /\ (databases[n] = NoRow => databases'[n] = NoRow),
           dropped' \subseteq dropped, ThreadOK(c)'
    PROVE  GoneInv'
<1>1. meta' = meta
  BY StepFrame
<1>2. \A d \in Clients \ {c} : pc'[d] = pc[d] /\ arg'[d] = arg[d]
  BY OthersStay DEF IndInv
<1>3. ASSUME NEW d \in Clients \ {c} PROVE ThreadOK(d)'
  <2>1. ThreadOK(d) /\ (pc[d] \in InCatalog => arg[d].name \in Names)
    BY DEF GoneInv, IndInv, ArgInv, OperandsOK
  <2> QED BY <1>2, <2>1 DEF ThreadOK, InCatalog, InDrop
<1> QED BY <1>1, <1>3 DEF GoneInv

LEMMA SelectionKeepsGone ==
    ASSUME SameDir = TRUE, HnswNames = {}, IndInv, GoneInv, NEW c \in Clients, Open(c) \/ Register(c)
    PROVE  GoneInv'
<1>1. PICK n \in Names :
      /\ n = arg[c].name /\ catalog_mutex = c /\ pc[c] \in {"open", "register"} /\ arg[c].dim \in Dims
      /\ UNCHANGED <<del_files, history>>
  BY DropFacts DEF Open, Register, disk, InCatalog, IndInv, ArgInv, OperandsOK
<1>2. NameOK(n) /\ ThreadOK(c) /\ OperandsOK(c) /\ OpensOK(c)
  BY DEF GoneInv, IndInv, ArgInv
<1>3. CASE Open(c)
  <2>1. /\ pc[c] = "open" /\ databases' = databases
        /\ db_files' = [db_files EXCEPT !["working"][n] = Opened(db_files["working"][n], arg[c].dim)]
    BY <1>1, <1>3 DEF Open
  <2>2. PICK a \in Addresses : catalog' = [catalog EXCEPT ![n] = a]
    BY <1>1, <1>3 DEF Open
  <2>3. db_files'["data"][n] = db_files["data"][n]
    BY <2>1 DEF IndInv, TypeOK, Dirs
  <2>4. db_files'["working"][n] = Opened(db_files["working"][n], arg[c].dim)
    BY <2>1 DEF IndInv, TypeOK, Dirs
  <2>5. ASSUME databases[n] # NoRow PROVE db_files["working"][n] # NoFile
    <3>1. databases[n].dim \in Dims /\ db_files["working"][n].dim = databases[n].dim
      BY <1>2, <2>5 DEF NameOK, IndInv, TypeOK, MetadataTypeOK
    <3> QED BY <3>1, DimsAssumption DEF NoFile
  <2>6. NameOK(n)'
    BY <1>1, <1>2, <2>1, <2>3, <2>4, <2>5 DEF NameOK, ThreadOK, history, Opened
  <2>7. pc'[c] \in {"register", "check", "idle"}
    BY <1>3 DEF Open, Goto, Activate, Point, AfterActivate, IndInv, TypeOK
  <2>8. ThreadOK(c)'
    BY <2>7 DEF ThreadOK
  <2>9. \A m \in Names \ {n} : /\ databases'[m] = databases[m] /\ catalog'[m] = catalog[m]
                              /\ \A d \in Dirs : db_files'[d][m] = db_files[d][m]
    BY <2>1, <2>2 DEF IndInv, TypeOK, Dirs
  <2> QED BY <1>1, <1>3, <2>6, <2>8, <2>9, LockedStepKeepsGone DEF Locked, history
<1>4. CASE Register(c)
  <2>1. /\ pc[c] = "register" /\ UNCHANGED <<catalog, db_files>>
        /\ databases' = [databases EXCEPT ![n] = Row(n, arg[c].dim, db_files["working"][n].count)]
    BY <1>1, <1>4 DEF Register, CreateDatabase, disk
  <2>2. /\ databases'[n].dim = arg[c].dim /\ WithMeta /\ db_files["working"][n].dim = arg[c].dim
        /\ databases'[n].entry = 0
    BY <1>1, <1>2, <2>1 DEF Row, EntryPoint, GoneInv, OperandsOK, OpensOK, IndInv, TypeOK, MetadataTypeOK
  <2>3. n \notin dropped
    BY <1>1, <1>2, <2>1, AddressesAssumption DEF NameOK, OpensOK
  <2>4. NameOK(n)'
    BY <1>1, <1>2, <2>1, <2>2, <2>3 DEF NameOK, history
  <2>5. ThreadOK(c)'
    <3>1. pc'[c] \in {"check", "idle"}
      BY <1>4 DEF Register, Activate, Point, AfterActivate, IndInv, TypeOK
    <3> QED BY <3>1 DEF ThreadOK
  <2>6. \A m \in Names \ {n} : databases'[m] = databases[m]
    BY <2>1 DEF IndInv, TypeOK, MetadataTypeOK
  <2> QED BY <1>1, <1>4, <2>1, <2>4, <2>5, <2>6, LockedStepKeepsGone DEF Locked, history
<1> QED BY <1>3, <1>4

LEMMA DropKeepsGone ==
    ASSUME SameDir = TRUE, IndInv, GoneInv, NEW c \in Clients,
           DropRow(c) \/ Erase(c) \/ RemoveDb(c) \/ RemoveDel(c)
    PROVE  GoneInv'
<1> USE DEF IndInv, TypeOK, MetadataTypeOK, Dirs
<1>1. PICK n \in Names :
      /\ n = arg[c].name /\ pc[c] \in InCatalog /\ catalog_mutex = c
      /\ NameOK(n) /\ ThreadOK(c) /\ OpensOK(c)
  BY DropFacts DEF DropRow, Erase, RemoveDb, RemoveDel, RemoveLast, InCatalog, InDrop, GoneInv, ArgInv
<1>2. CASE DropRow(c)
  <2>1. /\ databases' = [databases EXCEPT ![n] = NoRow] /\ arg' = arg
        /\ UNCHANGED <<catalog, db_files, del_files, dropped>> /\ pc' = [pc EXCEPT ![c] = "erase"]
    BY <1>1, <1>2 DEF DropRow, DropDatabase, Goto, disk, shared, history
  <2>2. databases'[n] = NoRow /\ NoRow.entry = 0
    BY <2>1 DEF NoRow
  <2>3. NameOK(n)' /\ ThreadOK(c)'
    BY <1>1, <2>1, <2>2 DEF NameOK, ThreadOK
  <2>4. \A m \in Names \ {n} : databases'[m] = databases[m]
    BY <2>1
  <2> QED BY <1>1, <1>2, <2>1, <2>3, <2>4, LockedStepKeepsGone DEF Locked
<1>3. CASE Erase(c)
  <2>1. /\ catalog' = [catalog EXCEPT ![n] = NoEngine] /\ pc[c] = "erase" /\ arg' = arg
        /\ UNCHANGED <<databases, db_files, del_files, dropped>> /\ pc' = [pc EXCEPT ![c] = "remove_db"]
    BY <1>1, <1>3 DEF Erase, Goto, disk, history
  <2>2. NameOK(n)' /\ ThreadOK(c)'
    BY <1>1, <2>1 DEF NameOK, ThreadOK
  <2>3. \A m \in Names \ {n} : catalog'[m] = catalog[m]
    BY <2>1
  <2> QED BY <1>1, <1>3, <2>1, <2>2, <2>3, LockedStepKeepsGone DEF Locked
<1>4. CASE RemoveDb(c)
  <2>1. /\ db_files' = [db_files EXCEPT !["working"][n] = NoFile] /\ pc[c] = "remove_db" /\ arg' = arg
        /\ UNCHANGED <<databases, catalog, del_files, dropped>> /\ pc' = [pc EXCEPT ![c] = "remove_del"]
    BY <1>1, <1>4 DEF RemoveDb, Goto, shared, history
  <2>2. /\ db_files'["working"][n] = NoFile /\ db_files'["data"] = db_files["data"]
        /\ \A m \in Names \ {n} : db_files'["working"][m] = db_files["working"][m]
    BY <2>1
  <2>3. NameOK(n)' /\ ThreadOK(c)'
    BY <1>1, <2>1, <2>2 DEF NameOK, ThreadOK
  <2> QED BY <1>1, <1>4, <2>1, <2>2, <2>3, LockedStepKeepsGone DEF Locked
<1>5. CASE RemoveDel(c)
  <2>1. /\ del_files' = [del_files EXCEPT !["working"] = @ \ {n}] /\ pc[c] = "remove_del"
        /\ dropped' = dropped \cup {n}
        /\ UNCHANGED <<databases, catalog, db_files>> /\ pc' = [pc EXCEPT ![c] = "idle"]
    BY <1>1, <1>5 DEF RemoveDel, RemoveLast
  <2>2. catalog[n] = NoEngine /\ databases[n] = NoRow /\ db_files["working"][n] = NoFile
    BY <1>1, <2>1 DEF OpensOK, ThreadOK
  <2>3. /\ n \notin del_files'["working"] /\ del_files'["data"] = del_files["data"]
        /\ \A m \in Names \ {n} : m \in del_files'["working"] => m \in del_files["working"]
    BY <2>1
  <2>4. NameOK(n)' /\ ThreadOK(c)'
    BY <1>1, <2>1, <2>2, <2>3 DEF NameOK, ThreadOK
  <2> QED BY <1>1, <1>5, <2>1, <2>3, <2>4, LockedStepKeepsGone DEF Locked
<1> QED BY <1>2, <1>3, <1>4, <1>5

(* A call, or a mirror, is of a database that does not count as dropped;   *)
(* it leaves the dimensions.                                               *)
LEMMA CallKeepsGone ==
    ASSUME SameDir = TRUE, IndInv, GoneInv, NEW c \in Clients,
           Insert(c) \/ Delete(c) \/ Mirror(c)
    PROVE  GoneInv'
<1> DEFINE e == engines[active_db[c]]
<1>1. /\ UNCHANGED <<catalog, meta, dropped>> /\ pc'[c] \in {"idle", "count"}
  BY DEF Insert, Delete, Mirror, MirrorNext, Goto, shared, history, IndInv, TypeOK
<1>2. ThreadOK(c)'
  BY <1>1 DEF ThreadOK
<1>3. CASE Mirror(c)
  <2>1. UNCHANGED <<db_files, del_files>>
    BY <1>3 DEF Mirror, disk
  <2>2. ASSUME NEW n \in Names
        PROVE  /\ databases[n] = NoRow => databases'[n] = NoRow
               /\ databases'[n].dim = databases[n].dim /\ databases'[n].entry = databases[n].entry
    BY <1>3 DEF Mirror, UpdateCounts, Registered, IndInv, TypeOK, MetadataTypeOK
  <2>3. ASSUME NEW n \in Names PROVE NameOK(n)'
    <3>1. NameOK(n)
      BY DEF GoneInv
    <3> QED BY <1>1, <2>1, <2>2, <3>1 DEF NameOK
  <2> QED BY <1>1, <1>2, <1>3, <2>2, <2>3, OtherStepKeepsGone DEF Unlocked
<1>4. CASE Insert(c) \/ Delete(c)
  <2>1. /\ active_db[c] \in Addresses /\ e.name \in Names /\ e.dir \in Dirs
        /\ catalog[e.name] = active_db[c] /\ e.dir = "working" /\ databases' = databases
    <3>1. /\ active_db[c] \in Addresses /\ e.name \in Names /\ e.dir \in Dirs
          /\ catalog[e.name] = active_db[c]
      BY <1>4, CallFacts DEF Insert, Delete
    <3>2. e # Freed
      BY <1>4 DEF Insert, Delete, InCall, Alive
    <3>3. e.dir = "working"
      BY <3>1, <3>2 DEF IndInv, CatalogInv, DataDir
    <3> QED BY <1>4, <3>1, <3>3 DEF Insert, Delete
  <2>2. PICK n \in Names : n = e.name
    BY <2>1
  <2>3. n \notin dropped
    BY <2>1, <2>2, AddressesAssumption DEF GoneInv, NameOK
  <2>4. /\ db_files'["data"] = db_files["data"] /\ del_files'["data"] = del_files["data"]
        /\ \A m \in Names \ {n} : /\ db_files'["working"][m] = db_files["working"][m]
                                  /\ m \in del_files'["working"] => m \in del_files["working"]
        /\ db_files'["working"][n].dim = db_files["working"][n].dim
    <3>1. CASE Insert(c)
      <4>1. PICK count : db_files' = [db_files EXCEPT !["working"][n].count = count]
        BY <2>1, <2>2, <3>1 DEF Insert, Add
      <4>2. del_files' = del_files
        BY <3>1 DEF Insert
      <4> QED BY <4>1, <4>2 DEF IndInv, TypeOK, Dirs
    <3>2. CASE Delete(c)
      <4>1. /\ del_files' = [del_files EXCEPT !["working"] = @ \cup {n}]
            /\ db_files' = db_files
        BY <2>1, <2>2, <3>2 DEF Delete
      <4> QED BY <4>1 DEF IndInv, TypeOK, Dirs
    <3> QED BY <1>4, <3>1, <3>2
  <2>5. ASSUME NEW m \in Names PROVE NameOK(m)'
    <3>1. NameOK(m)
      BY DEF GoneInv
    <3> QED BY <1>1, <2>1, <2>3, <2>4, <3>1 DEF NameOK
  <2> QED BY <1>1, <1>2, <1>4, <2>1, <2>5, OtherStepKeepsGone DEF Locked
<1> QED BY <1>3, <1>4

(* The steps that drop, or go on with a drop or a selection.               *)
LEMMA StepsToDrop ==
    ASSUME TypeOK, NEW c \in Clients, Locked(c) \/ Unlocked(c)
    PROVE  \/ DropRow(c) \/ Erase(c) \/ RemoveDb(c) \/ RemoveDel(c)
           \/ /\ dropped' \subseteq dropped
              /\ \/ UNCHANGED <<pc, arg>>
                 \/ pc'[c] \notin {"erase", "remove_db", "remove_del", "open"}
                 \/ ~meta /\ pc'[c] = "erase" /\ arg'[c].name \in Names
                 \/ pc'[c] = "open" /\ arg'[c].name \notin dropped'
<1> USE DEF TypeOK, Goto, Hangup, Activate, Point, AfterActivate, NothingElse, history
<1>1. CASE Locked(c)
  <2>1. CASE Open(c) \/ OpenThrows(c) \/ Register(c)
    BY <2>1 DEF Open, OpenThrows, Register
  <2>2. CASE Insert(c) \/ Delete(c) \/ OtherCall(c)
    BY <2>2 DEF Insert, Delete, OtherCall, MirrorNext
  <2> HIDE DEF TypeOK, Goto, Hangup, Activate, Point, AfterActivate, NothingElse, history
  <2> QED BY <1>1, <2>1, <2>2, Zenon DEF Locked
<1>2. CASE Unlocked(c)
  <2>1. CASE Connect(c) \/ Disconnect(c) \/ CheckDimension(c) \/ NoActive(c) \/ StartCommand(c)
             \/ OtherCommand(c) \/ BeginCall(c) \/ StartDrop(c) \/ NotInCatalog(c)
    BY <2>1 DEF Connect, Disconnect, CheckDimension, NoActive, StartCommand, OtherCommand, BeginCall,
                StartDrop, NotInCatalog
  <2>2. CASE ReadCount(c) \/ Mirror(c)
    BY <2>2 DEF ReadCount, CountRead, Mirror
  <2>3. CASE StoreFails(c) \/ UseFreed(c)
    BY <2>3 DEF StoreFails, InTransaction, UseFreed, threads
  <2>4. ASSUME NEW n \in Names, SelectOpen(c, n) \/ FindInCatalog(c, n)
        PROVE  /\ dropped' \subseteq dropped
               /\ \/ pc'[c] \notin {"erase", "remove_db", "remove_del", "open"}
                  \/ ~meta /\ pc'[c] = "erase" /\ arg'[c].name \in Names
    BY <2>4 DEF SelectOpen, FindInCatalog
  <2>5. ASSUME NEW n \in Names, NEW dim \in Dims, SelectClosed(c, n, dim)
        PROVE  dropped' \subseteq dropped /\ pc'[c] = "open" /\ arg'[c].name \notin dropped'
    BY <2>5 DEF SelectClosed, NotOpen
  <2> HIDE DEF TypeOK, Goto, Hangup, Activate, Point, AfterActivate, NothingElse, history
  <2>6. CASE \E n \in Names : \/ SelectOpen(c, n)
                              \/ \E dim \in Dims : SelectClosed(c, n, dim)
                              \/ FindInCatalog(c, n)
    BY <2>4, <2>5, <2>6, Zenon
  <2> QED BY <1>2, <2>1, <2>2, <2>3, <2>6, Zenon DEF Unlocked
<1> QED BY <1>1, <1>2

(* The rows of a start, where none is of an HNSW database.                 *)
LEMMA SeededRow ==
    ASSUME HnswNames = {}, NEW found, NEW n \in Names
    PROVE  /\ databases[n] # NoRow => Seeded(found)[n] = databases[n]
           /\ databases[n] = NoRow => /\ Seeded(found)[n].dim = found[n].dim
                                      /\ Seeded(found)[n].entry = 0
                                      /\ found[n].dim = 0 => Seeded(found)[n] = NoRow
<1>1. CASE databases[n] # NoRow
  BY <1>1 DEF Seeded, Registered
<1>2. CASE databases[n] = NoRow /\ found[n].dim = 0
  <2>1. Seeded(found)[n] = NoRow
    BY <1>2 DEF Seeded, Registered
  <2> QED BY <1>2, <2>1 DEF NoRow
<1>3. CASE databases[n] = NoRow /\ found[n].dim # 0
  <2>1. Seeded(found)[n] = Row(n, found[n].dim, found[n].count)
    BY <1>3 DEF Seeded, Registered
  <2>2. /\ Row(n, found[n].dim, found[n].count).dim = found[n].dim
        /\ Row(n, found[n].dim, found[n].count).entry = 0
    BY DEF Row, EntryPoint
  <2> QED BY <1>3, <2>1, <2>2
<1> QED BY <1>1, <1>2, <1>3

LEMMA StartKeepsGone ==
    ASSUME SameDir = TRUE, HnswNames = {}, StartFails = FALSE, IndInv, GoneInv,
           Restart \/ RestartWithoutMeta \/ RestartLosesMeta
    PROVE  GoneInv'
<1>1. DataDir = "working" /\ DataDir \in Dirs /\ "data" \in Dirs
  BY DEF DataDir, Dirs
<1>2. \A n \in Names : db_files["working"][n] \in [dim : Dims, count : 0 .. MaxCount] \cup {NoFile}
  BY <1>1 DEF IndInv, TypeOK
<1>3. UNCHANGED <<del_files, dropped>> /\ \A c \in Clients : ThreadOK(c)'
  BY DEF Restart, RestartWithoutMeta, RestartLosesMeta, Stop, ThreadOK
<1>4. CASE Restart
  <2> DEFINE rows == Seeded(db_files[DataDir])
             loaded == {n \in Names : rows[n] # NoRow}
  <2>1. rows \in [Names -> [dim : Dims, count : Nat, entry : {-1, 0}] \cup {NoRow}]
    BY FilesOfDataDir, SeededType
  <2>2. /\ databases' = rows /\ meta' = TRUE /\ WithMeta /\ Load(rows, loaded)
    BY <1>4 DEF Restart
  <2>3. ASSUME NEW n \in Names
        PROVE  /\ databases[n] # NoRow => rows[n] = databases[n]
               /\ databases[n] = NoRow =>
                     /\ rows[n].dim = db_files["working"][n].dim /\ rows[n].entry = 0
                     /\ db_files["working"][n].dim = 0 => rows[n] = NoRow
    BY <1>1, SeededRow
  <2> HIDE DEF rows
  <2>4. LoadedFacts(rows, loaded)
    BY <2>1, <2>2, LoadMeans
  <2>5. ASSUME NEW n \in Names PROVE NameOK(n)'
    <3>1. NameOK(n)
      BY DEF GoneInv
    <3>2. rows[n].dim = db_files["working"][n].dim
      <4>1. CASE databases[n] # NoRow
        BY <2>3, <3>1, <4>1 DEF NameOK
      <4>2. CASE databases[n] = NoRow
        BY <2>3, <4>2
      <4> QED BY <4>1, <4>2
    <3>3. db_files["working"][n] = NoFile => rows[n].dim = 0
      BY <3>2 DEF NoFile
    <3>4. rows[n] # NoRow => db_files["working"][n] # NoFile
      BY <2>1, <3>3, DimsAssumption
    <3>5. db_files'["working"][n] = db_files["working"][n] /\ db_files'["data"][n] = db_files["data"][n]
      BY <1>1, <2>4, <3>4 DEF LoadedFacts, Opened
    <3>6. n \in dropped => rows[n] = NoRow
      BY <2>3, <3>1 DEF NameOK, NoFile, NoRow
    <3>7. n \in dropped => catalog'[n] = NoEngine
      BY <2>4, <3>6 DEF LoadedFacts
    <3>8. rows[n].entry = 0
      BY <2>3, <3>1 DEF NameOK
    <3> QED BY <1>3, <2>2, <3>1, <3>2, <3>5, <3>6, <3>7, <3>8 DEF NameOK
  <2> QED BY <1>3, <2>2, <2>5, SettingsAssumption DEF GoneInv
<1>5. CASE RestartWithoutMeta
  <2>1. /\ ~WithMeta /\ Load(databases, {}) /\ meta' = FALSE /\ databases' = databases
        /\ databases \in [Names -> [dim : Dims, count : Nat, entry : {-1, 0}] \cup {NoRow}]
    BY <1>5 DEF RestartWithoutMeta, IndInv, TypeOK, MetadataTypeOK
  <2>2. LoadedFacts(databases, {})
    BY <2>1, LoadMeans
  <2>3. ASSUME NEW n \in Names PROVE NameOK(n)'
    <3>1. NameOK(n)
      BY DEF GoneInv
    <3>2. /\ catalog'[n] = NoEngine
          /\ db_files'["working"][n] = db_files["working"][n] /\ db_files'["data"][n] = db_files["data"][n]
      BY <1>1, <2>2 DEF LoadedFacts
    <3> QED BY <1>3, <2>1, <3>1, <3>2 DEF NameOK
  <2> QED BY <1>3, <2>1, <2>3, SettingsAssumption DEF GoneInv
<1>6. CASE RestartLosesMeta
  <2>1. PICK seen \in SUBSET Names :
          LET rows == Seeded([n \in Names |-> IF n \in seen THEN db_files[DataDir][n]
                                              ELSE NoFile])
          IN seen = Names /\ Bad(rows) # {}
    BY <1>6 DEF RestartLosesMeta
  <2> DEFINE found == [n \in Names |-> IF n \in seen THEN db_files[DataDir][n] ELSE NoFile]
  <2>2. PICK rows : rows = Seeded(found) /\ seen = Names /\ Bad(rows) # {}
    BY <2>1
  <2>3. ASSUME NEW n \in Names
        PROVE  rows[n].dim = db_files["working"][n].dim /\ rows[n].entry = 0
    <3>1. /\ found[n] = db_files["working"][n]
          /\ databases[n] # NoRow => rows[n] = databases[n]
          /\ databases[n] = NoRow => rows[n].dim = found[n].dim /\ rows[n].entry = 0
      BY <1>1, <2>2, SeededRow
    <3>2. NameOK(n)
      BY DEF GoneInv
    <3>3. CASE databases[n] # NoRow
      BY <3>1, <3>2, <3>3 DEF NameOK
    <3>4. CASE databases[n] = NoRow
      BY <3>1, <3>4
    <3> QED BY <3>3, <3>4
  <2>4. Bad(rows) = {}
    BY <1>1, <2>3 DEF Bad, Unreadable, Mismatched
  <2> QED BY <2>2, <2>4
<1> QED BY <1>4, <1>5, <1>6

LEMMA NextKeepsGone ==
    ASSUME SameDir = TRUE, HnswNames = {}, StartFails = FALSE
    PROVE  IndInv /\ GoneInv /\ [Next]_vars => GoneInv'
<1> SUFFICES ASSUME IndInv, GoneInv, [Next]_vars PROVE GoneInv'
  OBVIOUS
<1>1. ASSUME NEW c \in Clients, Locked(c) \/ Unlocked(c) PROVE GoneInv'
  <2>1. CASE Open(c) \/ Register(c) \/ DropRow(c) \/ Erase(c) \/ RemoveDb(c) \/ RemoveDel(c)
             \/ Insert(c) \/ Delete(c) \/ Mirror(c)
    BY <2>1, SelectionKeepsGone, DropKeepsGone, CallKeepsGone
  <2>2. CASE ~(Open(c) \/ Register(c) \/ DropRow(c) \/ Erase(c) \/ RemoveDb(c) \/ RemoveDel(c)
               \/ Insert(c) \/ Delete(c) \/ Mirror(c))
    <3>1. UNCHANGED <<catalog, databases, db_files, del_files>>
      BY <1>1, <2>2, StepFrame
    <3>2. TypeOK
      BY DEF IndInv
    <3>3. /\ dropped' \subseteq dropped
          /\ \/ UNCHANGED <<pc, arg>>
             \/ pc'[c] \notin {"erase", "remove_db", "remove_del", "open"}
             \/ ~meta /\ pc'[c] = "erase" /\ arg'[c].name \in Names
             \/ pc'[c] = "open" /\ arg'[c].name \notin dropped'
      BY <1>1, <2>2, <3>2, StepsToDrop
    <3>4. \A n \in Names : NameOK(n)'
      BY <3>1, <3>3 DEF GoneInv, NameOK
    <3>5. ~meta => \A n \in Names : databases[n] = NoRow
      BY DEF GoneInv, NameOK
    <3>6. ThreadOK(c)'
      BY <3>1, <3>3, <3>5 DEF GoneInv, ThreadOK
    <3> QED BY <1>1, <3>1, <3>3, <3>4, <3>6, OtherStepKeepsGone
  <2> QED BY <2>1, <2>2
<1>2. CASE UNCHANGED vars
  BY <1>2 DEF vars, disk, shared, threads, history, GoneInv, NameOK, ThreadOK
<1> QED BY <1>1, <1>2, StartKeepsGone DEF Next

(* With one directory, where no HNSW database was ever created and no      *)
(* start fails to reach PostgreSQL, a drop that was answered left no       *)
(* entry, no row and no file, and none comes back with a restart, a late   *)
(* mirror or a call of another connection, until somebody selects the name *)
(* (server.cpp:348-362, 485-508).  With an HNSW database this is false: a  *)
(* start cannot read the row of one that was created empty and goes on     *)
(* without PostgreSQL, and a drop then leaves the row                      *)
(* (metadata_store.cpp:64, 107, server.cpp:510-513, 350).                  *)
THEOREM DroppedStaysGone ==
    ASSUME SameDir = TRUE, HnswNames = {}, StartFails = FALSE
    PROVE  Spec => []DroppedIsGone
<1>1. Spec => [](IndInv /\ GoneInv)
  BY InitGoneInv, NextKeepsGone, Invariance, PTL DEF Spec
<1>2. GoneInv /\ IndInv => DroppedIsGone
  BY DEF GoneInv, NameOK, DroppedIsGone, IndInv, TypeOK, Dirs
<1> QED BY <1>1, <1>2, PTL
=============================================================================
