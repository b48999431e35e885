--------------------------- MODULE ServerPointerProofs ---------------------------
(***************************************************************************)
(* Proofs about the plain pointers that the threads of Server keep to the  *)
(* engine of their active database, for clients of which none drops a      *)
(* database that another has selected (DropShared is FALSE).  The run      *)
(* server_shared_pointer shows what happens beyond that.                   *)
(***************************************************************************)
EXTENDS ServerProofs

(* The pointer of a thread is the one the catalog has for its name, unless *)
(* the thread has just destroyed what it points to.                        *)
PointerOK(c) ==
    active_db[c] # NoEngine /\ pc[c] \notin {"remove_db", "remove_del"} =>
        catalog[active_db_name[c]] = active_db[c]

(* A call keeps the mutex it took.                                         *)
CallOK(c) == pc[c] = "call" => db_mutex[active_db[c]] = c

(* Nobody shares the pointer of a thread inside a drop, and nobody has the *)
(* pointer to a database whose selection is not complete.                  *)
DropOK(c) ==
    pc[c] \in InDrop => /\ active_db[c] # NoEngine
                        /\ \A d \in Clients \ {c} : active_db[d] # active_db[c]
RegisterOK(c) ==
    pc[c] = "register" => \A d \in Clients : active_db[d] # catalog[arg[c].name]

PointerInv ==
    /\ ~wild
    /\ \A c \in Clients : PointerOK(c) /\ CallOK(c) /\ DropOK(c) /\ RegisterOK(c)

LEMMA InitPointerInv == Init => PointerInv
BY DEF Init, PointerInv, PointerOK, CallOK, DropOK, RegisterOK, InDrop

-----------------------------------------------------------------------------
(* An address is in the catalog under one name.                            *)
LEMMA CatalogInjective ==
    ASSUME IndInv, NEW m \in Names, NEW n \in Names,
           catalog[m] = catalog[n], catalog[m] # NoEngine
    PROVE  m = n
BY DEF IndInv, CatalogInv

(* The pointer of a thread that is not inside a drop is to an engine, the  *)
(* one whose file has the name the thread selected.                        *)
LEMMA PointerFacts ==
    ASSUME IndInv, PointerInv, NEW c \in Clients,
           active_db[c] # NoEngine, pc[c] \notin {"remove_db", "remove_del"}
    PROVE  /\ active_db[c] \in Addresses /\ active_db_name[c] \in Names
           /\ catalog[active_db_name[c]] = active_db[c]
           /\ Alive(c) /\ engines[active_db[c]].name = active_db_name[c]
<1>1. active_db[c] \in Addresses /\ active_db_name[c] \in Names
  BY DEF IndInv, TypeOK, ArgInv, OperandsOK
<1>2. catalog[active_db_name[c]] = active_db[c]
  BY DEF PointerInv, PointerOK
<1> QED BY <1>1, <1>2 DEF IndInv, CatalogInv, Alive

(* Nobody points to an address at which nothing lives while the lock is    *)
(* free or with a selection.                                               *)
LEMMA NoPointerToFreed ==
    ASSUME IndInv, PointerInv, NEW a \in Addresses, engines[a] = Freed,
           \A d \in Clients : pc[d] \notin {"remove_db", "remove_del"}
    PROVE  \A d \in Clients : active_db[d] # a
BY PointerFacts, AddressesAssumption DEF Alive

(* While a thread holds the lock, no other is inside a selection or drop.  *)
LEMMA OthersNotInCatalog ==
    ASSUME IndInv, NEW c \in Clients, catalog_mutex \in {c, NoClient}
    PROVE  \A d \in Clients \ {c} : pc[d] \notin InCatalog
BY ClientsAssumption DEF IndInv, LockInv

(* Steps that leave the catalog alone and give no thread a pointer.        *)
LEMMA PointersStay ==
    ASSUME IndInv, PointerInv, NEW c \in Clients,
           catalog' = catalog, wild' = wild,
           \A d \in Clients \ {c} :
              /\ pc'[d] = pc[d] /\ arg'[d] = arg[d]
              /\ active_db'[d] = active_db[d] /\ active_db_name'[d] = active_db_name[d],
           \/ active_db'[c] = NoEngine
           \/ /\ active_db'[c] = active_db[c] /\ active_db_name'[c] = active_db_name[c]
              /\ pc[c] \in {"remove_db", "remove_del"} => pc'[c] \in {"remove_db", "remove_del"},
           pc'[c] # "register",
           pc'[c] \in InDrop => pc[c] \in InDrop /\ active_db'[c] = active_db[c],
           \A d \in Clients : pc'[d] = "call" => db_mutex'[active_db'[d]] = d
    PROVE  PointerInv'
<1>1. ASSUME NEW d \in Clients PROVE PointerOK(d)'
  BY DEF PointerInv, PointerOK
<1>2. ASSUME NEW d \in Clients PROVE CallOK(d)'
  BY DEF PointerInv, CallOK
<1>3. ASSUME NEW d \in Clients PROVE DropOK(d)'
  BY DEF PointerInv, DropOK
<1>4. ASSUME NEW d \in Clients PROVE RegisterOK(d)'
  <2> SUFFICES ASSUME pc'[d] = "register", NEW u \in Clients
               PROVE  active_db'[u] # catalog'[arg'[d].name]
    BY DEF RegisterOK
  <2>1. d # c /\ pc[d] = "register" /\ arg'[d] = arg[d]
    OBVIOUS
  <2>2. catalog[arg[d].name] # NoEngine /\ active_db[u] # catalog[arg[d].name]
    BY <2>1, AddressesAssumption DEF PointerInv, RegisterOK, IndInv, ArgInv, OpensOK
  <2> QED BY <2>1, <2>2
<1> QED BY <1>1, <1>2, <1>3, <1>4 DEF PointerInv

(* A selection gives its thread a pointer of the catalog that no thread    *)
(* inside a drop has.                                                      *)
LEMMA ActivateKeepsPointers ==
    ASSUME IndInv, PointerInv, NEW c \in Clients, NEW n \in Names, NEW a \in Addresses,
           Activate(c, n, a), catalog_mutex \in {c, NoClient},
           pc[c] \in {"idle", "open", "register"},
           catalog' = [catalog EXCEPT ![n] = a], catalog[n] \in {a, NoEngine},
           wild' = wild, db_mutex' = db_mutex,
           \A d \in Clients \ {c} : pc[d] = "drop" => active_db[d] # a
    PROVE  PointerInv'
<1>1. \A d \in Clients \ {c} : pc[d] \notin InCatalog
  BY OthersNotInCatalog
<1>2. /\ active_db' = [active_db EXCEPT ![c] = a]
      /\ active_db_name' = [active_db_name EXCEPT ![c] = n]
      /\ \E step \in {"check", "idle"} : pc' = [pc EXCEPT ![c] = step]
  BY DEF Activate, Point, AfterActivate
<1> USE DEF IndInv, TypeOK
<1>3. ASSUME NEW d \in Clients PROVE PointerOK(d)'
  <2>1. CASE d = c
    BY <1>2, <2>1 DEF PointerOK
  <2>2. CASE d # c
    <3> SUFFICES ASSUME active_db[d] # NoEngine
                 PROVE  catalog'[active_db_name'[d]] = active_db'[d]
      BY <1>2, <2>2 DEF PointerOK
    <3>1. active_db_name[d] \in Names /\ catalog[active_db_name[d]] = active_db[d]
      BY <1>1, <2>2, PointerFacts DEF InCatalog, InDrop
    <3> QED BY <1>2, <2>2, <3>1
  <2> QED BY <2>1, <2>2
<1>4. ASSUME NEW d \in Clients PROVE CallOK(d)'
  BY <1>2 DEF PointerInv, CallOK
<1>5. ASSUME NEW d \in Clients PROVE DropOK(d)'
  BY <1>1, <1>2 DEF PointerInv, DropOK, InDrop, InCatalog
<1>6. ASSUME NEW d \in Clients PROVE RegisterOK(d)'
  BY <1>1, <1>2 DEF RegisterOK, InCatalog
<1>7. ~wild'
  BY DEF PointerInv
<1> QED BY <1>3, <1>4, <1>5, <1>6, <1>7 DEF PointerInv

-----------------------------------------------------------------------------
(* One action after the other.                                             *)

LEMMA SelectKeepsPointers ==
    ASSUME DropShared = FALSE, IndInv, PointerInv, NEW c \in Clients, NEW n \in Names,
           SelectOpen(c, n)
    PROVE  PointerInv'
<1>1. catalog[n] \in Addresses /\ catalog' = [catalog EXCEPT ![n] = catalog[n]]
  BY DEF SelectOpen, NothingElse, shared, IndInv, TypeOK
<1>2. ASSUME NEW d \in Clients \ {c}, pc[d] = "drop" PROVE active_db[d] # catalog[n]
  <2>1. active_db_name[d] # n
    BY <1>2 DEF SelectOpen, MaySelect
  <2>2. active_db[d] # NoEngine
    BY <1>2 DEF PointerInv, DropOK, InDrop
  <2>3. active_db_name[d] \in Names /\ catalog[active_db_name[d]] = active_db[d]
    BY <1>2, <2>2, PointerFacts
  <2> QED BY <1>1, <2>1, <2>2, <2>3, CatalogInjective
<1> QED BY <1>1, <1>2, ActivateKeepsPointers
        DEF SelectOpen, NothingElse, history

LEMMA OpenKeepsPointers ==
    ASSUME IndInv, PointerInv, NEW c \in Clients, Open(c)
    PROVE  PointerInv'
<1> DEFINE n == arg[c].name
<1>1. /\ pc[c] = "open" /\ catalog_mutex = c /\ n \in Names /\ catalog[n] = NoEngine
      /\ wild' = wild /\ db_mutex' = db_mutex
  BY DropFacts DEF Open, history, InCatalog, IndInv, ArgInv, OpensOK
<1>2. PICK a \in Addresses :
         /\ engines[a] = Freed
         /\ catalog' = [catalog EXCEPT ![n] = a]
         /\ IF meta THEN Goto(c, "register") ELSE Activate(c, n, a)
  BY DEF Open
<1>3. \A d \in Clients \ {c} : pc[d] \notin InCatalog
  BY <1>1, OthersNotInCatalog
<1>4. \A d \in Clients : active_db[d] # a
  BY <1>1, <1>2, <1>3, NoPointerToFreed DEF InCatalog, InDrop
<1>5. CASE ~meta
  BY <1>1, <1>2, <1>4, <1>5, ActivateKeepsPointers
<1>6. CASE meta
  <2> USE DEF IndInv, TypeOK
  <2>1. /\ pc' = [pc EXCEPT ![c] = "register"]
        /\ UNCHANGED <<active_db, active_db_name, arg>>
    BY <1>2, <1>6 DEF Goto
  <2>2. ASSUME NEW d \in Clients PROVE PointerOK(d)'
    <3> SUFFICES ASSUME active_db[d] # NoEngine
                 PROVE  catalog'[active_db_name[d]] = active_db[d]
      BY <2>1 DEF PointerOK
    <3>1. active_db_name[d] \in Names /\ catalog[active_db_name[d]] = active_db[d]
      BY <1>1, <1>3, PointerFacts DEF InCatalog, InDrop
    <3> QED BY <1>1, <1>2, <3>1
  <2>3. ASSUME NEW d \in Clients PROVE CallOK(d)'
    BY <1>1, <2>1 DEF PointerInv, CallOK
  <2>4. ASSUME NEW d \in Clients PROVE DropOK(d)'
    BY <2>1 DEF PointerInv, DropOK, InDrop
  <2>5. ASSUME NEW d \in Clients PROVE RegisterOK(d)'
    BY <1>1, <1>2, <1>3, <1>4, <2>1 DEF RegisterOK, InCatalog
  <2>6. ~wild'
    BY <1>1 DEF PointerInv
  <2> QED BY <2>2, <2>3, <2>4, <2>5, <2>6 DEF PointerInv
<1> QED BY <1>5, <1>6

LEMMA RegisterKeepsPointers ==
    ASSUME IndInv, PointerInv, NEW c \in Clients, Register(c)
    PROVE  PointerInv'
<1> DEFINE n == arg[c].name
<1>1. /\ pc[c] = "register" /\ catalog_mutex = c /\ n \in Names /\ catalog[n] \in Addresses
      /\ Activate(c, n, catalog[n]) /\ catalog' = catalog /\ wild' = wild /\ db_mutex' = db_mutex
  BY DropFacts DEF Register, history, InCatalog, IndInv, ArgInv, OpensOK
<1>2. \A d \in Clients : active_db[d] # catalog[n]
  BY <1>1 DEF PointerInv, RegisterOK
<1>3. catalog' = [catalog EXCEPT ![n] = catalog[n]]
  BY <1>1 DEF IndInv, TypeOK
<1> QED BY <1>1, <1>2, <1>3, ActivateKeepsPointers

(* Nobody else has the pointer that is erased.                             *)
LEMMA EraseKeepsPointers ==
    ASSUME IndInv, PointerInv, NEW c \in Clients, Erase(c)
    PROVE  PointerInv'
<1> DEFINE n == arg[c].name
           a == active_db[c]
<1> USE DEF IndInv, TypeOK
<1>1. /\ pc[c] = "erase" /\ catalog_mutex = c
      /\ n \in Names /\ a \in Addresses /\ catalog[n] = a
  BY DropFacts DEF Erase, InCatalog, InDrop, ArgInv, OpensOK
<1>2. /\ db_mutex' = [db_mutex EXCEPT ![a] = NoClient]
      /\ catalog' = [catalog EXCEPT ![n] = NoEngine]
      /\ pc' = [pc EXCEPT ![c] = "remove_db"]
      /\ UNCHANGED <<active_db, active_db_name, arg, wild>>
  BY <1>1 DEF Erase, Goto, history
<1>3. \A d \in Clients \ {c} : pc[d] \notin InCatalog /\ active_db[d] # a
  BY <1>1, OthersNotInCatalog DEF PointerInv, DropOK, InDrop
<1>4. ASSUME NEW d \in Clients PROVE PointerOK(d)'
  <2> SUFFICES ASSUME d # c, active_db[d] # NoEngine
               PROVE  catalog'[active_db_name[d]] = active_db[d]
    BY <1>2 DEF PointerOK
  <2>1. active_db_name[d] \in Names /\ catalog[active_db_name[d]] = active_db[d]
    BY <1>3, PointerFacts DEF InCatalog, InDrop
  <2> QED BY <1>1, <1>2, <1>3, <2>1
<1>5. ASSUME NEW d \in Clients PROVE CallOK(d)'
  BY <1>1, <1>2, <1>3, AddressesAssumption DEF PointerInv, CallOK, ArgInv, OperandsOK, InCommand
<1>6. ASSUME NEW d \in Clients PROVE DropOK(d)'
  BY <1>1, <1>2 DEF PointerInv, DropOK, InDrop
<1>7. ASSUME NEW d \in Clients PROVE RegisterOK(d)'
  BY <1>2, <1>3 DEF RegisterOK, InCatalog
<1>8. ~wild'
  BY <1>2 DEF PointerInv
<1> QED BY <1>4, <1>5, <1>6, <1>7, <1>8 DEF PointerInv

(* A drop is begun by the only one who has the pointer.                    *)
LEMMA StartDropKeepsPointers ==
    ASSUME DropShared = FALSE, IndInv, PointerInv, NEW c \in Clients, StartDrop(c)
    PROVE  PointerInv'
<1> USE DEF IndInv, TypeOK
<1>1. /\ pc' = [pc EXCEPT ![c] = "drop"] /\ pc[c] = "idle" /\ active_db[c] # NoEngine
      /\ UNCHANGED <<active_db, active_db_name, arg, catalog, db_mutex, wild>>
      /\ \A d \in Clients \ {c} : active_db[d] # active_db[c]
  BY DEF StartDrop, Goto, NothingElse, shared, history, MayDrop
<1>2. ASSUME NEW d \in Clients PROVE PointerOK(d)'
  BY <1>1 DEF PointerInv, PointerOK
<1>3. ASSUME NEW d \in Clients PROVE CallOK(d)'
  BY <1>1 DEF PointerInv, CallOK
<1>4. ASSUME NEW d \in Clients PROVE DropOK(d)'
  BY <1>1 DEF PointerInv, DropOK, InDrop
<1>5. ASSUME NEW d \in Clients PROVE RegisterOK(d)'
  BY <1>1 DEF PointerInv, RegisterOK
<1>6. ~wild'
  BY <1>1 DEF PointerInv
<1> QED BY <1>2, <1>3, <1>4, <1>5, <1>6 DEF PointerInv

(* A call takes the mutex at its pointer and gives it back.                *)
LEMMA CallsKeepPointers ==
    ASSUME IndInv, PointerInv, NEW c \in Clients,
           BeginCall(c) \/ Insert(c) \/ Delete(c) \/ OtherCall(c)
    PROVE  PointerInv'
<1> USE DEF IndInv, TypeOK
<1>1. active_db[c] \in Addresses
  BY DEF BeginCall, Insert, Delete, OtherCall, InCall, ArgInv, OperandsOK, InCommand
<1>2. /\ UNCHANGED <<active_db, active_db_name, arg, catalog, wild>>
      /\ \E step \in {"call", "count", "idle"} : pc' = [pc EXCEPT ![c] = step]
  BY DEF BeginCall, Insert, Delete, OtherCall, MirrorNext, Goto, disk, shared, history
<1>3. ASSUME NEW d \in Clients, pc'[d] = "call" PROVE db_mutex'[active_db[d]] = d
  <2>1. CASE BeginCall(c)
    <3>1. db_mutex[active_db[c]] = NoClient /\ db_mutex' = [db_mutex EXCEPT ![active_db[c]] = c]
      BY <2>1 DEF BeginCall
    <3>2. CASE d = c
      BY <1>1, <3>1, <3>2
    <3>3. CASE d # c
      BY <1>1, <1>2, <1>3, <3>1, <3>3, ClientsAssumption DEF PointerInv, CallOK
    <3> QED BY <3>2, <3>3
  <2>2. CASE Insert(c) \/ Delete(c) \/ OtherCall(c)
    <3>1. /\ db_mutex[active_db[c]] = c /\ db_mutex' = [db_mutex EXCEPT ![active_db[c]] = NoClient]
          /\ pc'[c] # "call"
      BY <2>2 DEF Insert, Delete, OtherCall, InCall, Unlock, MirrorNext, Goto
    <3>2. d # c /\ db_mutex[active_db[d]] = d
      BY <1>2, <1>3, <3>1 DEF PointerInv, CallOK
    <3> QED BY <3>1, <3>2
  <2> QED BY <2>1, <2>2
<1>4. pc[c] \in {"payload", "call"}
  BY DEF BeginCall, Insert, Delete, OtherCall, InCall
<1> QED BY <1>2, <1>3, <1>4, PointersStay DEF InDrop

LEMMA UseFreedImpossible ==
    ASSUME IndInv, PointerInv, NEW c \in Clients
    PROVE  ~UseFreed(c)
<1> SUFFICES ASSUME UsesPointer(c), Alive(c) => pc[c] = "call" /\ db_mutex[active_db[c]] # c
             PROVE  FALSE
  BY DEF UseFreed
<1>1. active_db[c] # NoEngine /\ pc[c] \notin {"remove_db", "remove_del"}
  BY AddressesAssumption DEF UsesPointer, IndInv, ArgInv, OperandsOK, InCommand
<1> QED BY <1>1, PointerFacts DEF PointerInv, CallOK

(* Steps that only move the thread, or clear its pointer.                  *)
LEMMA QuietStepsKeepPointers ==
    ASSUME IndInv, PointerInv, NEW c \in Clients,
           \/ Connect(c) \/ Disconnect(c) \/ OpenThrows(c)
           \/ \E n \in Names, dim \in Dims : SelectClosed(c, n, dim)
           \/ CheckDimension(c) \/ NoActive(c) \/ StartCommand(c) \/ OtherCommand(c)
           \/ ReadCount(c) \/ Mirror(c) \/ StoreFails(c) \/ NotInCatalog(c)
           \/ \E n \in Names : FindInCatalog(c, n)
           \/ DropRow(c) \/ RemoveDb(c) \/ RemoveDel(c)
    PROVE  PointerInv'
<1> USE DEF IndInv, TypeOK, disk, shared, history, NothingElse, Goto, Hangup
<1>1. PICK step \in Steps : pc' = [pc EXCEPT ![c] = step]
  BY DEF Connect, Disconnect, OpenThrows, SelectClosed, NotOpen, CheckDimension, NoActive,
         StartCommand, OtherCommand, ReadCount, CountRead, Mirror, StoreFails, NotInCatalog,
         FindInCatalog, DropRow, RemoveDb, RemoveDel, RemoveLast,
         Steps, InHandshake, InDrop, InCommand
<1>2. /\ catalog' = catalog /\ wild' = wild /\ db_mutex' = db_mutex
      /\ \A d \in Clients \ {c} :
            /\ arg'[d] = arg[d] /\ active_db'[d] = active_db[d]
            /\ active_db_name'[d] = active_db_name[d]
  BY DEF Connect, Disconnect, OpenThrows, SelectClosed, NotOpen, CheckDimension, NoActive,
         StartCommand, OtherCommand, ReadCount, CountRead, Mirror, StoreFails, InTransaction,
         NotInCatalog, FindInCatalog, DropRow, RemoveDb, RemoveDel, RemoveLast
<1>3. /\ \/ active_db'[c] = NoEngine
         \/ /\ active_db'[c] = active_db[c] /\ active_db_name'[c] = active_db_name[c]
            /\ pc[c] \in {"remove_db", "remove_del"} => step \in {"remove_db", "remove_del"}
      /\ step # "register" /\ step # "call"
      /\ step \in InDrop => pc[c] \in InDrop /\ active_db'[c] = active_db[c]
  BY <1>1 DEF Connect, Disconnect, OpenThrows, SelectClosed, NotOpen, CheckDimension, NoActive,
         StartCommand, OtherCommand, ReadCount, CountRead, Mirror, StoreFails, NotInCatalog,
         FindInCatalog, DropRow, RemoveDb, RemoveDel, RemoveLast, InDrop
<1>4. ASSUME NEW d \in Clients, pc'[d] = "call" PROVE db_mutex'[active_db'[d]] = d
  BY <1>1, <1>2, <1>3, <1>4 DEF PointerInv, CallOK
<1> QED BY <1>1, <1>2, <1>3, <1>4, PointersStay

LEMMA NextKeepsPointers ==
    ASSUME DropShared = FALSE
    PROVE  IndInv /\ PointerInv /\ [Next]_vars => PointerInv'
<1> SUFFICES ASSUME IndInv, PointerInv, [Next]_vars PROVE PointerInv'
  OBVIOUS
<1>1. ASSUME NEW c \in Clients, Locked(c) PROVE PointerInv'
  BY <1>1, OpenKeepsPointers, RegisterKeepsPointers, EraseKeepsPointers, CallsKeepPointers,
     QuietStepsKeepPointers DEF Locked
<1>2. ASSUME NEW c \in Clients, Unlocked(c) PROVE PointerInv'
  BY <1>2, SelectKeepsPointers, StartDropKeepsPointers, CallsKeepPointers,
     UseFreedImpossible, QuietStepsKeepPointers DEF Unlocked
<1>3. CASE Stop
  BY <1>3 DEF Stop, PointerInv, PointerOK, CallOK, DropOK, RegisterOK, InDrop
<1>4. CASE UNCHANGED vars
  BY <1>4 DEF vars, shared, threads, history,
              PointerInv, PointerOK, CallOK, DropOK, RegisterOK
<1> QED BY <1>1, <1>2, <1>3, <1>4 DEF Next, Restart, RestartWithoutMeta, RestartLosesMeta

(* Where no client drops what another has selected, the pointer of every   *)
(* thread is the catalog's for the database it selected last, and a thread *)
(* inside a drop is the only one to have its pointer (server.cpp:339-363). *)
LEMMA PointersAreCurrent ==
    ASSUME DropShared = FALSE
    PROVE  Spec => [](IndInv /\ PointerInv)
BY InitPointerInv, NextKeepsPointers, Invariance, PTL DEF Spec

(* No thread uses an engine or a mutex that was destroyed, however         *)
(* selections, commands and drops of any number of connections interleave  *)
(* and whichever addresses are used again (server.cpp:256-363).            *)
THEOREM NoUseAfterPrivateDrop ==
    ASSUME DropShared = FALSE
    PROVE  Spec => []NoUseAfterDrop
<1>1. PointerInv => NoUseAfterDrop
  BY DEF PointerInv, NoUseAfterDrop
<1> QED BY <1>1, PointersAreCurrent, PTL

-----------------------------------------------------------------------------
(* Where commands go.                                                      *)

(* What ends a call or the writing of a count, short of an exception.      *)
LEMMA StepsOfCommand ==
    ASSUME TypeOK, NEW c \in Clients, Locked(c) \/ Unlocked(c),
           pc[c] \in {"call", "mirror"}, pc'[c] \notin {pc[c], "closed"}
    PROVE  Insert(c) \/ Delete(c) \/ OtherCall(c) \/ Mirror(c)
<1>1. CASE Locked(c)
  BY <1>1 DEF Locked, Open, OpenThrows, Register, DropRow, Erase, RemoveDb, RemoveDel, RemoveLast
<1>2. CASE Unlocked(c)
  BY <1>2 DEF TypeOK, Unlocked, Connect, Disconnect, SelectOpen, SelectClosed, NotOpen, FindInCatalog,
              CheckDimension, NoActive, StartCommand, OtherCommand, BeginCall, ReadCount, CountRead,
              StoreFails, Hangup, StartDrop, NotInCatalog, UseFreed, threads
<1> QED BY <1>1, <1>2

LEMMA CommandsHitTheirName ==
    ASSUME IndInv, PointerInv, NEW c \in Clients,
           Insert(c) \/ Delete(c) \/ OtherCall(c) \/ Mirror(c),
           NEW n \in Names \ {active_db_name[c]}
    PROVE  /\ databases'[n] = databases[n]
           /\ \A d \in Dirs : /\ db_files'[d][n] = db_files[d][n]
                              /\ n \in del_files'[d] <=> n \in del_files[d]
           /\ engines[active_db[c]].name # n
<1> DEFINE e == engines[active_db[c]]
<1>1. e.name = active_db_name[c]
  BY PointerFacts, AddressesAssumption
     DEF Insert, Delete, OtherCall, InCall, Mirror, IndInv, ArgInv, OperandsOK, InCommand
<1>2. CASE Insert(c) \/ Delete(c) \/ OtherCall(c)
  <2>1. e.dir \in Dirs /\ e.name \in Names
    BY <1>2, CallFacts DEF Insert, Delete, OtherCall
  <2>2. databases' = databases
    BY <1>2 DEF Insert, Delete, OtherCall
  <2>3. \A d \in Dirs : db_files'[d][n] = db_files[d][n]
    <3>1. CASE Insert(c)
      BY <1>1, <2>1, <3>1 DEF Insert, Add, IndInv, TypeOK
    <3> QED BY <1>2, <3>1 DEF Delete, OtherCall, disk
  <2>4. \A d \in Dirs : n \in del_files'[d] <=> n \in del_files[d]
    BY <1>1, <1>2, <2>1 DEF Insert, Delete, OtherCall, disk, IndInv, TypeOK
  <2> QED BY <1>1, <2>2, <2>3, <2>4
<1>3. CASE Mirror(c)
  BY <1>1, <1>3 DEF Mirror, disk, UpdateCounts, IndInv, TypeOK, MetadataTypeOK
<1> QED BY <1>2, <1>3

(* A command changes the files and the row of the database its connection  *)
(* selected last and of no other, and is to the engine of that database,   *)
(* where no client drops what another uses: the pointer, the name and the  *)
(* catalog cannot part (server.cpp:181-183, 256-317).                      *)
THEOREM CommandsReachTheirs ==
    ASSUME DropShared = FALSE
    PROVE  Spec => CommandsReachTheirDatabase
<1> DEFINE Reach(c) == pc[c] \in {"call", "mirror"} /\ pc'[c] \notin {pc[c], "closed"} =>
          \A n \in Names \ {active_db_name[c]} :
             /\ databases'[n] = databases[n]
             /\ \A d \in Dirs : /\ db_files'[d][n] = db_files[d][n]
                                /\ n \in del_files'[d] <=> n \in del_files[d]
             /\ engines[active_db[c]].name # n
<1>1. IndInv /\ PointerInv /\ [Next]_vars => [\A c \in Clients : Reach(c)]_vars
  <2> SUFFICES ASSUME IndInv, PointerInv, Next, NEW c \in Clients,
                      pc[c] \in {"call", "mirror"}, pc'[c] \notin {pc[c], "closed"}
               PROVE  Reach(c)
    OBVIOUS
  <2>1. CASE \E d \in Clients : Locked(d) \/ Unlocked(d)
    <3>1. PICK d \in Clients : Locked(d) \/ Unlocked(d)
      BY <2>1
    <3>2. d = c
      BY <3>1, OthersStay DEF IndInv
    <3>3. Insert(c) \/ Delete(c) \/ OtherCall(c) \/ Mirror(c)
      BY <3>1, <3>2, StepsOfCommand DEF IndInv
    <3> QED BY <3>3, CommandsHitTheirName
  <2>2. CASE Stop
    BY <2>2 DEF Stop
  <2> QED BY <2>1, <2>2 DEF Next, Restart, RestartWithoutMeta, RestartLosesMeta
<1> QED BY <1>1, PointersAreCurrent, PTL DEF Spec, CommandsReachTheirDatabase

-----------------------------------------------------------------------------
(* The count on its way to the mirror is at most the file's.               *)

MirrorOK(c) ==
    pc[c] = "mirror" => arg[c].count <= CountOf(engines[active_db[c]])

MirrorInv == \A c \in Clients : MirrorOK(c)

(* While a thread is at its mirror step its engine stays where it is and   *)
(* the count of its file does not fall.                                    *)
LEMMA CountsGrow ==
    ASSUME IndInv, PointerInv, NEW d \in Clients, Locked(d) \/ Unlocked(d),
           NEW c \in Clients, pc[c] = "mirror"
    PROVE  LET e == engines[active_db[c]] IN
           /\ engines'[active_db[c]] = e
           /\ db_files[e.dir][e.name].count \in Nat
           /\ db_files'[e.dir][e.name].count \in Nat
           /\ db_files[e.dir][e.name].count <= db_files'[e.dir][e.name].count
<1> DEFINE a == active_db[c]
           e == engines[a]
<1> USE DEF IndInv, TypeOK
<1>1. /\ a \in Addresses /\ e # Freed /\ e.name \in Names /\ e.dir \in Dirs
      /\ catalog[e.name] = a /\ e \in [name : Names, dir : Dirs]
  <2>1. a \in Addresses
    BY DEF ArgInv, OperandsOK, InCommand
  <2>2. e # Freed
    BY <2>1, PointerFacts, AddressesAssumption DEF Alive
  <2> QED BY <2>1, <2>2 DEF CatalogInv
<1>2. db_files[e.dir][e.name] \in [dim : Dims, count : 0 .. MaxCount]
  BY <1>1 DEF CatalogInv
<1>3. db_files[e.dir][e.name].count \in Nat
  BY <1>2, ServerBoundsAssumption, SMT
<1>4. engines'[a] = e
  <2>1. CASE Open(d)
    BY <1>1, <2>1 DEF Open
  <2>2. CASE Erase(d)
    <3>1. active_db[d] # a /\ catalog[arg[d].name] = active_db[d]
      BY <2>2 DEF Erase, PointerInv, DropOK, InDrop, ArgInv, OpensOK
    <3> QED BY <2>2, <3>1 DEF Erase
  <2> QED BY <2>1, <2>2, StepFrame
<1>5. CASE db_files' = db_files
  BY <1>3, <1>4, <1>5
<1>6. CASE Open(d)
  <2>1. /\ pc[d] = "open" /\ catalog[arg[d].name] = NoEngine /\ arg[d].name \in Names
        /\ db_files' = [db_files EXCEPT !["working"][arg[d].name] =
                           Opened(db_files["working"][arg[d].name], arg[d].dim)]
    BY <1>6, DropFacts DEF Open, InCatalog, ArgInv, OpensOK
  <2>2. arg[d].name # e.name
    BY <1>1, <2>1, AddressesAssumption
  <2>3. db_files'[e.dir][e.name] = db_files[e.dir][e.name]
    BY <1>1, <2>1, <2>2
  <2> QED BY <1>3, <1>4, <2>3
<1>7. CASE RemoveDb(d)
  <2>1. /\ pc[d] = "remove_db" /\ catalog[arg[d].name] = NoEngine /\ arg[d].name \in Names
        /\ db_files' = [db_files EXCEPT !["working"][arg[d].name] = NoFile]
    BY <1>7, DropFacts DEF RemoveDb, InCatalog, InDrop, ArgInv, OpensOK
  <2>2. arg[d].name # e.name
    BY <1>1, <2>1, AddressesAssumption
  <2>3. db_files'[e.dir][e.name] = db_files[e.dir][e.name]
    BY <1>1, <2>1, <2>2
  <2> QED BY <1>3, <1>4, <2>3
<1>8. CASE Insert(d)
  <2> DEFINE f == engines[active_db[d]]
             old == db_files[f.dir][f.name]
             count == IF old.count < MaxCount THEN old.count + 1 ELSE old.count
  <2>1. /\ f.dir \in Dirs /\ f.name \in Names /\ old \in [dim : Dims, count : 0 .. MaxCount]
        /\ db_files' = [db_files EXCEPT ![f.dir][f.name] = [old EXCEPT !.count = count]]
    BY <1>8, CallFacts DEF Insert, Add
  <2>2. old.count \in Nat /\ count \in Nat /\ old.count <= count
    BY <2>1, ServerBoundsAssumption, SMT
  <2> HIDE DEF old, count, f
  <2>3. CASE e.dir = f.dir /\ e.name = f.name
    <3>1. db_files'[e.dir][e.name].count = count
      BY <2>1, <2>3
    <3> QED BY <1>4, <2>2, <2>3, <3>1 DEF old
  <2>4. CASE ~(e.dir = f.dir /\ e.name = f.name)
    <3>1. db_files'[e.dir][e.name] = db_files[e.dir][e.name]
      BY <1>1, <2>1, <2>4
    <3> QED BY <1>3, <1>4, <3>1
  <2> QED BY <2>3, <2>4
<1> QED BY <1>5, <1>6, <1>7, <1>8, StepFrame

LEMMA NextKeepsMirror ==
    ASSUME IndInv, PointerInv, MirrorInv, [Next]_vars
    PROVE  MirrorInv'
<1>1. CASE UNCHANGED vars
  BY <1>1 DEF vars, disk, shared, threads, MirrorInv, MirrorOK, CountOf
<1>2. CASE Stop
  BY <1>2 DEF Stop, MirrorInv, MirrorOK
<1>3. ASSUME NEW d \in Clients, Locked(d) \/ Unlocked(d) PROVE MirrorInv'
  <2> SUFFICES ASSUME NEW c \in Clients, pc'[c] = "mirror"
               PROVE  LET e == engines'[active_db'[c]] IN
                      arg'[c].count <= db_files'[e.dir][e.name].count
    BY DEF MirrorInv, MirrorOK, CountOf
  <2>1. CASE pc[c] = "mirror"
    <3>1. arg'[c] = arg[c] /\ active_db'[c] = active_db[c]
      <4>1. CASE d # c
        BY <1>3, <4>1, OthersStay DEF IndInv
      <4>2. CASE d = c
        BY <1>3, <2>1, <4>2 DEF IndInv, TypeOK, Locked, Unlocked, Open, OpenThrows, Register, DropRow,
           Erase, RemoveDb, RemoveDel, RemoveLast, Insert, Delete, OtherCall, InCall,
           Connect, Disconnect, SelectOpen, SelectClosed, NotOpen, FindInCatalog,
           CheckDimension, NoActive, StartCommand, OtherCommand, BeginCall, ReadCount, CountRead,
           Mirror, StoreFails, Hangup, StartDrop, NotInCatalog, UseFreed, threads
      <4> QED BY <4>1, <4>2
    <3> DEFINE e == engines[active_db[c]]
    <3>2. arg[c].count <= db_files[e.dir][e.name].count
      BY <2>1 DEF MirrorInv, MirrorOK, CountOf
    <3>3. arg[c].count \in Nat
      BY ServerBoundsAssumption, SMT DEF IndInv, TypeOK
    <3>4. /\ engines'[active_db[c]] = e /\ db_files[e.dir][e.name].count \in Nat
          /\ db_files'[e.dir][e.name].count \in Nat
          /\ db_files[e.dir][e.name].count <= db_files'[e.dir][e.name].count
      BY <1>3, <2>1, CountsGrow
    <3> HIDE DEF e
    <3>5. arg[c].count <= db_files'[e.dir][e.name].count
      BY <3>2, <3>3, <3>4
    <3> QED BY <3>1, <3>4, <3>5
  <2>2. CASE pc[c] # "mirror"
    <3>1. d = c
      BY <1>3, <2>2, OthersStay DEF IndInv
    <3>2. ReadCount(c)
      BY <1>3, <2>2, <3>1 DEF IndInv, TypeOK, Locked, Unlocked, Open, OpenThrows, Register, DropRow,
         Erase, RemoveDb, RemoveDel, RemoveLast, Insert, Delete, OtherCall, InCall, MirrorNext, Goto, Activate, Point,
         AfterActivate, Hangup, Connect, Disconnect, SelectOpen, SelectClosed, NotOpen, FindInCatalog,
         CheckDimension, NoActive, StartCommand, OtherCommand, BeginCall,
         Mirror, StoreFails, StartDrop, NotInCatalog, UseFreed, threads
    <3>3. /\ arg'[c].count = CountOf(engines[active_db[c]])
          /\ UNCHANGED <<active_db, engines, db_files>>
      BY <3>2 DEF ReadCount, CountRead, NothingElse, disk, shared, IndInv, TypeOK
    <3>4. CountOf(engines[active_db[c]]) \in Nat
      <4>1. arg'[c] \in [name : Names \cup {NoName}, dim : Dims \cup {0}, count : 0 .. MaxCount]
        BY <3>2, ReadCountKeeps DEF IndInv, TypeOK
      <4> QED BY <3>3, <4>1, ServerBoundsAssumption, SMT
    <3> QED BY <3>3, <3>4 DEF CountOf
  <2> QED BY <2>1, <2>2
<1> QED BY <1>1, <1>2, <1>3 DEF Next, Restart, RestartWithoutMeta, RestartLosesMeta

LEMMA CountIsReal ==
    ASSUME SameDir = TRUE, IndInv, PointerInv, MirrorInv, Next, NEW n \in Names,
           databases'[n].count # databases[n].count, databases'[n] # NoRow
    PROVE  databases'[n].count <= db_files[IF catalog[n] = NoEngine THEN DataDir
                                           ELSE engines[catalog[n]].dir][n].count
<1> USE DEF IndInv, TypeOK
<1>1. (IF catalog[n] = NoEngine THEN DataDir ELSE engines[catalog[n]].dir) = "working"
  BY DEF CatalogInv, DataDir
<1>2. db_files["working"][n].count \in Nat
  <2>1. db_files["working"][n] \in [dim : Dims, count : 0 .. MaxCount] \cup {NoFile}
    BY DEF Dirs
  <2>2. db_files["working"][n].count \in 0 .. MaxCount
    BY <2>1, ServerBoundsAssumption DEF NoFile
  <2> QED BY <2>2, ServerBoundsAssumption, SMT
<1>3. databases'[n].count <= db_files["working"][n].count
  <2>1. CASE Restart \/ RestartWithoutMeta \/ RestartLosesMeta
    <3>1. DataDir = "working"
      BY DEF DataDir
    <3>2. databases'[n] = Row(n, db_files[DataDir][n].dim, db_files[DataDir][n].count)
      BY <2>1, StartRows
    <3>3. databases'[n].count = db_files["working"][n].count
      BY <3>1, <3>2 DEF Row
    <3> QED BY <1>2, <3>3
  <2>2. ASSUME NEW c \in Clients, Register(c)
        PROVE  databases'[n].count <= db_files["working"][n].count
    <3>1. databases' = [databases EXCEPT ![arg[c].name] =
             Row(arg[c].name, arg[c].dim, db_files["working"][arg[c].name].count)]
      BY <2>2 DEF Register, CreateDatabase
    <3>2. n = arg[c].name /\ databases'[n].count = db_files["working"][n].count
      BY <3>1 DEF MetadataTypeOK, Row
    <3> QED BY <1>2, <3>2
  <2>3. ASSUME NEW c \in Clients, Mirror(c)
        PROVE  databases'[n].count <= db_files["working"][n].count
    <3>1. /\ pc[c] = "mirror" /\ n = active_db_name[c]
          /\ databases'[n].count = arg[c].count
      BY <2>3 DEF Mirror, UpdateCounts, MetadataTypeOK
    <3>2. active_db[c] # NoEngine
      BY <3>1, AddressesAssumption DEF ArgInv, OperandsOK, InCommand
    <3>3. catalog[n] = active_db[c] /\ engines[active_db[c]].name = n
      BY <3>1, <3>2, PointerFacts
    <3>4. engines[active_db[c]].dir = "working"
      BY <1>1, <3>2, <3>3
    <3> QED BY <3>1, <3>3, <3>4 DEF MirrorInv, MirrorOK, CountOf
  <2>4. ASSUME NEW c \in Clients, DropRow(c) PROVE FALSE
    BY <2>4 DEF DropRow, DropDatabase, MetadataTypeOK
  <2> QED BY <2>1, <2>2, <2>3, <2>4, StepFrame DEF Next
<1> QED BY <1>1, <1>3

(* A count that reaches a row is one the file of that row's database had,  *)
(* so never more than it has, however late the thread that read it writes  *)
(* it, and also when a start makes the row.  This is for one directory of  *)
(* files: a start with another makes rows from files of the same name that *)
(* nobody serves (server.cpp:259-266, metadata_store.cpp:118-126).         *)
THEOREM MirroredCounts ==
    ASSUME DropShared = FALSE, SameDir = TRUE
    PROVE  Spec => MirroredCountIsReal
<1>1. Init => MirrorInv
  BY DEF Init, MirrorInv, MirrorOK
<1>2. IndInv /\ PointerInv /\ MirrorInv /\ [Next]_vars => MirrorInv'
  BY NextKeepsMirror
<1>3. IndInv /\ PointerInv /\ MirrorInv /\ [Next]_vars =>
        [\A n \in Names : databases'[n].count # databases[n].count /\ databases'[n] # NoRow =>
            databases'[n].count <= db_files[IF catalog[n] = NoEngine THEN DataDir
                                            ELSE engines[catalog[n]].dir][n].count]_vars
  BY CountIsReal
<1> QED BY <1>1, <1>2, <1>3, PointersAreCurrent, PTL DEF Spec, MirroredCountIsReal

-----------------------------------------------------------------------------
(* What commands have stored under a name is in its file, and a thread     *)
(* inside a drop, past the search in the catalog, has nothing to lose:     *)
(* nobody else has its pointer, so nobody adds to the database meanwhile.  *)

Dropping == InDrop \ {"drop"}

StoredInv ==
    /\ \A n \in Names : stored[n] <= db_files["working"][n].count
    /\ \A c \in Clients : pc[c] \in Dropping => stored[arg[c].name] = 0

(* Which steps take a thread past the search.                              *)
LEMMA StepsOfDrop ==
    ASSUME TypeOK, NEW c \in Clients, Locked(c) \/ Unlocked(c), pc'[c] \in Dropping
    PROVE  \/ \E n \in Names : FindInCatalog(c, n) /\ arg'[c].name = n
           \/ pc[c] \in Dropping /\ arg'[c].name = arg[c].name
<1> USE DEF TypeOK, Goto, Hangup, Activate, Point, AfterActivate, Dropping, InDrop
<1>1. CASE Locked(c)
  <2>1. CASE Open(c) \/ OpenThrows(c) \/ Register(c)
    BY <2>1 DEF Open, OpenThrows, Register
  <2>2. CASE DropRow(c) \/ Erase(c) \/ RemoveDb(c) \/ RemoveDel(c)
    BY <2>2 DEF DropRow, Erase, RemoveDb, RemoveDel, RemoveLast
  <2>3. CASE Insert(c) \/ Delete(c) \/ OtherCall(c)
    BY <2>3 DEF Insert, Delete, OtherCall, MirrorNext
  <2> HIDE DEF TypeOK, Goto, Hangup, Activate, Point, AfterActivate, Dropping, InDrop
  <2> QED BY <1>1, <2>1, <2>2, <2>3, Zenon DEF Locked
<1>2. CASE Unlocked(c)
  <2>1. CASE Connect(c) \/ Disconnect(c) \/ CheckDimension(c) \/ NoActive(c) \/ StartCommand(c)
             \/ OtherCommand(c) \/ BeginCall(c) \/ StartDrop(c) \/ NotInCatalog(c)
    BY <2>1 DEF Connect, Disconnect, CheckDimension, NoActive, StartCommand, OtherCommand, BeginCall,
                StartDrop, NotInCatalog
  <2>2. CASE ReadCount(c) \/ Mirror(c) \/ StoreFails(c) \/ UseFreed(c)
    BY <2>2 DEF ReadCount, CountRead, Mirror, StoreFails, UseFreed, threads
  <2>3. ASSUME NEW n \in Names, SelectOpen(c, n) \/ \E dim \in Dims : SelectClosed(c, n, dim)
        PROVE  FALSE
    BY <2>3 DEF SelectOpen, SelectClosed, NotOpen
  <2>4. ASSUME NEW n \in Names, FindInCatalog(c, n)
        PROVE  arg'[c].name = n
    BY <2>4 DEF FindInCatalog
  <2> HIDE DEF TypeOK, Goto, Hangup, Activate, Point, AfterActivate, Dropping, InDrop
  <2> QED BY <1>2, <2>1, <2>2, <2>3, <2>4, Zenon DEF Unlocked
<1> QED BY <1>1, <1>2

(* An insertion counts for the database whose file it extends.             *)
LEMMA InsertStores ==
    ASSUME SameDir = TRUE, IndInv, PointerInv, StoredInv, NEW c \in Clients, Insert(c)
    PROVE  /\ \A n \in Names : stored'[n] <= db_files'["working"][n].count
           /\ \A n \in Names \ {active_db_name[c]} : stored'[n] = stored[n]
<1> DEFINE e == engines[active_db[c]]
           n == active_db_name[c]
           file == db_files["working"][n]
<1>1. /\ active_db[c] \in Addresses /\ e.name = n /\ n \in Names /\ e # Freed
      /\ e \in [name : Names, dir : Dirs]
  BY CallFacts, PointerFacts, AddressesAssumption DEF Insert, InCall, Alive
<1>2. e.dir = "working"
  BY <1>1 DEF IndInv, CatalogInv, DataDir
<1>3. /\ db_files' = [db_files EXCEPT !["working"][n].count =
             IF file.count < MaxCount THEN file.count + 1 ELSE file.count]
      /\ stored' = IF file.count < MaxCount THEN [stored EXCEPT ![n] = @ + 1] ELSE stored
  BY <1>1, <1>2 DEF Insert, Add, CountOf
<1>4. /\ db_files["working"] \in [Names -> [dim : Dims, count : 0 .. MaxCount] \cup {NoFile}]
      /\ "working" \in Dirs /\ stored \in [Names -> Nat]
      /\ db_files \in [Dirs -> [Names -> [dim : Dims, count : 0 .. MaxCount] \cup {NoFile}]]
  BY DEF IndInv, TypeOK, Dirs
<1>5. file.count \in Nat
  <2>1. file.count \in 0 .. MaxCount
    BY <1>1, <1>4, ServerBoundsAssumption DEF NoFile
  <2> QED BY <2>1, ServerBoundsAssumption, SMT
<1>6. file \in [dim : Dims, count : 0 .. MaxCount]
  BY <1>1, <1>2, CallFacts DEF Insert
<1> HIDE DEF e, n
<1>7. db_files'["working"][n].count = IF file.count < MaxCount THEN file.count + 1 ELSE file.count
  BY <1>1, <1>3, <1>4, <1>6
<1>8. \A m \in Names \ {n} : db_files'["working"][m] = db_files["working"][m] /\ stored'[m] = stored[m]
  BY <1>1, <1>3, <1>4
<1>9. stored'[n] = IF file.count < MaxCount THEN stored[n] + 1 ELSE stored[n]
  BY <1>1, <1>3, <1>4
<1>10. stored'[n] <= db_files'["working"][n].count
  BY <1>1, <1>4, <1>5, <1>7, <1>9, ServerBoundsAssumption DEF StoredInv
<1> QED BY <1>8, <1>10 DEF StoredInv, n

LEMMA NextKeepsStored ==
    ASSUME SameDir = TRUE, DropShared = FALSE
    PROVE  IndInv /\ PointerInv /\ StoredInv /\ [Next]_vars => StoredInv'
<1> SUFFICES ASSUME IndInv, PointerInv, StoredInv, [Next]_vars PROVE StoredInv'
  OBVIOUS
<1>1. /\ \A n \in Names : db_files["working"][n] \in [dim : Dims, count : 0 .. MaxCount] \cup {NoFile}
      /\ stored \in [Names -> Nat]
  BY DEF IndInv, TypeOK, Dirs
<1>2. ASSUME NEW c \in Clients, Locked(c) \/ Unlocked(c) PROVE StoredInv'
  <2>1. \A d \in Clients \ {c} : pc'[d] = pc[d] /\ arg'[d] = arg[d]
    BY <1>2, OthersStay DEF IndInv
  <2>2. ASSUME NEW n \in Names PROVE stored'[n] <= db_files'["working"][n].count
    <3>1. CASE Insert(c)
      BY <3>1, InsertStores
    <3>2. CASE Open(c)
      <4>1. stored' = stored
        BY <3>2 DEF Open, history
      <4>2. db_files'["working"][n] \in {db_files["working"][n], Opened(db_files["working"][n], arg[c].dim)}
        BY <3>2 DEF Open, IndInv, TypeOK, Dirs
      <4> QED BY <4>1, <4>2 DEF StoredInv, Opened, NoFile
    <3>3. CASE RemoveDb(c)
      <4>1. stored' = stored /\ pc[c] \in Dropping /\ arg[c].name \in Names
        BY <3>3, DropFacts DEF RemoveDb, history, Dropping, InDrop, InCatalog
      <4>2. CASE n = arg[c].name
        <5>1. stored[n] = 0 /\ db_files'["working"][n] = NoFile
          BY <3>3, <4>1, <4>2 DEF StoredInv, RemoveDb, IndInv, TypeOK, Dirs
        <5> QED BY <4>1, <5>1 DEF NoFile
      <4>3. CASE n # arg[c].name
        BY <3>3, <4>1, <4>3 DEF StoredInv, RemoveDb, IndInv, TypeOK, Dirs
      <4> QED BY <4>2, <4>3
    <3>4. CASE ~(Open(c) \/ Insert(c) \/ RemoveDb(c))
      <4>1. db_files' = db_files /\ (stored' # stored => \E m \in Names : FindInCatalog(c, m))
        BY <1>2, <3>4, StepFrame
      <4>2. stored'[n] \in {stored[n], 0}
        BY <1>1, <4>1 DEF FindInCatalog
      <4>3. stored[n] <= db_files["working"][n].count /\ 0 <= db_files["working"][n].count
        <5>1. db_files["working"][n].count \in 0 .. MaxCount
          BY <1>1, ServerBoundsAssumption DEF NoFile
        <5> QED BY <5>1 DEF StoredInv
      <4> QED BY <4>1, <4>2, <4>3
    <3> QED BY <3>1, <3>2, <3>3, <3>4
  <2>3. ASSUME NEW d \in Clients, pc'[d] \in Dropping PROVE stored'[arg'[d].name] = 0
    <3>1. CASE \E m \in Names : FindInCatalog(c, m)
      <4>1. PICK m \in Names : FindInCatalog(c, m)
        BY <3>1
      <4>2. stored' = [stored EXCEPT ![m] = 0] /\ arg'[c].name = m
        BY <4>1 DEF FindInCatalog, IndInv, TypeOK
      <4>3. d = c \/ (pc[d] \in Dropping /\ arg'[d] = arg[d] /\ arg[d].name \in Names)
        BY <2>1, <2>3, DropFacts DEF Dropping, InCatalog
      <4> QED BY <1>1, <4>2, <4>3 DEF StoredInv
    <3>2. CASE ~\E m \in Names : FindInCatalog(c, m)
      <4>1. pc[d] \in Dropping /\ arg'[d].name = arg[d].name
        BY <1>2, <2>1, <2>3, <3>2, StepsOfDrop DEF IndInv
      <4>2. stored[arg[d].name] = 0 /\ arg[d].name \in Names
        BY <4>1, DropFacts DEF StoredInv, Dropping, InCatalog
      <4>3. CASE Insert(c)
        <5>1. active_db[c] \in Addresses /\ pc[c] = "call"
          BY <4>3, CallFacts DEF Insert, InCall
        <5>2. catalog[active_db_name[c]] = active_db[c]
          BY <5>1, PointerFacts, AddressesAssumption
        <5>3. d # c /\ active_db[c] # active_db[d]
          BY <4>1, <5>1 DEF PointerInv, DropOK, Dropping, InDrop
        <5>4. catalog[arg[d].name] \in {active_db[d], NoEngine}
          BY <4>1 DEF IndInv, ArgInv, OpensOK, Dropping, InDrop
        <5>5. arg[d].name # active_db_name[c]
          BY <5>1, <5>2, <5>3, <5>4, AddressesAssumption
        <5> QED BY <4>1, <4>2, <4>3, <5>5, InsertStores
      <4>4. CASE ~Insert(c)
        BY <1>2, <3>2, <4>1, <4>2, <4>4, StepFrame
      <4> QED BY <4>3, <4>4
    <3> QED BY <3>1, <3>2
  <2> QED BY <2>2, <2>3 DEF StoredInv
<1>3. CASE Restart \/ RestartWithoutMeta \/ RestartLosesMeta
  <2>1. PICK rows \in [Names -> [dim : Dims, count : Nat, entry : {-1, 0}] \cup {NoRow}] :
        \E loaded \in SUBSET {n \in Names : rows[n] # NoRow} : LoadedFacts(rows, loaded)
    BY <1>3, StartsLoad
  <2>2. stored' = stored /\ \A c \in Clients : pc'[c] = "closed"
    BY <1>3 DEF Restart, RestartWithoutMeta, RestartLosesMeta, Stop
  <2>3. ASSUME NEW n \in Names PROVE stored'[n] <= db_files'["working"][n].count
    <3>1. db_files'["working"][n] \in {db_files["working"][n], Opened(db_files["working"][n], rows[n].dim)}
      BY <2>1, Zenon DEF LoadedFacts, Dirs
    <3> QED BY <2>2, <3>1 DEF StoredInv, Opened, NoFile
  <2> QED BY <2>2, <2>3 DEF StoredInv, Dropping, InDrop
<1>4. CASE UNCHANGED vars
  BY <1>4 DEF vars, disk, threads, history, StoredInv
<1> QED BY <1>2, <1>3, <1>4 DEF Next

(* No interleaving of selections, commands and drops of any number of      *)
(* connections, no crash and no start, one that loses PostgreSQL included, *)
(* loses a database something was stored in: until a drop of it is begun,  *)
(* what a select of the name is served has every vector that was stored    *)
(* under it.  This is for one directory of files: a server whose data      *)
(* directory is another serves a database, after a start, from a file of   *)
(* that directory (server.cpp:167-169, 259, 340-363, 485-508).             *)
THEOREM StoredServed ==
    ASSUME DropShared = FALSE, SameDir = TRUE
    PROVE  Spec => []StoredAreServed
<1>1. Init => StoredInv
  BY DEF Init, StoredInv, Dropping, InDrop, Dirs, NoFile
<1>2. IndInv /\ PointerInv /\ StoredInv /\ [Next]_vars => StoredInv'
  BY NextKeepsStored
<1>3. ASSUME IndInv, StoredInv PROVE StoredAreServed
  <2>1. ASSUME NEW n \in Names PROVE Serves(n) = db_files["working"][n]
    BY <1>3 DEF Serves, IndInv, TypeOK, CatalogInv, DataDir
  <2> QED BY <1>3, <2>1 DEF StoredInv, StoredAreServed
<1> QED BY <1>1, <1>2, <1>3, PointersAreCurrent, PTL DEF Spec
=============================================================================
