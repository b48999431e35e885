------------------------------ MODULE ServerProofs ------------------------------
(***************************************************************************)
(* Proofs about Server, for every value of its constants.                  *)
(***************************************************************************)
EXTENDS Server, TLAPS

-----------------------------------------------------------------------------
(* The inductive invariant behind the types.                               *)

(* The steps at which a thread holds the catalog's lock.                   *)
InCatalog == {"open", "register"} \cup (InDrop \ {"drop"})

(* The catalog's lock is with the thread that is inside a selection or a   *)
(* drop, the mutex of an address with a thread in a call to it.            *)
LockInv ==
    /\ \A c \in Clients : catalog_mutex = c <=> pc[c] \in InCatalog
    /\ \A a \in Addresses, c \in Clients :
          db_mutex[a] = c => pc[c] = "call" /\ active_db[c] = a

(* What a thread knows at a step, of its operands and of the database it   *)
(* is opening or dropping.                                                 *)
OperandsOK(c) ==
    /\ pc[c] \in InCatalog => arg[c].name \in Names
    /\ pc[c] \in {"open", "register"} => arg[c].dim \in Dims
    /\ pc[c] \in {"check", "drop"} \cup InCommand => active_db[c] \in Addresses
    /\ active_db[c] \in Addresses => active_db_name[c] \in Names
    /\ pc[c] \in {"register", "drop_row", "count", "mirror"} => meta

OpensOK(c) ==
    /\ pc[c] \in {"open", "remove_db", "remove_del"} => catalog[arg[c].name] = NoEngine
    /\ pc[c] = "register" =>
          /\ catalog[arg[c].name] \in Addresses
          /\ engines[catalog[arg[c].name]].dir = "working"
          /\ db_files["working"][arg[c].name].dim = arg[c].dim
    /\ pc[c] \in {"drop_row", "erase"} =>
          active_db[c] \in Addresses /\ catalog[arg[c].name] = active_db[c]
    /\ pc[c] = "remove_del" => db_files["working"][arg[c].name] = NoFile

ArgInv == \A c \in Clients : OperandsOK(c) /\ OpensOK(c)

(* The catalog leads to engines and every engine is in the catalog, with   *)
(* the name of its file, which exists.                                     *)
CatalogInv ==
    /\ \A n \in Names : catalog[n] # NoEngine =>
          engines[catalog[n]] # Freed /\ engines[catalog[n]].name = n
    /\ \A a \in Addresses : engines[a] # Freed =>
          /\ catalog[engines[a].name] = a
          /\ engines[a].dir \in {"working", DataDir}
          /\ db_files[engines[a].dir][engines[a].name] # NoFile

IndInv == TypeOK /\ LockInv /\ ArgInv /\ CatalogInv

LEMMA InitIndInv == Init => IndInv
<1> SUFFICES ASSUME Init PROVE IndInv
  OBVIOUS
<1> USE ClientsAssumption, NamesAssumption, AddressesAssumption, SettingsAssumption,
        ServerBoundsAssumption, DimsAssumption
<1>1. TypeOK
  <2>1. MetadataTypeOK
    BY DEF Init, MetadataTypeOK
  <2>2. db_files \in [Dirs -> [Names -> [dim : Dims, count : 0 .. MaxCount] \cup {NoFile}]]
    BY DEF Init
  <2>3. 0 \in 0 .. MaxCount /\ 0 \in 0 .. MaxRestarts /\ 0 \in 0 .. MaxFaults
    BY SMT
  <2>4. arg \in [Clients -> [name : Names \cup {NoName}, dim : Dims \cup {0},
                            count : 0 .. MaxCount]]
    BY <2>3 DEF Init, NoArg
  <2> QED BY <2>1, <2>2, <2>3, <2>4 DEF Init, TypeOK, Steps
<1>2. LockInv
  BY DEF Init, LockInv, InCatalog, InDrop
<1>3. ArgInv
  BY DEF Init, ArgInv, OperandsOK, OpensOK, InCatalog, InDrop, InCommand
<1>4. CatalogInv
  BY DEF Init, CatalogInv
<1> QED BY <1>1, <1>2, <1>3, <1>4 DEF IndInv

-----------------------------------------------------------------------------
(* Steps of a thread that change nothing but where the thread is.          *)

LEMMA QuietKeeps ==
    ASSUME IndInv, NEW c \in Clients, NEW step \in Steps \ InCatalog,
           pc[c] \notin InCatalog \cup {"call"}, step # "call",
           Goto(c, step), NothingElse,
           step \in {"check", "drop"} \cup InCommand => active_db[c] \in Addresses,
           step \in {"count", "mirror"} => meta
    PROVE  IndInv'
<1> USE DEF IndInv, Goto, NothingElse, disk, shared, history
<1>1. TypeOK'
  BY DEF TypeOK, MetadataTypeOK
<1>2. LockInv'
  BY DEF TypeOK, LockInv
<1>3. ArgInv'
  BY DEF TypeOK, ArgInv, OperandsOK, OpensOK, InCatalog, InDrop, InCommand
<1>4. CatalogInv'
  BY DEF CatalogInv
<1> QED BY <1>1, <1>2, <1>3, <1>4

LEMMA HangupKeeps ==
    ASSUME IndInv, NEW c \in Clients, pc[c] \in {"idle", "payload"},
           Hangup(c), NothingElse
    PROVE  IndInv'
<1> USE DEF IndInv, Hangup, NothingElse, disk, shared, history
<1>1. TypeOK'
  BY ServerBoundsAssumption DEF TypeOK, MetadataTypeOK, NoArg, Steps
<1>2. LockInv'
  BY DEF TypeOK, LockInv, InCatalog, InDrop
<1>3. ArgInv'
  BY AddressesAssumption DEF TypeOK, ArgInv, OperandsOK, OpensOK, InCatalog, InDrop, InCommand
<1>4. CatalogInv'
  BY DEF CatalogInv
<1> QED BY <1>1, <1>2, <1>3, <1>4

-----------------------------------------------------------------------------
(* A step that takes the catalog's lock, is made under it or releases it,  *)
(* leaves the other threads' operands right: none of them is inside a      *)
(* selection or a drop.                                                    *)
LEMMA OthersKeepOperands ==
    ASSUME IndInv, NEW c \in Clients, catalog_mutex \in {c, NoClient}, meta' = meta,
           \A u \in Clients \ {c} :
              /\ pc'[u] = pc[u] /\ arg'[u] = arg[u]
              /\ active_db'[u] = active_db[u] /\ active_db_name'[u] = active_db_name[u]
    PROVE  \A u \in Clients \ {c} : OperandsOK(u)' /\ OpensOK(u)'
<1> TAKE u \in Clients \ {c}
<1>1. pc[u] \notin InCatalog
  BY ClientsAssumption DEF IndInv, LockInv
<1>2. OperandsOK(u)
  BY DEF IndInv, ArgInv
<1> QED BY <1>1, <1>2 DEF OperandsOK, OpensOK, InCatalog, InDrop

LEMMA SelectOpenKeeps ==
    ASSUME IndInv, NEW c \in Clients, NEW n \in Names, SelectOpen(c, n)
    PROVE  IndInv'
<1> USE DEF IndInv, SelectOpen, Activate, Point, AfterActivate, NothingElse, disk, shared, history
<1>1. catalog[n] \in Addresses
  BY DEF TypeOK
<1>2. PICK step \in {"check", "idle"} : pc' = [pc EXCEPT ![c] = step]
  OBVIOUS
<1>3. TypeOK'
  BY <1>1, <1>2, ServerBoundsAssumption DEF TypeOK, MetadataTypeOK, NoArg, Steps, InHandshake
<1>4. LockInv'
  BY <1>2 DEF TypeOK, LockInv, InCatalog, InDrop
<1>5. ArgInv'
  <2>1. OperandsOK(c)' /\ OpensOK(c)'
    BY <1>1, <1>2 DEF TypeOK, OperandsOK, OpensOK, InCatalog, InDrop, InCommand
  <2> QED BY <2>1, OthersKeepOperands DEF ArgInv, TypeOK
<1>6. CatalogInv'
  BY DEF CatalogInv
<1> QED BY <1>3, <1>4, <1>5, <1>6

LEMMA SelectClosedKeeps ==
    ASSUME IndInv, NEW c \in Clients, NEW n \in Names, NEW dim \in Dims,
           SelectClosed(c, n, dim)
    PROVE  IndInv'
<1> USE DEF IndInv, SelectClosed, NotOpen, disk
<1>1. TypeOK'
  BY ServerBoundsAssumption DEF TypeOK, MetadataTypeOK, Steps, InHandshake
<1>2. LockInv'
  BY ClientsAssumption DEF TypeOK, LockInv, InCatalog
<1>3. ArgInv'
  <2>1. OperandsOK(c)' /\ OpensOK(c)'
    BY DEF TypeOK, ArgInv, OperandsOK, OpensOK, InCatalog, InDrop, InCommand
  <2> QED BY <2>1, OthersKeepOperands DEF ArgInv, TypeOK
<1>4. CatalogInv'
  BY DEF CatalogInv
<1> QED BY <1>1, <1>2, <1>3, <1>4

LEMMA OpenThrowsKeeps ==
    ASSUME IndInv, NEW c \in Clients, OpenThrows(c)
    PROVE  IndInv'
<1> USE DEF IndInv, OpenThrows, Hangup, disk, history
<1>1. TypeOK'
  BY ServerBoundsAssumption DEF TypeOK, MetadataTypeOK, NoArg, Steps
<1>2. LockInv /\ catalog_mutex = c
  BY DEF LockInv, InCatalog
<1>3. LockInv'
  BY <1>2, ClientsAssumption DEF TypeOK, LockInv, InCatalog, InDrop
<1>4. ArgInv'
  <2>1. OperandsOK(c)' /\ OpensOK(c)'
    BY AddressesAssumption DEF TypeOK, OperandsOK, OpensOK, InCatalog, InDrop, InCommand
  <2> QED BY <1>2, <2>1, OthersKeepOperands DEF ArgInv, TypeOK
<1>5. CatalogInv'
  BY DEF CatalogInv
<1> QED BY <1>1, <1>3, <1>4, <1>5

LEMMA RowType ==
    ASSUME NEW n, NEW dim \in Dims, NEW count \in Nat
    PROVE  /\ Row(n, dim, count) \in [dim : Dims, count : Nat, entry : {-1, 0}]
           /\ Row(n, dim, count).count = count /\ Row(n, dim, count).dim = dim
BY DEF Row, EntryPoint

LEMMA RegisterKeeps ==
    ASSUME IndInv, NEW c \in Clients, Register(c)
    PROVE  IndInv'
<1> USE DEF IndInv, Register, Activate, Point, AfterActivate, disk, history
<1> DEFINE n == arg[c].name
<1>1. /\ LockInv /\ catalog_mutex = c
      /\ n \in Names /\ arg[c].dim \in Dims /\ catalog[n] \in Addresses
      /\ active_db' = [active_db EXCEPT ![c] = catalog[n]]
      /\ active_db_name' = [active_db_name EXCEPT ![c] = n]
  BY DEF LockInv, ArgInv, OperandsOK, OpensOK, InCatalog
<1>2. PICK step \in {"check", "idle"} : pc' = [pc EXCEPT ![c] = step]
  OBVIOUS
<1>3. TypeOK'
  <2>1. db_files["working"][n].count \in Nat
    BY <1>1, SMT DEF TypeOK, Dirs, NoFile
  <2>2. MetadataTypeOK'
    BY <1>1, <2>1, RowType DEF TypeOK, MetadataTypeOK, CreateDatabase
  <2> QED BY <1>1, <1>2, <2>2, ServerBoundsAssumption DEF TypeOK, NoArg, Steps, InHandshake
<1>4. LockInv'
  BY <1>1, <1>2, ClientsAssumption DEF TypeOK, LockInv, InCatalog, InDrop
<1>5. ArgInv'
  <2>1. OperandsOK(c)' /\ OpensOK(c)'
    BY <1>1, <1>2 DEF TypeOK, OperandsOK, OpensOK, InCatalog, InDrop, InCommand
  <2> QED BY <1>1, <1>2, <2>1, OthersKeepOperands DEF ArgInv, TypeOK
<1>6. CatalogInv'
  BY DEF CatalogInv
<1> QED BY <1>3, <1>4, <1>5, <1>6

-----------------------------------------------------------------------------
LEMMA OpenKeeps ==
    ASSUME IndInv, NEW c \in Clients, Open(c)
    PROVE  IndInv'
<1> DEFINE n    == arg[c].name
           dim  == arg[c].dim
           file == db_files["working"][n]
<1>1. /\ pc[c] = "open" /\ LockInv /\ catalog_mutex = c
      /\ n \in Names /\ dim \in Dims /\ catalog[n] = NoEngine
  BY DEF IndInv, LockInv, ArgInv, OperandsOK, OpensOK, InCatalog, Open
<1>2. PICK a \in Addresses :
         /\ engines[a] = Freed
         /\ engines' = [engines EXCEPT ![a] = [name |-> n, dir |-> "working"]]
         /\ catalog' = [catalog EXCEPT ![n] = a]
         /\ IF meta THEN Goto(c, "register") /\ UNCHANGED catalog_mutex
            ELSE Activate(c, n, a) /\ catalog_mutex' = NoClient
  BY DEF Open
<1>3. /\ db_files' = [db_files EXCEPT !["working"][n] = Opened(file, dim)]
      /\ file = NoFile \/ file.dim = dim
      /\ UNCHANGED <<databases, del_files, meta, db_mutex, history>>
  BY DEF Open
<1>4. PICK step \in {"register", "check", "idle"} :
         /\ pc' = [pc EXCEPT ![c] = step]
         /\ step = "register" => /\ meta /\ catalog_mutex' = c
                                 /\ UNCHANGED <<active_db, active_db_name, arg>>
         /\ step # "register" => /\ catalog_mutex' = NoClient
                                 /\ active_db' = [active_db EXCEPT ![c] = a]
                                 /\ active_db_name' = [active_db_name EXCEPT ![c] = n]
                                 /\ arg' = [arg EXCEPT ![c] = NoArg]
  BY <1>1, <1>2 DEF Goto, Activate, Point, AfterActivate
<1> HIDE DEF n, dim, file
<1>5. /\ Opened(file, dim) \in [dim : Dims, count : 0 .. MaxCount]
      /\ Opened(file, dim).dim = dim /\ Opened(file, dim) # NoFile
  <2>1. file \in [dim : Dims, count : 0 .. MaxCount] \cup {NoFile}
    BY <1>1 DEF IndInv, TypeOK, Dirs, file
  <2>2. 0 \in 0 .. MaxCount /\ 0 \notin Dims
    BY ServerBoundsAssumption, DimsAssumption, SMT
  <2>3. CASE file = NoFile
    BY <2>2, <2>3, <1>1 DEF Opened, NoFile
  <2>4. CASE file # NoFile
    BY <2>1, <2>2, <2>4, <1>3 DEF Opened, NoFile
  <2> QED BY <2>3, <2>4
<1>6. TypeOK'
  <2>1. db_files' \in [Dirs -> [Names -> [dim : Dims, count : 0 .. MaxCount] \cup {NoFile}]]
    BY <1>1, <1>3, <1>5 DEF IndInv, TypeOK, Dirs
  <2>2. engines' \in [Addresses -> [name : Names, dir : Dirs] \cup {Freed}]
    BY <1>1, <1>2 DEF IndInv, TypeOK, Dirs
  <2>3. /\ pc' \in [Clients -> Steps]
        /\ active_db' \in [Clients -> Addresses \cup {NoEngine}]
        /\ active_db_name' \in [Clients -> Names \cup {NoName}]
        /\ arg' \in [Clients -> [name : Names \cup {NoName}, dim : Dims \cup {0},
                            count : 0 .. MaxCount]]
        /\ catalog_mutex' \in Clients \cup {NoClient}
    <3>1. a \in Addresses /\ 0 \in 0 .. MaxCount
      BY <1>2, ServerBoundsAssumption, SMT
    <3>2. CASE step = "register"
      BY <1>1, <1>4, <3>2 DEF IndInv, TypeOK, Steps, InHandshake
    <3>3. CASE step # "register"
      <4>1. pc' \in [Clients -> Steps] /\ catalog_mutex' = NoClient
        BY <1>1, <1>4, <3>3 DEF IndInv, TypeOK, Steps, InHandshake
      <4>2. NoArg \in [name : Names \cup {NoName}, dim : Dims \cup {0}, count : 0 .. MaxCount]
        BY <3>1 DEF NoArg
      <4>3. /\ arg' = [arg EXCEPT ![c] = NoArg]
            /\ active_db' = [active_db EXCEPT ![c] = a]
            /\ active_db_name' = [active_db_name EXCEPT ![c] = n]
        BY <1>4, <3>3
      <4>4. /\ active_db' \in [Clients -> Addresses \cup {NoEngine}]
            /\ active_db_name' \in [Clients -> Names \cup {NoName}]
        BY <1>1, <3>1, <4>3 DEF IndInv, TypeOK
      <4>5. arg' \in [Clients -> [name : Names \cup {NoName}, dim : Dims \cup {0},
                            count : 0 .. MaxCount]]
        BY <4>2, <4>3 DEF IndInv, TypeOK
      <4> QED BY <4>1, <4>4, <4>5
    <3> QED BY <3>2, <3>3
  <2>4. catalog' \in [Names -> Addresses \cup {NoEngine}]
    BY <1>2 DEF IndInv, TypeOK
  <2> QED BY <1>3, <2>1, <2>2, <2>3, <2>4 DEF IndInv, TypeOK, MetadataTypeOK, history
<1>7. LockInv'
  BY <1>1, <1>3, <1>4, ClientsAssumption DEF IndInv, TypeOK, LockInv, InCatalog, InDrop
<1>8. ArgInv'
  <2>1. OperandsOK(c)'
    BY <1>1, <1>3, <1>4 DEF IndInv, TypeOK, ArgInv, OperandsOK, InCatalog, InDrop, InCommand, n, dim
  <2>2. OpensOK(c)'
    <3>1. catalog'[n] = a /\ engines'[a].dir = "working" /\ db_files'["working"][n].dim = dim
      BY <1>1, <1>2, <1>3, <1>5 DEF IndInv, TypeOK, Dirs
    <3>2. step = "register" => arg'[c].name = n /\ arg'[c].dim = dim
      BY <1>4 DEF n, dim
    <3> QED BY <1>4, <3>1, <3>2 DEF IndInv, TypeOK, OpensOK
  <2> QED BY <1>1, <1>3, <1>4, <2>1, <2>2, OthersKeepOperands DEF ArgInv, IndInv, TypeOK
<1>9. CatalogInv'
  <2>1. ASSUME NEW m \in Names, catalog'[m] # NoEngine
        PROVE  engines'[catalog'[m]] # Freed /\ engines'[catalog'[m]].name = m
    BY <1>1, <1>2, <2>1, NamesAssumption DEF IndInv, TypeOK, CatalogInv, Freed
  <2>2. ASSUME NEW b \in Addresses, engines'[b] # Freed
        PROVE  /\ catalog'[engines'[b].name] = b
               /\ engines'[b].dir \in {"working", DataDir}
               /\ db_files'[engines'[b].dir][engines'[b].name] # NoFile
    <3>1. CASE b = a
      BY <1>1, <1>2, <1>3, <1>5, <3>1 DEF IndInv, TypeOK, Dirs
    <3>2. CASE b # a
      <4>1. /\ engines'[b] = engines[b] /\ engines[b] # Freed /\ catalog[engines[b].name] = b
            /\ engines[b].name \in Names /\ engines[b].dir \in Dirs
        BY <1>2, <2>2, <3>2 DEF IndInv, TypeOK, CatalogInv
      <4>2. engines[b].name # n
        BY <1>1, <4>1, AddressesAssumption
      <4> QED BY <1>2, <1>3, <4>1, <4>2 DEF IndInv, TypeOK, CatalogInv, Dirs
    <3> QED BY <3>1, <3>2
  <2> QED BY <2>1, <2>2 DEF CatalogInv
<1> QED BY <1>6, <1>7, <1>8, <1>9 DEF IndInv

-----------------------------------------------------------------------------
(* Commands.  A call is to the engine at the thread's pointer, and that is *)
(* one of the catalog.                                                     *)

LEMMA BeginCallKeeps ==
    ASSUME IndInv, NEW c \in Clients, BeginCall(c)
    PROVE  IndInv'
<1> USE DEF IndInv, BeginCall, Goto, disk, shared, history
<1>1. active_db[c] \in Addresses
  BY DEF ArgInv, OperandsOK, InCommand
<1>2. TypeOK'
  BY <1>1 DEF TypeOK, MetadataTypeOK, Steps, InCommand
<1>3. LockInv'
  BY <1>1, ClientsAssumption DEF TypeOK, LockInv, InCatalog, InDrop
<1>4. ArgInv'
  BY <1>1 DEF TypeOK, ArgInv, OperandsOK, OpensOK, InCatalog, InDrop, InCommand
<1>5. CatalogInv'
  BY DEF CatalogInv
<1> QED BY <1>2, <1>3, <1>4, <1>5

(* A call that was made under the mutex, on an engine of the catalog.      *)
LEMMA CallFacts ==
    ASSUME IndInv, NEW c \in Clients, InCall(c)
    PROVE  LET e == engines[active_db[c]] IN
           /\ active_db[c] \in Addresses /\ e \in [name : Names, dir : Dirs]
           /\ db_files[e.dir][e.name] \in [dim : Dims, count : 0 .. MaxCount]
           /\ catalog[e.name] = active_db[c]
<1> DEFINE e == engines[active_db[c]]
<1>1. active_db[c] \in Addresses /\ e # Freed
  BY DEF InCall, Alive, IndInv, ArgInv, OperandsOK, InCommand
<1>2. /\ e \in [name : Names, dir : Dirs] /\ db_files[e.dir][e.name] # NoFile
      /\ catalog[e.name] = active_db[c]
  BY <1>1 DEF IndInv, TypeOK, CatalogInv
<1> QED BY <1>1, <1>2 DEF IndInv, TypeOK

(* However a call ends, the thread releases the mutex and goes on.         *)
LEMMA EndOfCallKeeps ==
    ASSUME IndInv, NEW c \in Clients, InCall(c), Unlock(c),
           NEW step \in {"idle", "count"}, Goto(c, step), step = "count" => meta,
           UNCHANGED <<databases, shared, wild, dropped, restarts, faults>>,
           stored' \in [Names -> Nat],
           db_files' \in [Dirs -> [Names -> [dim : Dims, count : 0 .. MaxCount] \cup {NoFile}]],
           del_files' \in [Dirs -> SUBSET Names],
           \A d \in Dirs, n \in Names :
              /\ db_files'[d][n].dim = db_files[d][n].dim
              /\ db_files'[d][n] = NoFile <=> db_files[d][n] = NoFile
    PROVE  IndInv'
<1> USE DEF IndInv, Goto, Unlock, shared, history
<1>1. active_db[c] \in Addresses /\ pc[c] = "call"
  BY CallFacts DEF InCall
<1>2. TypeOK'
  BY <1>1 DEF TypeOK, MetadataTypeOK, Steps, InCommand
<1>3. LockInv'
  BY <1>1, ClientsAssumption DEF TypeOK, LockInv, InCatalog, InDrop, InCall
<1>4. ArgInv'
  <2> SUFFICES ASSUME NEW u \in Clients PROVE OperandsOK(u)' /\ OpensOK(u)'
    BY DEF ArgInv
  <2>1. OperandsOK(u)'
    BY <1>1 DEF TypeOK, ArgInv, OperandsOK, InCatalog, InDrop, InCommand
  <2>2. pc[u] \in {"register", "remove_del"} => arg[u].name \in Names
    BY DEF ArgInv, OperandsOK, InCatalog, InDrop
  <2>3. OpensOK(u)'
    BY <1>1, <2>2 DEF TypeOK, ArgInv, OpensOK, Dirs
  <2> QED BY <2>1, <2>3
<1>5. CatalogInv'
  BY DEF CatalogInv, TypeOK
<1> QED BY <1>2, <1>3, <1>4, <1>5

LEMMA InsertKeeps ==
    ASSUME IndInv, NEW c \in Clients, Insert(c)
    PROVE  IndInv'
<1> DEFINE e == engines[active_db[c]]
           file == db_files[e.dir][e.name]
           count == IF file.count < MaxCount THEN file.count + 1 ELSE file.count
<1>1. /\ InCall(c) /\ Unlock(c) /\ MirrorNext(c)
      /\ UNCHANGED <<databases, del_files, shared, wild, dropped, restarts, faults>>
  BY DEF Insert
<1>2. /\ e.dir \in Dirs /\ e.name \in Names
      /\ file \in [dim : Dims, count : 0 .. MaxCount]
  BY <1>1, CallFacts
<1>3. count \in 0 .. MaxCount
  BY <1>2, ServerBoundsAssumption, SMT
<1>4. db_files' = [db_files EXCEPT ![e.dir][e.name] = [file EXCEPT !.count = count]]
  BY DEF Insert, Add
<1> HIDE DEF file, count, e
<1>5. /\ [file EXCEPT !.count = count] \in [dim : Dims, count : 0 .. MaxCount]
      /\ [file EXCEPT !.count = count].dim = file.dim /\ 0 \notin Dims
  BY <1>2, <1>3, DimsAssumption
<1>6. [file EXCEPT !.count = count] # NoFile /\ file # NoFile
  BY <1>2, <1>5 DEF NoFile
<1>7. db_files' \in [Dirs -> [Names -> [dim : Dims, count : 0 .. MaxCount] \cup {NoFile}]]
  BY <1>2, <1>4, <1>5 DEF IndInv, TypeOK
<1>8. \A d \in Dirs, n \in Names :
         /\ db_files'[d][n].dim = db_files[d][n].dim
         /\ db_files'[d][n] = NoFile <=> db_files[d][n] = NoFile
  BY <1>2, <1>4, <1>5, <1>6 DEF IndInv, TypeOK, file
<1>9. del_files' \in [Dirs -> SUBSET Names]
  BY <1>1 DEF IndInv, TypeOK
<1>10. stored' \in [Names -> Nat]
  <2>1. stored \in [Names -> Nat]
    BY DEF IndInv, TypeOK
  <2>2. stored' = stored \/ stored' = [stored EXCEPT ![active_db_name[c]] = @ + 1]
    BY DEF Insert
  <2> QED BY <2>1, <2>2, SMT
<1> QED BY <1>1, <1>7, <1>8, <1>9, <1>10, EndOfCallKeeps DEF MirrorNext

LEMMA DeleteKeeps ==
    ASSUME IndInv, NEW c \in Clients, Delete(c)
    PROVE  IndInv'
<1>1. InCall(c) /\ Unlock(c) /\ MirrorNext(c) /\ UNCHANGED <<databases, db_files, shared, history>>
  BY DEF Delete
<1>2. engines[active_db[c]] \in [name : Names, dir : Dirs]
  BY <1>1, CallFacts
<1>3. del_files' \in [Dirs -> SUBSET Names]
  BY <1>2 DEF Delete, IndInv, TypeOK
<1>4. db_files' = db_files /\ db_files \in [Dirs -> [Names -> [dim : Dims, count : 0 .. MaxCount] \cup {NoFile}]]
  BY <1>1 DEF IndInv, TypeOK
<1>5. UNCHANGED <<wild, dropped, stored, restarts, faults>> /\ stored' \in [Names -> Nat]
  BY <1>1 DEF history, IndInv, TypeOK
<1> QED BY <1>1, <1>3, <1>4, <1>5, EndOfCallKeeps DEF MirrorNext

LEMMA OtherCallKeeps ==
    ASSUME IndInv, NEW c \in Clients, OtherCall(c)
    PROVE  IndInv'
<1>1. InCall(c) /\ Unlock(c) /\ Goto(c, "idle") /\ UNCHANGED <<databases, disk, shared, history>>
  BY DEF OtherCall
<1>2. /\ db_files' = db_files /\ db_files \in [Dirs -> [Names -> [dim : Dims, count : 0 .. MaxCount] \cup {NoFile}]]
      /\ del_files' \in [Dirs -> SUBSET Names]
  BY <1>1 DEF IndInv, TypeOK, disk
<1>3. UNCHANGED <<wild, dropped, stored, restarts, faults>> /\ stored' \in [Names -> Nat]
  BY <1>1 DEF history, IndInv, TypeOK
<1> QED BY <1>1, <1>2, <1>3, EndOfCallKeeps

LEMMA ReadCountKeeps ==
    ASSUME IndInv, NEW c \in Clients, ReadCount(c)
    PROVE  IndInv'
<1> USE DEF IndInv, ReadCount, CountRead, NothingElse, disk, shared, history
<1>1. CountOf(engines[active_db[c]]) \in 0 .. MaxCount
  <2>1. active_db[c] \in Addresses
    BY DEF ArgInv, OperandsOK, InCommand
  <2>2. engines[active_db[c]] \in [name : Names, dir : Dirs]
    BY <2>1 DEF TypeOK, Alive
  <2>3. 0 \in 0 .. MaxCount
    BY ServerBoundsAssumption
  <2>4. db_files[engines[active_db[c]].dir][engines[active_db[c]].name]
           \in [dim : Dims, count : 0 .. MaxCount] \cup {NoFile}
    BY <2>2 DEF TypeOK
  <2> QED BY <2>3, <2>4 DEF CountOf, NoFile
<1>2. TypeOK'
  BY <1>1 DEF TypeOK, MetadataTypeOK, Steps, InCommand
<1>3. LockInv'
  BY DEF TypeOK, LockInv, InCatalog, InDrop
<1>4. ArgInv'
  BY DEF TypeOK, ArgInv, OperandsOK, OpensOK, InCatalog, InDrop, InCommand
<1>5. CatalogInv'
  BY DEF CatalogInv
<1> QED BY <1>2, <1>3, <1>4, <1>5

LEMMA MirrorKeeps ==
    ASSUME IndInv, NEW c \in Clients, Mirror(c)
    PROVE  IndInv'
<1> USE DEF IndInv, Mirror, disk, shared, history
<1>1. MetadataTypeOK'
  <2> DEFINE n == active_db_name[c]
  <2>1. arg[c].count \in Nat
    BY ServerBoundsAssumption, SMT DEF TypeOK
  <2>2. CASE n \in Registered
    BY <2>1, <2>2 DEF TypeOK, MetadataTypeOK, UpdateCounts, Registered
  <2>3. CASE n \notin Registered
    BY <2>3 DEF TypeOK, MetadataTypeOK, UpdateCounts
  <2> QED BY <2>2, <2>3
<1>2. TypeOK'
  BY <1>1, ServerBoundsAssumption DEF TypeOK, NoArg, Steps
<1>3. LockInv'
  BY DEF TypeOK, LockInv, InCatalog, InDrop
<1>4. ArgInv'
  BY DEF TypeOK, ArgInv, OperandsOK, OpensOK, InCatalog, InDrop, InCommand
<1>5. CatalogInv'
  BY DEF CatalogInv
<1> QED BY <1>2, <1>3, <1>4, <1>5

-----------------------------------------------------------------------------
(* DROP_DB.                                                                *)

LEMMA FindInCatalogKeeps ==
    ASSUME IndInv, NEW c \in Clients, NEW n \in Names, FindInCatalog(c, n)
    PROVE  IndInv'
<1> USE DEF IndInv, FindInCatalog, disk, history
<1>1. TypeOK'
  BY DEF TypeOK, MetadataTypeOK, Steps, InDrop
<1>2. LockInv'
  BY ClientsAssumption DEF TypeOK, LockInv, InCatalog, InDrop
<1>3. ArgInv'
  <2>1. OperandsOK(c)' /\ OpensOK(c)'
    BY DEF TypeOK, ArgInv, OperandsOK, OpensOK, InCatalog, InDrop, InCommand
  <2> QED BY <2>1, OthersKeepOperands DEF ArgInv, TypeOK
<1>4. CatalogInv'
  BY DEF CatalogInv
<1> QED BY <1>1, <1>2, <1>3, <1>4

(* Who is inside a drop holds the lock, and knows the name.                *)
LEMMA DropFacts ==
    ASSUME IndInv, NEW c \in Clients, pc[c] \in InCatalog
    PROVE  LockInv /\ catalog_mutex = c /\ arg[c].name \in Names
BY DEF IndInv, LockInv, ArgInv, OperandsOK

LEMMA DropRowKeeps ==
    ASSUME IndInv, NEW c \in Clients, DropRow(c)
    PROVE  IndInv'
<1> USE DEF IndInv, DropRow, Goto, disk, shared, history
<1>1. LockInv /\ catalog_mutex = c /\ arg[c].name \in Names
  BY DropFacts DEF InCatalog, InDrop
<1>2. TypeOK'
  BY <1>1 DEF TypeOK, MetadataTypeOK, DropDatabase, Steps, InDrop
<1>3. LockInv'
  BY <1>1, ClientsAssumption DEF TypeOK, LockInv, InCatalog, InDrop
<1>4. ArgInv'
  <2>1. OperandsOK(c)' /\ OpensOK(c)'
    BY <1>1 DEF TypeOK, ArgInv, OperandsOK, OpensOK, InCatalog, InDrop, InCommand
  <2> QED BY <1>1, <2>1, OthersKeepOperands DEF ArgInv, TypeOK
<1>5. CatalogInv'
  BY DEF CatalogInv
<1> QED BY <1>2, <1>3, <1>4, <1>5

LEMMA EraseKeeps ==
    ASSUME IndInv, NEW c \in Clients, Erase(c)
    PROVE  IndInv'
<1> DEFINE n == arg[c].name
           a == active_db[c]
<1> USE DEF IndInv, Goto, disk, history
<1>1. /\ pc[c] = "erase" /\ LockInv /\ catalog_mutex = c
      /\ n \in Names /\ a \in Addresses /\ catalog[n] = a
  BY DropFacts DEF Erase, InCatalog, InDrop, ArgInv, OpensOK
<1>2. /\ engines' = [engines EXCEPT ![a] = Freed]
      /\ db_mutex' = [db_mutex EXCEPT ![a] = NoClient]
      /\ catalog' = [catalog EXCEPT ![n] = NoEngine]
      /\ Goto(c, "remove_db")
      /\ UNCHANGED <<databases, disk, meta, catalog_mutex, history>>
  BY <1>1 DEF Erase
<1>3. TypeOK'
  BY <1>1, <1>2 DEF TypeOK, MetadataTypeOK, Steps, InDrop
<1>4. LockInv'
  BY <1>1, <1>2, ClientsAssumption DEF TypeOK, LockInv, InCatalog, InDrop
<1>5. ArgInv'
  <2>1. OperandsOK(c)' /\ OpensOK(c)'
    BY <1>1, <1>2 DEF TypeOK, ArgInv, OperandsOK, OpensOK, InCatalog, InDrop, InCommand
  <2> QED BY <1>1, <1>2, <2>1, OthersKeepOperands DEF ArgInv, TypeOK
<1>6. CatalogInv'
  <2>1. ASSUME NEW m \in Names, catalog'[m] # NoEngine
        PROVE  engines'[catalog'[m]] # Freed /\ engines'[catalog'[m]].name = m
    <3>1. m # n /\ catalog'[m] = catalog[m] /\ catalog[m] # a
      BY <1>1, <1>2, <2>1, AddressesAssumption DEF TypeOK, CatalogInv
    <3> QED BY <1>2, <2>1, <3>1 DEF TypeOK, CatalogInv
  <2>2. ASSUME NEW b \in Addresses, engines'[b] # Freed
        PROVE  /\ catalog'[engines'[b].name] = b
               /\ engines'[b].dir \in {"working", DataDir}
               /\ db_files'[engines'[b].dir][engines'[b].name] # NoFile
    BY <1>1, <1>2, <2>2 DEF TypeOK, CatalogInv
  <2> QED BY <2>1, <2>2 DEF CatalogInv
<1> QED BY <1>3, <1>4, <1>5, <1>6

LEMMA RemoveDbKeeps ==
    ASSUME IndInv, NEW c \in Clients, RemoveDb(c)
    PROVE  IndInv'
<1> DEFINE n == arg[c].name
<1> USE DEF IndInv, RemoveDb, Goto, shared, history
<1>1. /\ LockInv /\ catalog_mutex = c
      /\ n \in Names /\ catalog[n] = NoEngine
  BY DropFacts DEF InCatalog, InDrop, ArgInv, OpensOK
<1>2. TypeOK'
  BY <1>1 DEF TypeOK, MetadataTypeOK, Dirs, Steps, InDrop
<1>3. LockInv'
  BY <1>1, ClientsAssumption DEF TypeOK, LockInv, InCatalog, InDrop
<1>4. ArgInv'
  <2>1. OperandsOK(c)' /\ OpensOK(c)'
    BY <1>1 DEF TypeOK, Dirs, ArgInv, OperandsOK, OpensOK, InCatalog, InDrop, InCommand
  <2> QED BY <1>1, <2>1, OthersKeepOperands DEF ArgInv, TypeOK
<1>5. CatalogInv'
  <2>1. ASSUME NEW b \in Addresses, engines[b] # Freed
        PROVE  engines[b].name # n /\ db_files'[engines[b].dir][engines[b].name] # NoFile
    <3>1. engines[b].name # n /\ engines[b].name \in Names /\ engines[b].dir \in Dirs
      BY <1>1, <2>1, AddressesAssumption DEF TypeOK, CatalogInv
    <3> QED BY <1>1, <2>1, <3>1 DEF TypeOK, CatalogInv, Dirs
  <2> QED BY <2>1 DEF CatalogInv
<1> QED BY <1>2, <1>3, <1>4, <1>5

LEMMA RemoveDelKeeps ==
    ASSUME IndInv, NEW c \in Clients, RemoveDel(c)
    PROVE  IndInv'
<1> USE DEF IndInv, RemoveDel, RemoveLast
<1>1. LockInv /\ catalog_mutex = c /\ arg[c].name \in Names
  BY DropFacts DEF InCatalog, InDrop
<1>2. TypeOK'
  BY <1>1, ServerBoundsAssumption DEF TypeOK, MetadataTypeOK, Dirs, Steps, NoArg
<1>3. LockInv'
  BY <1>1, ClientsAssumption DEF TypeOK, LockInv, InCatalog, InDrop
<1>4. ArgInv'
  <2>1. OperandsOK(c)' /\ OpensOK(c)'
    BY <1>1, AddressesAssumption DEF TypeOK, OperandsOK, OpensOK, InCatalog, InDrop, InCommand
  <2> QED BY <1>1, <2>1, OthersKeepOperands DEF ArgInv, TypeOK
<1>5. CatalogInv'
  BY DEF CatalogInv
<1> QED BY <1>2, <1>3, <1>4, <1>5

-----------------------------------------------------------------------------
(* Failures.                                                               *)

LEMMA StoreFailsKeeps ==
    ASSUME IndInv, NEW c \in Clients, StoreFails(c)
    PROVE  IndInv'
<1> USE DEF IndInv, StoreFails, InTransaction, Hangup, disk
<1>1. TypeOK'
  <2>1. faults' \in 0 .. MaxFaults
    BY ServerBoundsAssumption, SMT DEF TypeOK
  <2> QED BY <2>1, ServerBoundsAssumption DEF TypeOK, MetadataTypeOK, NoArg, Steps
<1>2. LockInv'
  BY ClientsAssumption DEF TypeOK, LockInv, InCatalog, InDrop
<1>3. ArgInv'
  BY AddressesAssumption DEF TypeOK, ArgInv, OperandsOK, OpensOK, InCatalog, InDrop, InCommand
<1>4. CatalogInv'
  BY DEF CatalogInv
<1> QED BY <1>1, <1>2, <1>3, <1>4

LEMMA UseFreedKeeps ==
    ASSUME IndInv, NEW c \in Clients, UseFreed(c)
    PROVE  IndInv'
<1> USE DEF IndInv, UseFreed, disk, shared, threads
<1>1. TypeOK'
  BY DEF TypeOK, MetadataTypeOK
<1>2. LockInv' /\ ArgInv' /\ CatalogInv'
  BY DEF LockInv, ArgInv, OperandsOK, OpensOK, CatalogInv
<1> QED BY <1>1, <1>2

-----------------------------------------------------------------------------
(* The crash and the start.  The rows a start loads have a dimension, each *)
(* database it loads has an address of its own, and a file.                *)

LEMMA SeededType ==
    ASSUME MetadataTypeOK,
           NEW found \in [Names -> [dim : Dims, count : 0 .. MaxCount] \cup {NoFile}]
    PROVE  Seeded(found) \in [Names -> [dim : Dims, count : Nat, entry : {-1, 0}] \cup {NoRow}]
<1>1. 0 .. MaxCount \subseteq Nat
  BY ServerBoundsAssumption, SMT
<1>2. ASSUME NEW n \in Names, found[n].dim # 0
      PROVE  Row(n, found[n].dim, found[n].count) \in [dim : Dims, count : Nat, entry : {-1, 0}]
  <2>1. found[n] # NoFile
    BY <1>2 DEF NoFile
  <2> QED BY <1>1, <2>1, RowType
<1> QED BY <1>2 DEF MetadataTypeOK, Seeded

(* What is loaded: rows of the databases in loaded, in their files.        *)
LoadedFacts(rows, loaded) ==
    /\ db_files' \in [Dirs -> [Names -> [dim : Dims, count : 0 .. MaxCount] \cup {NoFile}]]
    /\ catalog' \in [Names -> Addresses \cup {NoEngine}]
    /\ engines' \in [Addresses -> [name : Names, dir : Dirs] \cup {Freed}]
    /\ \A d \in Dirs, n \in Names :
          db_files'[d][n] = IF d = DataDir /\ n \in loaded THEN Opened(db_files[d][n], rows[n].dim)
                            ELSE db_files[d][n]
    /\ \A n \in Names : catalog'[n] # NoEngine <=> n \in loaded
    /\ \A n \in Names : catalog'[n] # NoEngine =>
          engines'[catalog'[n]] = [name |-> n, dir |-> DataDir]
    /\ \A a \in Addresses : engines'[a] # Freed =>
          engines'[a].dir = DataDir /\ catalog'[engines'[a].name] = a

LEMMA LoadMeans ==
    ASSUME IndInv, NEW rows \in [Names -> [dim : Dims, count : Nat, entry : {-1, 0}] \cup {NoRow}],
           NEW loaded \in SUBSET {n \in Names : rows[n] # NoRow}, Load(rows, loaded)
    PROVE  LoadedFacts(rows, loaded)
<1>1. PICK place \in [loaded -> Addresses] :
         /\ IsInjective(place)
         /\ catalog' = [n \in Names |-> IF n \in loaded THEN place[n] ELSE NoEngine]
         /\ engines' = [a \in Addresses |->
               IF a \in Range(place) THEN [name |-> AntiFunction(place)[a], dir |-> DataDir]
               ELSE Freed]
  BY DEF Load
<1>2. Range(place) = {place[n] : n \in loaded}
  BY DEF Range
<1>3. ASSUME NEW n \in loaded
      PROVE  AntiFunction(place)[place[n]] = n
  <2>1. AntiFunction(place)[place[n]] =
           CHOOSE m \in loaded : place[n] \in Range(place) => place[m] = place[n]
    BY <1>2, Zenon DEF AntiFunction, Inverse
  <2>2. \A m \in loaded : place[m] = place[n] => m = n
    BY <1>1 DEF IsInjective
  <2> QED BY <1>2, <2>1, <2>2
<1>4. DataDir \in Dirs
  BY DEF DataDir, Dirs
<1>5. ASSUME NEW n \in Names, n \in loaded
      PROVE  Opened(db_files[DataDir][n], rows[n].dim) \in [dim : Dims, count : 0 .. MaxCount]
  <2>1. rows[n].dim \in Dims /\ 0 \in 0 .. MaxCount
    BY <1>5, ServerBoundsAssumption
  <2>2. db_files[DataDir][n] \in [dim : Dims, count : 0 .. MaxCount] \cup {NoFile}
    BY <1>4 DEF IndInv, TypeOK
  <2> QED BY <2>1, <2>2 DEF Opened
<1>6. /\ db_files' = [db_files EXCEPT ![DataDir] = [n \in Names |->
             IF n \in loaded THEN Opened(db_files[DataDir][n], rows[n].dim)
             ELSE db_files[DataDir][n]]]
      /\ db_files \in [Dirs -> [Names -> [dim : Dims, count : 0 .. MaxCount] \cup {NoFile}]]
  BY DEF Load, IndInv, TypeOK
<1>7. db_files' \in [Dirs -> [Names -> [dim : Dims, count : 0 .. MaxCount] \cup {NoFile}]]
  BY <1>4, <1>5, <1>6
<1>8. \A d \in Dirs, n \in Names :
          db_files'[d][n] = IF d = DataDir /\ n \in loaded THEN Opened(db_files[d][n], rows[n].dim)
                            ELSE db_files[d][n]
  BY <1>4, <1>6
<1>9. catalog' \in [Names -> Addresses \cup {NoEngine}]
  BY <1>1
<1>10. ASSUME NEW a \in Range(place)
       PROVE  /\ a \in Addresses /\ AntiFunction(place)[a] \in loaded
              /\ place[AntiFunction(place)[a]] = a
  BY <1>1, <1>2, <1>3
<1>11. engines' \in [Addresses -> [name : Names, dir : Dirs] \cup {Freed}]
  BY <1>1, <1>4, <1>10
<1>12. \A n \in Names : catalog'[n] # NoEngine <=> n \in loaded
  BY <1>1, AddressesAssumption
<1>13. ASSUME NEW n \in loaded
       PROVE  engines'[catalog'[n]] = [name |-> n, dir |-> DataDir]
  BY <1>1, <1>2, <1>3
<1>14. ASSUME NEW a \in Addresses, engines'[a] # Freed
       PROVE  engines'[a].dir = DataDir /\ catalog'[engines'[a].name] = a
  BY <1>1, <1>10, <1>14
<1> QED BY <1>7, <1>8, <1>9, <1>11, <1>12, <1>13, <1>14 DEF LoadedFacts

(* After a start whose loading went that way the invariant holds.          *)
LEMMA StartKeeps ==
    ASSUME IndInv, Stop, NEW rows \in [Names -> [dim : Dims, count : Nat, entry : {-1, 0}] \cup {NoRow}],
           NEW loaded \in SUBSET {n \in Names : rows[n] # NoRow}, LoadedFacts(rows, loaded),
           databases' = rows, meta' \in BOOLEAN
    PROVE  IndInv'
<1> USE DEF IndInv, Stop
<1>1. TypeOK'
  <2>1. restarts' \in 0 .. MaxRestarts
    BY ServerBoundsAssumption, SMT DEF TypeOK
  <2>2. [c \in Clients |-> NoArg] \in [Clients -> [name : Names \cup {NoName}, dim : Dims \cup {0},
                                                  count : 0 .. MaxCount]]
    BY ServerBoundsAssumption DEF NoArg
  <2> QED BY <2>1, <2>2 DEF TypeOK, MetadataTypeOK, LoadedFacts, Steps
<1>2. LockInv'
  BY ClientsAssumption DEF LockInv, InCatalog, InDrop
<1>3. ArgInv'
  BY AddressesAssumption DEF ArgInv, OperandsOK, OpensOK, InCatalog, InDrop, InCommand
<1>4. CatalogInv'
  <2>1. ASSUME NEW a \in Addresses, engines'[a] # Freed
        PROVE  /\ catalog'[engines'[a].name] = a
               /\ engines'[a].dir \in {"working", DataDir}
               /\ db_files'[engines'[a].dir][engines'[a].name] # NoFile
    <3> DEFINE n == engines'[a].name
    <3>1. /\ n \in Names /\ engines'[a].dir = DataDir /\ catalog'[n] = a
      BY <2>1 DEF LoadedFacts
    <3>2. n \in loaded /\ rows[n].dim \in Dims
      BY <3>1, AddressesAssumption DEF LoadedFacts
    <3>3. db_files'[DataDir][n] = Opened(db_files[DataDir][n], rows[n].dim)
      BY <3>1, <3>2 DEF LoadedFacts, DataDir, Dirs
    <3>4. db_files'[DataDir][n] # NoFile
      BY <3>2, <3>3, DimsAssumption DEF Opened, NoFile
    <3> QED BY <3>1, <3>4
  <2>2. ASSUME NEW n \in Names, catalog'[n] # NoEngine
        PROVE  engines'[catalog'[n]] # Freed /\ engines'[catalog'[n]].name = n
    <3>1. engines'[catalog'[n]] = [name |-> n, dir |-> DataDir]
      BY <2>2 DEF LoadedFacts
    <3>2. engines'[catalog'[n]].name = n /\ Freed.name = NoName
      BY <3>1 DEF Freed
    <3> QED BY <3>2, NamesAssumption
  <2> QED BY <2>1, <2>2 DEF CatalogInv
<1> QED BY <1>1, <1>2, <1>3, <1>4

LEMMA FilesOfDataDir ==
    ASSUME IndInv
    PROVE  /\ MetadataTypeOK
           /\ db_files[DataDir] \in [Names -> [dim : Dims, count : 0 .. MaxCount] \cup {NoFile}]
           /\ \A seen \in SUBSET Names :
                 [n \in Names |-> IF n \in seen THEN db_files[DataDir][n] ELSE NoFile]
                    \in [Names -> [dim : Dims, count : 0 .. MaxCount] \cup {NoFile}]
BY DEF IndInv, TypeOK, DataDir, Dirs

(* Each of the three starts is a Stop and the loading of some rows.        *)
LEMMA StartsLoad ==
    ASSUME IndInv, Restart \/ RestartWithoutMeta \/ RestartLosesMeta
    PROVE  /\ Stop /\ meta' \in BOOLEAN
           /\ \E rows \in [Names -> [dim : Dims, count : Nat, entry : {-1, 0}] \cup {NoRow}] :
              \E loaded \in SUBSET {n \in Names : rows[n] # NoRow} :
                 databases' = rows /\ LoadedFacts(rows, loaded)
<1>1. CASE Restart
  <2> DEFINE rows == Seeded(db_files[DataDir])
             loaded == {n \in Names : rows[n] # NoRow}
  <2>1. rows \in [Names -> [dim : Dims, count : Nat, entry : {-1, 0}] \cup {NoRow}]
    BY FilesOfDataDir, SeededType
  <2>2. Stop /\ meta' = TRUE /\ databases' = rows /\ Load(rows, loaded)
    BY <1>1 DEF Restart
  <2> HIDE DEF rows
  <2>3. LoadedFacts(rows, loaded)
    BY <2>1, <2>2, LoadMeans
  <2> QED BY <2>1, <2>2, <2>3
<1>2. CASE RestartWithoutMeta
  <2>1. /\ Stop /\ meta' = FALSE /\ databases' = databases /\ Load(databases, {})
        /\ databases \in [Names -> [dim : Dims, count : Nat, entry : {-1, 0}] \cup {NoRow}]
    BY <1>2 DEF RestartWithoutMeta, IndInv, TypeOK, MetadataTypeOK
  <2>2. LoadedFacts(databases, {})
    BY <2>1, LoadMeans
  <2> QED BY <2>1, <2>2
<1>3. CASE RestartLosesMeta
  <2>1. PICK seen \in SUBSET Names :
          LET rows == Seeded([n \in Names |-> IF n \in seen THEN db_files[DataDir][n]
                                              ELSE NoFile])
          IN /\ databases' = rows
             /\ \E loaded \in SUBSET ({n \in Names : rows[n] # NoRow} \ Bad(rows)) :
                   Load(rows, loaded)
    BY <1>3 DEF RestartLosesMeta
  <2> DEFINE rows == Seeded([n \in Names |-> IF n \in seen THEN db_files[DataDir][n]
                                              ELSE NoFile])
  <2>2. rows \in [Names -> [dim : Dims, count : Nat, entry : {-1, 0}] \cup {NoRow}]
    BY FilesOfDataDir, SeededType
  <2>3. PICK loaded \in SUBSET {n \in Names : rows[n] # NoRow} : Load(rows, loaded)
    BY <2>1
  <2>4. databases' = rows /\ Stop /\ meta' = FALSE
    BY <1>3, <2>1 DEF RestartLosesMeta
  <2> HIDE DEF rows
  <2>5. LoadedFacts(rows, loaded)
    BY <2>2, <2>3, LoadMeans
  <2> QED BY <2>2, <2>4, <2>5
<1> QED BY <1>1, <1>2, <1>3

LEMMA RestartsKeep ==
    ASSUME IndInv, Restart \/ RestartWithoutMeta \/ RestartLosesMeta
    PROVE  IndInv'
BY StartsLoad, StartKeeps

-----------------------------------------------------------------------------
(* Every step.                                                             *)

LEMMA QuietStepKeeps ==
    ASSUME IndInv, NEW c \in Clients,
           \/ Connect(c) \/ Disconnect(c) \/ CheckDimension(c) \/ NoActive(c)
           \/ StartCommand(c) \/ OtherCommand(c) \/ StartDrop(c) \/ NotInCatalog(c)
    PROVE  IndInv'
<1> USE DEF InCatalog, InDrop, InCommand, InHandshake, Steps
<1>1. CASE Connect(c)
  BY <1>1, QuietKeeps DEF Connect
<1>2. CASE Disconnect(c) \/ NoActive(c)
  BY <1>2, HangupKeeps DEF Disconnect, NoActive
<1>3. CASE CheckDimension(c) \/ OtherCommand(c) \/ NotInCatalog(c)
  BY <1>3, QuietKeeps DEF CheckDimension, OtherCommand, NotInCatalog
<1>4. CASE StartCommand(c) \/ StartDrop(c)
  <2>1. active_db[c] \in Addresses
    BY <1>4 DEF StartCommand, StartDrop, IndInv, TypeOK
  <2> QED BY <1>4, <2>1, QuietKeeps DEF StartCommand, StartDrop
<1> QED BY <1>1, <1>2, <1>3, <1>4

LEMMA StepKeeps == IndInv /\ [Next]_vars => IndInv'
<1> SUFFICES ASSUME IndInv, [Next]_vars PROVE IndInv'
  OBVIOUS
<1>1. ASSUME NEW c \in Clients, Locked(c) PROVE IndInv'
  BY <1>1, OpenKeeps, OpenThrowsKeeps, RegisterKeeps, DropRowKeeps, EraseKeeps,
     RemoveDbKeeps, RemoveDelKeeps, InsertKeeps, DeleteKeeps, OtherCallKeeps DEF Locked
<1>2. ASSUME NEW c \in Clients, Unlocked(c) PROVE IndInv'
  BY <1>2, QuietStepKeeps, SelectOpenKeeps, SelectClosedKeeps, FindInCatalogKeeps,
     BeginCallKeeps, ReadCountKeeps, MirrorKeeps, StoreFailsKeeps, UseFreedKeeps DEF Unlocked
<1>3. CASE UNCHANGED vars
  <2> USE <1>3 DEF vars, disk, shared, threads, history
  <2>1. TypeOK'
    BY DEF IndInv, TypeOK, MetadataTypeOK
  <2>2. LockInv' /\ ArgInv' /\ CatalogInv'
    BY DEF IndInv, LockInv, ArgInv, OperandsOK, OpensOK, CatalogInv
  <2> QED BY <2>1, <2>2 DEF IndInv
<1> QED BY <1>1, <1>2, <1>3, RestartsKeep DEF Next

(* In every reachable state the variables have their types, the locks are  *)
(* with the threads that are inside what they guard, a thread inside a     *)
(* selection or a drop knows the state of its database, and catalog and    *)
(* engines are inverse to each other (server.cpp:163-184, 339-363).        *)
THEOREM Invariance == Spec => []IndInv
<1> QED BY InitIndInv, StepKeeps, PTL DEF Spec

(* Types, for any number of connections, names, addresses and dimensions,  *)
(* with and without PostgreSQL, whatever clients drop.                     *)
THEOREM TypeCorrect == Spec => []TypeOK
<1>1. IndInv => TypeOK
  BY DEF IndInv
<1> QED BY <1>1, Invariance, PTL

(* No two engines ever have the same file mapped, and each is in the       *)
(* catalog: the lock is kept from the search in the catalog to the entry,  *)
(* and a drop empties the entry before another can be made                 *)
(* (server.cpp:163-184, 340-352).                                          *)
THEOREM OneEngine == Spec => []OneEnginePerDatabase
<1>1. ASSUME IndInv PROVE OneEnginePerDatabase
  <2> SUFFICES ASSUME NEW a \in Addresses, engines[a] # Freed
               PROVE  /\ catalog[engines[a].name] = a
                      /\ \A b \in Addresses \ {a} : engines[b].name # engines[a].name
    BY DEF OneEnginePerDatabase
  <2>1. catalog[engines[a].name] = a /\ engines[a].name \in Names
    BY <1>1 DEF IndInv, TypeOK, CatalogInv
  <2>2. ASSUME NEW b \in Addresses \ {a} PROVE engines[b].name # engines[a].name
    <3>1. CASE engines[b] = Freed
      BY <2>1, <3>1, NamesAssumption DEF Freed
    <3>2. CASE engines[b] # Freed
      BY <1>1, <2>1, <3>2 DEF IndInv, CatalogInv
    <3> QED BY <3>1, <3>2
  <2> QED BY <2>1, <2>2
<1> QED BY <1>1, Invariance, PTL

-----------------------------------------------------------------------------
(* What a step of a thread can change: the frame that the proofs about     *)
(* rows, files and pointers need of the actions they do not look at.       *)
LEMMA StepFrame ==
    ASSUME NEW c \in Clients, Locked(c) \/ Unlocked(c)
    PROVE  /\ meta' = meta /\ restarts' = restarts
           /\ faults' # faults => StoreFails(c)
           /\ <<catalog, engines>>' # <<catalog, engines>> => Open(c) \/ Erase(c)
           /\ db_files' # db_files => Open(c) \/ Insert(c) \/ RemoveDb(c)
           /\ del_files' # del_files => Delete(c) \/ RemoveDel(c)
           /\ databases' # databases => Register(c) \/ Mirror(c) \/ DropRow(c)
           /\ stored' # stored => Insert(c) \/ \E n \in Names : FindInCatalog(c, n)
<1> USE DEF disk, shared, history, NothingElse
<1>1. CASE Locked(c)
  BY <1>1 DEF Locked, Open, OpenThrows, Register, DropRow, Erase, RemoveDb, RemoveDel, RemoveLast,
              Insert, Delete, OtherCall
<1>2. CASE Unlocked(c)
  <2>1. CASE Connect(c) \/ Disconnect(c) \/ CheckDimension(c) \/ NoActive(c) \/ StartCommand(c)
             \/ OtherCommand(c) \/ BeginCall(c) \/ StartDrop(c) \/ NotInCatalog(c) \/ ReadCount(c)
    BY <2>1 DEF Connect, Disconnect, CheckDimension, NoActive, StartCommand, OtherCommand, BeginCall,
                StartDrop, NotInCatalog, ReadCount, CountRead
  <2>2. CASE Mirror(c) \/ StoreFails(c) \/ UseFreed(c)
    BY <2>2 DEF Mirror, StoreFails, InTransaction, UseFreed
  <2>3. CASE \E n \in Names : \/ SelectOpen(c, n)
                              \/ \E dim \in Dims : SelectClosed(c, n, dim)
                              \/ FindInCatalog(c, n)
    BY <2>3 DEF SelectOpen, SelectClosed, NotOpen, FindInCatalog
  <2> HIDE DEF disk, shared, history, NothingElse
  <2> QED BY <1>2, <2>1, <2>2, <2>3, Zenon DEF Unlocked
<1> QED BY <1>1, <1>2

(* A step of one thread leaves the locals of the others alone.             *)
LEMMA OthersStay ==
    ASSUME TypeOK, NEW c \in Clients, Locked(c) \/ Unlocked(c)
    PROVE  \A d \in Clients \ {c} :
              /\ pc'[d] = pc[d] /\ arg'[d] = arg[d]
              /\ active_db'[d] = active_db[d] /\ active_db_name'[d] = active_db_name[d]
<1> USE DEF TypeOK, Goto, Hangup, Activate, Point
<1>1. CASE Locked(c)
  BY <1>1 DEF Locked, Open, OpenThrows, Register, DropRow, Erase, RemoveDb, RemoveDel, RemoveLast,
              Insert, Delete, OtherCall, MirrorNext
<1>2. CASE Unlocked(c)
  <2>1. CASE Connect(c) \/ Disconnect(c) \/ CheckDimension(c) \/ NoActive(c) \/ StartCommand(c)
             \/ OtherCommand(c) \/ BeginCall(c) \/ StartDrop(c) \/ NotInCatalog(c)
    BY <2>1 DEF Connect, Disconnect, CheckDimension, NoActive, StartCommand, OtherCommand, BeginCall,
                StartDrop, NotInCatalog
  <2>2. CASE ReadCount(c) \/ Mirror(c) \/ StoreFails(c) \/ UseFreed(c)
    BY <2>2 DEF ReadCount, CountRead, Mirror, StoreFails, UseFreed, threads
  <2>3. CASE \E n \in Names : \/ SelectOpen(c, n)
                              \/ \E dim \in Dims : SelectClosed(c, n, dim)
                              \/ FindInCatalog(c, n)
    BY <2>3 DEF SelectOpen, SelectClosed, NotOpen, FindInCatalog
  <2> HIDE DEF TypeOK, Goto, Hangup, Activate, Point
  <2> QED BY <1>2, <2>1, <2>2, <2>3, Zenon DEF Unlocked
<1> QED BY <1>1, <1>2

(* The rows after a start: those before, and new ones with the count of    *)
(* the file they were made for.                                            *)
LEMMA StartRows ==
    ASSUME IndInv, Restart \/ RestartWithoutMeta \/ RestartLosesMeta, NEW n \in Names
    PROVE  \/ databases'[n] = databases[n]
           \/ /\ databases[n] = NoRow /\ db_files[DataDir][n].dim # 0
              /\ databases'[n] = Row(n, db_files[DataDir][n].dim, db_files[DataDir][n].count)
<1>1. CASE Restart
  BY <1>1 DEF Restart, Seeded, Registered
<1>2. CASE RestartWithoutMeta
  BY <1>2 DEF RestartWithoutMeta
<1>3. CASE RestartLosesMeta
  <2>1. PICK seen \in SUBSET Names :
          databases' = Seeded([m \in Names |-> IF m \in seen THEN db_files[DataDir][m] ELSE NoFile])
    BY <1>3 DEF RestartLosesMeta
  <2>2. CASE n \in Registered
    BY <2>1, <2>2 DEF Seeded
  <2>3. CASE n \notin Registered
    BY <2>1, <2>3 DEF Seeded, Registered, NoFile, NoRow
  <2> QED BY <2>2, <2>3
<1> QED BY <1>1, <1>2, <1>3
=============================================================================
