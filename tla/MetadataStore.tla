---------------------------- MODULE MetadataStore -----------------------------
(***************************************************************************)
(* The table databases that Metadata::Store keeps in PostgreSQL: a row for *)
(* each database, with a copy of its vector count and of the entry point   *)
(* that its header had when the row was made.  Each method is one          *)
(* transaction under the store's own mutex, so each operator is one step.  *)
(* The table audit_log is only ever written and is left out.               *)
(***************************************************************************)
EXTENDS Integers

CONSTANTS
    Names,       \* names of databases
    HnswNames,   \* those that clients open by CREATE_HNSW_DB, not by SELECT_DB
    Dims         \* dimensions clients ask for

ASSUME HnswNamesAssumption == HnswNames \subseteq Names
ASSUME DimsAssumption == Dims \subseteq Nat \ {0}

VARIABLE databases    \* the row of each name

NoRow == [dim |-> 0, count |-> 0, entry |-> 0]

MetadataTypeOK ==
    databases \in [Names -> [dim : Dims, count : Nat, entry : {-1, 0}] \cup {NoRow}]

Registered == {n \in Names : databases[n] # NoRow}

-----------------------------------------------------------------------------

(* (int)header.hnsw_entry_point: EMPTY, while an HNSW graph has no node, is *)
(* stored as -1; 0 stands for every other.                                 *)
EntryPoint(n, count) == IF n \in HnswNames /\ count = 0 THEN -1 ELSE 0

Row(n, dim, count) == [dim |-> dim, count |-> count, entry |-> EntryPoint(n, count)]

CreateDatabase(n, dim, count) ==
    /\ databases[n] = NoRow
    /\ databases' = [databases EXCEPT ![n] = Row(n, dim, count)]

(* Mutant: a row is made for a database that has none.                     *)
UpsertCounts(n, count) ==
    databases' = [databases EXCEPT ![n] =
        [dim |-> CHOOSE d \in Dims : TRUE, count |-> count, entry |-> 0]]

(* An UPDATE of a row that does not exist changes nothing.                 *)
UpdateCounts(n, count) ==
    databases' = IF n \in Registered THEN [databases EXCEPT ![n].count = count]
                 ELSE databases

(* Mutant: the transaction is not committed.                               *)
DropUncommitted(n) == UNCHANGED databases

DropDatabase(n) == databases' = [databases EXCEPT ![n] = NoRow]

(* seed_from_files: a row for each file of the directory that has none.    *)
Seeded(found) ==
    [n \in Names |-> IF n \in Registered THEN databases[n]
                     ELSE IF found[n].dim = 0 THEN NoRow
                     ELSE Row(n, found[n].dim, found[n].count)]

(* load_database throws: an entry point is read as an unsigned number.     *)
Unreadable(rows) == {n \in Names : rows[n].entry < 0}
=============================================================================
