----------------------------- MODULE TombstoneLog -----------------------------
(***************************************************************************)
(* The .db.del file next to a .db file: the log of deleted ids that        *)
(* append_tombstone extends, compact_tombstones rewrites through a         *)
(* temporary file, and load_tombstones reads when a database is opened.    *)
(*                                                                         *)
(* The order of the entries is never looked at, only which ids are there   *)
(* and how many entries: a log is the set of its ids and its length.  A    *)
(* file that does not exist reads like an empty one.                       *)
(***************************************************************************)
EXTENDS Integers, FiniteSets

VARIABLES
    tombstone_file,  \* the .db.del file
    tmp_file         \* the .db.del.tmp file: nothing ever reads it but rename

logFiles == <<tombstone_file, tmp_file>>

NoFile == [ids |-> {}, entries |-> 0]

Logs(ids) == [ids : SUBSET ids, entries : Nat]

LogTypeOK(ids) ==
    /\ tombstone_file \in Logs(ids)
    /\ tmp_file \in Logs(ids)

NoLogFiles ==
    /\ tombstone_file = NoFile
    /\ tmp_file = NoFile

-----------------------------------------------------------------------------

(* Mutant: the log is opened without ios::app.                             *)
OverwriteLog(id) ==
    /\ tombstone_file' = [ids |-> {id}, entries |-> 1]
    /\ UNCHANGED tmp_file

AppendEntry(id) ==
    /\ tombstone_file' = [ids     |-> tombstone_file.ids \cup {id},
                          entries |-> tombstone_file.entries + 1]
    /\ UNCHANGED tmp_file

(* Mutants: the last entry is not flushed; the log is rewritten in place.  *)
WriteAllButLast(deleted) ==
    /\ tmp_file' = [ids     |-> {id \in deleted : \E other \in deleted : other > id},
                    entries |-> Cardinality(deleted)]
    /\ UNCHANGED tombstone_file
WriteInPlace(deleted) ==
    /\ tmp_file' = [ids |-> deleted, entries |-> Cardinality(deleted)]
    /\ tombstone_file' = NoFile

(* Compaction: one fresh entry for each deleted id ...                     *)
WriteTmpFile(deleted) ==
    /\ tmp_file' = [ids |-> deleted, entries |-> Cardinality(deleted)]
    /\ UNCHANGED tombstone_file

(* ... then the log is removed ...                                         *)
RemoveLog ==
    /\ tombstone_file' = NoFile
    /\ UNCHANGED tmp_file

(* ... and the temporary file takes its name.                              *)
RenameTmpFile ==
    /\ tombstone_file' = tmp_file
    /\ tmp_file' = NoFile

=============================================================================
