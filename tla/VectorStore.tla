----------------------------- MODULE VectorStore ------------------------------
(***************************************************************************)
(* What the engine promises a client that never uses an id twice: a map    *)
(* from ids to vectors in which every operation takes effect at one        *)
(* instant or not at all, whatever happens to the process, a deleted id    *)
(* never comes back, and only an update that was cut short can leave       *)
(* something else than a client's vector under an id.                      *)
(***************************************************************************)
CONSTANTS Ids, Vecs, Garbage, Missing

VARIABLES
    store,  \* the vector under each id
    used    \* the ids that were ever put

vars == <<store, used>>

Init ==
    /\ store = [id \in Ids |-> Missing]
    /\ used = {}

Put(id, vec) ==
    /\ id \notin used
    /\ used' = used \cup {id}
    /\ store' = [store EXCEPT ![id] = vec]

(* An update has begun, and then is done.                                  *)
Scribble(id) ==
    /\ store[id] # Missing
    /\ store' = [store EXCEPT ![id] = Garbage]
    /\ UNCHANGED used

Overwrite(id, vec) ==
    /\ store[id] = Garbage
    /\ store' = [store EXCEPT ![id] = vec]
    /\ UNCHANGED used

Delete(id) ==
    /\ store[id] # Missing
    /\ store' = [store EXCEPT ![id] = Missing]
    /\ UNCHANGED used

Next ==
    \E id \in Ids :
        \/ \E vec \in Vecs : Put(id, vec) \/ Overwrite(id, vec)
        \/ Scribble(id)
        \/ Delete(id)

Spec == Init /\ [][Next]_vars
=============================================================================
