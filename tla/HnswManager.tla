----------------------------- MODULE HnswManager -----------------------------
(***************************************************************************)
(* The HNSW index of one open database: the graph that HnswManager builds  *)
(* in the mapped file, the searches that walk it, and the paths of         *)
(* RedBoxVector::insert, update, remove and the constructor that lead to   *)
(* it.                                                                     *)
(*                                                                         *)
(* As in RedBoxVector, the writer holds rw_mutex from its first statement  *)
(* to its last, so there is one writer, op, and one step for each store to *)
(* the mapped file; Restart may fall between any two.  A slot keeps its id *)
(* for good, so a slot stands for its id.                                  *)
(*                                                                         *)
(* The searches are functions of the state.  Distances are computed: what  *)
(* an index finds depends on them.                                         *)
(***************************************************************************)
EXTENDS Integers, Sequences, SequencesExt

CONSTANTS
    Capacity,        \* header->max_capacity
    M,               \* header->hnsw_M
    MaxLevel,        \* bound: the levels compute_level draws (16 in the code)
    EfConstruction,  \* header->hnsw_ef_construction
    EfSearch,        \* header->hnsw_ef_search
    Vecs,            \* the vectors clients store and search: points of the plane
    MaxChanges,      \* bound on updates and deletions
    MaxReinserts,    \* bound on insertions of ids that were deleted
    MaxRestarts      \* bound on restarts

(* With M = 1 compute_level divides by log(1) = 0.                         *)
ASSUME GraphAssumption == Capacity \in Nat \ {0} /\ M \in Nat \ {0, 1} /\ MaxLevel \in Nat
ASSUME BeamAssumption == EfConstruction \in Nat \ {0} /\ EfSearch \in Nat \ {0}
ASSUME VecsAssumption == Vecs \subseteq Int \X Int
ASSUME BoundsAssumption == {MaxChanges, MaxReinserts, MaxRestarts} \subseteq Nat

Slots  == 0 .. Capacity - 1
Levels == 0 .. MaxLevel
EMPTY  == Capacity          \* UINT32_MAX in the code: no slot's number
NoVec  == <<>>

VARIABLES
    \* the mapped file
    vector_count,
    float_block,
    is_initialized,      \* header->is_initialized: there is a first node
    hnsw_entry_point,
    hnsw_max_level,
    hnsw_edge_block,     \* for each slot and level a list of fixed length, EMPTY where unused
    \* the .db.del file
    tombstones,
    \* memory
    deleted_flags,
    op,                  \* the writer's operation
    \* history
    acked,               \* what the clients know about each slot
    cut,                 \* a part of the graph may be out of reach
    again,               \* the slots that were inserted again
    torn,                \* the lists a crash found half rewritten
    changes, reinserts, restarts

graph   == <<is_initialized, hnsw_entry_point, hnsw_max_level, hnsw_edge_block>>
vectors == <<vector_count, float_block>>
counts  == <<changes, reinserts, restarts>>
marks   == <<cut, again, torn>>
history == <<acked, marks, counts>>
vars    == <<vectors, graph, tombstones, deleted_flags, op, history>>

(* The operation: the slot being inserted, the level it was drawn, the     *)
(* level being linked, the slot the next search starts from, the selected  *)
(* neighbours that have no edge back yet, and what set_neighbors is        *)
(* writing into which slot's list.                                         *)
Idle == [pc |-> "idle", slot |-> EMPTY, level |-> 0, at |-> 0, curr |-> EMPTY, todo |-> <<>>,
         into |-> EMPTY, list |-> <<>>]
Free == op.pc = "idle"
Goto(pc) == op' = [op EXCEPT !.pc = pc]

m_max(l) == IF l = 0 THEN 2 * M ELSE M

UsedSlots == 0 .. vector_count - 1

(* The neighbours a list holds, and a list as set_neighbors writes it.     *)
Neighbors(i, l) == ToSet(hnsw_edge_block[i][l]) \ {EMPTY}
Padded(neighbors, l) ==
    [n \in 1 .. m_max(l) |-> IF n <= Len(neighbors) THEN neighbors[n] ELSE EMPTY]

(* Every variable ranges over the values its declaration in the code has.  *)
TypeOK ==
    /\ vector_count \in 0 .. Capacity
    /\ float_block \in [Slots -> Vecs \cup {NoVec}]
    /\ is_initialized \in BOOLEAN
    /\ hnsw_entry_point \in Slots \cup {EMPTY}
    /\ hnsw_max_level \in Levels
    /\ hnsw_edge_block \in [Slots -> [Levels -> Seq(Slots \cup {EMPTY})]]
    /\ \A i \in Slots, l \in Levels : Len(hnsw_edge_block[i][l]) = m_max(l)
    /\ tombstones \subseteq Slots
    /\ deleted_flags \in [Slots -> BOOLEAN]
    /\ op \in [pc : {"idle", "enter", "initialize", "connect", "set", "link", "raise",
                     "raise_level", "answer"},
               slot : Slots \cup {EMPTY}, level : Levels, at : Levels,
               curr : Slots \cup {EMPTY}, todo : Seq(Slots),
               into : Slots \cup {EMPTY}, list : Seq(Slots \cup {EMPTY})]
    /\ acked \in [Slots -> {"unused", "unsure", "stored", "deleted"}]
    /\ cut \in BOOLEAN
    /\ again \subseteq Slots
    /\ torn \subseteq Slots \X Levels
    /\ changes \in 0 .. MaxChanges
    /\ reinserts \in 0 .. MaxReinserts
    /\ restarts \in 0 .. MaxRestarts

Init ==
    /\ vector_count = 0
    /\ float_block = [i \in Slots |-> NoVec]
    /\ is_initialized = FALSE
    /\ hnsw_entry_point = EMPTY
    /\ hnsw_max_level = 0
    /\ hnsw_edge_block = [i \in Slots |-> [l \in Levels |-> Padded(<<>>, l)]]
    /\ tombstones = {}
    /\ deleted_flags = [i \in Slots |-> FALSE]
    /\ op = Idle
    /\ acked = [i \in Slots |-> "unused"]
    /\ cut = FALSE
    /\ again = {}
    /\ torn = {}
    /\ changes = 0
    /\ reinserts = 0
    /\ restarts = 0

-----------------------------------------------------------------------------
(* Distances, and the walks through the graph.                             *)

(* Distance::l2, in two dimensions.                                        *)
l2(v, w) == (v[1] - w[1]) * (v[1] - w[1]) + (v[2] - w[2]) * (v[2] - w[2])

Dist(query, i) == l2(query, float_block[i])

Nearer(query, i, S) == {j \in S : Dist(query, j) < Dist(query, i)}

(* Where a function to distances has its least value, and all its domain   *)
(* in order of its values.                                                 *)
Least(dist, S) == CHOOSE i \in S : \A j \in S : dist[i] <= dist[j]
Order(dist) ==
    LET order[S \in SUBSET DOMAIN dist] ==
          IF S = {} THEN <<>> ELSE <<Least(dist, S)>> \o order[S \ {Least(dist, S)}]
    IN  order[DOMAIN dist]

(* The closest of a set of slots, all of them in order, and the nearest n  *)
(* of them: the priority queues of the code.                               *)
Dists(query, S) == [i \in S |-> Dist(query, i)]
Closest(query, S) == Least(Dists(query, S), S)
Sorted(query, S) == Order(Dists(query, S))
Nearest(query, n, S) ==
    LET sorted == Sorted(query, S)
    IN  IF Cardinality(S) <= n THEN S ELSE {sorted[k] : k \in {k \in DOMAIN sorted : k <= n}}

(* The neighbours a walk may go to.                                        *)
LiveNeighbors(i, l) == {j \in Neighbors(i, l) : ~deleted_flags[j]}

(* The greedy walk at one level: to the nearest neighbour, while one is    *)
(* nearer.                                                                 *)
Walk(query, from, l) ==
    LET walk[i \in UsedSlots] ==
          LET nearer == Nearer(query, i, LiveNeighbors(i, l))
          IN  IF nearer = {} THEN i ELSE walk[Closest(query, nearer)]
    IN  walk[from]

(* From the entry point through the levels above the given one.            *)
Descend(query, level) ==
    LET down[l \in Nat] == IF l > hnsw_max_level THEN hnsw_entry_point
                           ELSE Walk(query, down[l + 1], l)
    IN  down[level + 1]

(* The beam search at one level: the candidates to expand, the best ef     *)
(* slots so far and those that were met.                                   *)
Beams == [cand : SUBSET UsedSlots, res : SUBSET UsedSlots, seen : SUBSET UsedSlots]

Exhausted(query, ef, s) ==
    \/ s.cand = {}
    \/ /\ Cardinality(s.res) >= ef
       /\ \A i \in s.res : Dist(query, i) < Dist(query, Closest(query, s.cand))

(* Mutant: the flags are not looked at.                                    *)
MeetDeleted(query, ef, s, j) ==
    IF j = EMPTY \/ j \in s.seen THEN s
    ELSE IF Cardinality(s.res) < ef \/ \E i \in s.res : Dist(query, j) < Dist(query, i)
    THEN [cand |-> s.cand \cup {j}, res |-> Nearest(query, ef, s.res \cup {j}),
          seen |-> s.seen \cup {j}]
    ELSE [s EXCEPT !.seen = @ \cup {j}]

(* A slot is met, for the first time: among the best ef so far it is a     *)
(* result and a candidate.                                                 *)
Meet(query, ef, s, j) ==
    IF j = EMPTY \/ deleted_flags[j] \/ j \in s.seen THEN s
    ELSE IF Cardinality(s.res) < ef \/ \E i \in s.res : Dist(query, j) < Dist(query, i)
    THEN [cand |-> s.cand \cup {j}, res |-> Nearest(query, ef, s.res \cup {j}),
          seen |-> s.seen \cup {j}]
    ELSE [s EXCEPT !.seen = @ \cup {j}]

(* The places of the closest candidate's list, in order.                   *)
Expand(query, ef, l, s) ==
    LET f == Closest(query, s.cand)
        list == hnsw_edge_block[f][l]
        met[n \in 0 .. Len(list)] == IF n = 0 THEN [s EXCEPT !.cand = @ \ {f}]
                                     ELSE Meet(query, ef, met[n - 1], list[n])
    IN  met[Len(list)]

search_layer(query, entry, ef, l) ==
    LET beam[s \in Beams] ==
          IF Exhausted(query, ef, s) THEN s.res ELSE beam[Expand(query, ef, l, s)]
        found == {i \in {entry} : ~deleted_flags[i]}
    IN  beam[[cand |-> {entry}, res |-> found, seen |-> {entry}]]

(* The same search with flat arrays, of which only the nearest is wanted.  *)
search_layer_1(query, entry, ef, l) ==
    LET found == search_layer(query, entry, ef, l)
    IN  IF found = {} THEN EMPTY ELSE Closest(query, found)

hnsw_search_1(query, ef) == search_layer_1(query, Descend(query, 0), ef, 0)

hnsw_search(query, n) ==
    Sorted(query, search_layer(query, Descend(query, 0), 4 * Max({EfSearch, n}), 0))

(* RedBoxVector::search and search_N.                                      *)
Search(query) == IF vector_count = 0 THEN EMPTY ELSE hnsw_search_1(query, 8)
SearchN(query, n) ==
    IF vector_count = 0 THEN <<>>
    ELSE LET results == hnsw_search(query, n)
         IN  SubSeq(results, 1, Min({n, Len(results)}))

(* std::sort of a list of candidates, which may have a slot twice.         *)
SortedList(query, s) ==
    LET order == Order([n \in DOMAIN s |-> Dist(query, s[n])])
    IN  [n \in DOMAIN order |-> s[order[n]]]

(* Mutant: the kept ones are not cleared before the closest are taken.     *)
select_neighbors_uncleared(query, candidates, m) ==
    LET sorted == SortedList(query, candidates)
        all == SubSeq(sorted, 1, Min({1, Len(sorted)})) \o sorted
    IN  SubSeq(all, 1, Min({m, Len(all)}))

(* The neighbours to keep of a list of candidates: in order of distance    *)
(* those that are not closer to one already kept, or, if these are not     *)
(* enough, simply the closest.                                             *)
Keep(query, m, kept, i) ==
    IF Len(kept) < m /\ \A j \in ToSet(kept) : Dist(float_block[i], j) >= Dist(query, i)
    THEN Append(kept, i) ELSE kept

select_neighbors_heuristic(query, candidates, m) ==
    LET sorted == SortedList(query, candidates)
        diverse[n \in 0 .. Len(sorted)] ==
          IF n = 0 THEN <<>> ELSE Keep(query, m, diverse[n - 1], sorted[n])
    IN  IF Len(diverse[Len(sorted)]) = m THEN diverse[Len(sorted)]
        ELSE SubSeq(sorted, 1, Min({m, Len(sorted)}))

-----------------------------------------------------------------------------
(* insert                                                                  *)

(* Two slots with one vector would tell the properties nothing.            *)
NewVec(i, v) == \A j \in UsedSlots \ {i} : float_block[j] # v

Unanswered(i) == acked' = [acked EXCEPT ![i] = "unsure"]

(* A fresh slot, counted before the graph knows it.                        *)
InsertFresh(v) ==
    /\ Free
    /\ vector_count < Capacity
    /\ NewVec(vector_count, v)
    /\ float_block' = [float_block EXCEPT ![vector_count] = v]
    /\ vector_count' = vector_count + 1
    /\ deleted_flags' = [deleted_flags EXCEPT ![vector_count] = FALSE]
    /\ op' = [Idle EXCEPT !.pc = "enter", !.slot = vector_count]
    /\ Unanswered(vector_count)
    /\ UNCHANGED <<graph, tombstones, marks, counts>>

(* Mutant: the flag is cleared before the slot is linked again.            *)
InsertAgainUnflagged(i, v) ==
    /\ Free
    /\ acked[i] = "deleted"
    /\ reinserts < MaxReinserts
    /\ reinserts' = reinserts + 1
    /\ NewVec(i, v)
    /\ float_block' = [float_block EXCEPT ![i] = v]
    /\ deleted_flags' = [deleted_flags EXCEPT ![i] = FALSE]
    /\ op' = [Idle EXCEPT !.pc = "enter", !.slot = i]
    /\ Unanswered(i)
    /\ again' = again \cup {i}
    /\ UNCHANGED <<vector_count, graph, tombstones, cut, torn, changes, restarts>>

(* The slot of a deleted id: its flag is kept until it is linked again.    *)
InsertAgain(i, v) ==
    /\ Free
    /\ acked[i] = "deleted"
    /\ reinserts < MaxReinserts
    /\ reinserts' = reinserts + 1
    /\ NewVec(i, v)
    /\ float_block' = [float_block EXCEPT ![i] = v]
    /\ op' = [Idle EXCEPT !.pc = "enter", !.slot = i]
    /\ Unanswered(i)
    /\ again' = again \cup {i}
    /\ UNCHANGED <<vector_count, graph, tombstones, deleted_flags, cut, torn, changes, restarts>>

(* hnsw_insert: the first node is the graph.                               *)
EnterFirst ==
    /\ op.pc = "enter" /\ ~is_initialized
    /\ hnsw_entry_point' = op.slot
    /\ hnsw_max_level' = 0
    /\ Goto("initialize")
    /\ UNCHANGED <<vectors, is_initialized, hnsw_edge_block, tombstones, deleted_flags, history>>

Initialize ==
    /\ op.pc = "initialize"
    /\ is_initialized' = TRUE
    /\ Goto("answer")
    /\ UNCHANGED <<vectors, hnsw_entry_point, hnsw_max_level, hnsw_edge_block, tombstones,
                   deleted_flags, history>>

(* Any other draws its level and descends to it.                           *)
Enter(level) ==
    /\ op.pc = "enter" /\ is_initialized
    /\ op' = [op EXCEPT !.pc    = "connect",
                        !.level = level,
                        !.at    = Min({level, hnsw_max_level}),
                        !.curr  = Descend(float_block[op.slot], level)]
    /\ UNCHANGED <<vectors, graph, tombstones, deleted_flags, history>>

(* Mutant: the loop over the levels ends before level 0.                   *)
GoOnButLast(o) ==
    op' = IF o.todo # <<>> THEN [o EXCEPT !.pc = "link"]
          ELSE IF o.at > 1 THEN [o EXCEPT !.pc = "connect", !.at = o.at - 1]
          ELSE [o EXCEPT !.pc = IF o.level > hnsw_max_level THEN "raise" ELSE "answer"]

(* When a list at a level is written: the next edge back, the next level,  *)
(* or, with all levels linked, the entry point.                            *)
GoOn(o) ==
    op' = IF o.todo # <<>> THEN [o EXCEPT !.pc = "link"]
          ELSE IF o.at > 0 THEN [o EXCEPT !.pc = "connect", !.at = o.at - 1]
          ELSE [o EXCEPT !.pc = IF o.level > hnsw_max_level THEN "raise" ELSE "answer"]

(* set_neighbors is about to write a list, of a slot, at the level.        *)
Set(o, slot, neighbors) ==
    op' = [o EXCEPT !.pc = "set", !.into = slot, !.list = Padded(neighbors, op.at)]

(* The new slot's own edges at a level.                                    *)
Connect ==
    /\ op.pc = "connect"
    /\ LET vec == float_block[op.slot]
           results == search_layer(vec, op.curr, EfConstruction, op.at)
           selected == select_neighbors_heuristic(vec, Sorted(vec, results), m_max(op.at))
       IN  /\ cut' = (cut \/ (op.at = 0 /\ Cardinality(results) > m_max(0)))
           /\ Set([op EXCEPT !.todo = selected,
                             !.curr = IF selected = <<>> THEN @ ELSE Head(selected)],
                  op.slot, selected)
    /\ UNCHANGED <<vectors, graph, tombstones, deleted_flags, acked, again, torn, counts>>

(* The store of one place of a list.                                       *)
Store(slot, n, neighbor) ==
    /\ hnsw_edge_block' = [hnsw_edge_block EXCEPT ![slot][op.at][n] = neighbor]
    /\ UNCHANGED <<is_initialized, hnsw_entry_point, hnsw_max_level>>

(* The loop of set_neighbors, one place after the other; a store of what   *)
(* is there already changes nothing and is no step.                        *)
Unset == {n \in DOMAIN op.list : hnsw_edge_block[op.into][op.at][n] # op.list[n]}

SetNeighbor ==
    /\ op.pc = "set" /\ Unset # {}
    /\ Store(op.into, Min(Unset), op.list[Min(Unset)])
    /\ UNCHANGED <<vectors, tombstones, deleted_flags, op, history>>

SetDone ==
    /\ op.pc = "set" /\ Unset = {}
    /\ GoOn([op EXCEPT !.into = EMPTY, !.list = <<>>])
    /\ UNCHANGED <<vectors, graph, tombstones, deleted_flags, history>>

(* append_neighbor, for an edge back: one store, to the first free place.  *)
Room(i, l) == {n \in 1 .. m_max(l) : hnsw_edge_block[i][l][n] = EMPTY}

LinkBack ==
    /\ op.pc = "link" /\ Room(Head(op.todo), op.at) # {}
    /\ Store(Head(op.todo), Min(Room(Head(op.todo), op.at)), op.slot)
    /\ GoOn([op EXCEPT !.todo = Tail(@)])
    /\ UNCHANGED <<vectors, tombstones, deleted_flags, history>>

(* If it is full, a selection from its neighbours and the new one is       *)
(* written in its place.                                                   *)
Prune ==
    /\ op.pc = "link" /\ Room(Head(op.todo), op.at) = {}
    /\ LET nb == Head(op.todo)
           nb_cands == <<op.slot>> \o hnsw_edge_block[nb][op.at]
       IN  Set([op EXCEPT !.todo = Tail(@)], nb,
               select_neighbors_heuristic(float_block[nb], nb_cands, m_max(op.at)))
    /\ cut' = (cut \/ op.at = 0)
    /\ UNCHANGED <<vectors, graph, tombstones, deleted_flags, acked, again, torn, counts>>

(* A slot above the highest level is the new entry point.                  *)
RaiseEntry ==
    /\ op.pc = "raise"
    /\ hnsw_entry_point' = op.slot
    /\ Goto("raise_level")
    /\ UNCHANGED <<vectors, is_initialized, hnsw_max_level, hnsw_edge_block, tombstones,
                   deleted_flags, history>>

(* Mutant: the number of levels is stored, not the highest.                *)
RaiseLevelCount ==
    /\ op.pc = "raise_level"
    /\ hnsw_max_level' = op.level + 1
    /\ Goto("answer")
    /\ UNCHANGED <<vectors, is_initialized, hnsw_entry_point, hnsw_edge_block, tombstones,
                   deleted_flags, history>>

RaiseLevel ==
    /\ op.pc = "raise_level"
    /\ hnsw_max_level' = op.level
    /\ Goto("answer")
    /\ UNCHANGED <<vectors, is_initialized, hnsw_entry_point, hnsw_edge_block, tombstones,
                   deleted_flags, history>>

Answer ==
    /\ op.pc = "answer"
    /\ deleted_flags' = [deleted_flags EXCEPT ![op.slot] = FALSE]
    /\ acked' = [acked EXCEPT ![op.slot] = "stored"]
    /\ op' = Idle
    /\ UNCHANGED <<vectors, graph, tombstones, marks, counts>>

-----------------------------------------------------------------------------
(* update and remove, of an id whose insertion was answered, and restart.  *)

Change == changes < MaxChanges /\ changes' = changes + 1

(* The vector is overwritten; the edges stay those of the old one.         *)
Update(i, v) ==
    /\ Free
    /\ acked[i] = "stored" /\ ~deleted_flags[i]
    /\ Change
    /\ NewVec(i, v)
    /\ float_block' = [float_block EXCEPT ![i] = v]
    /\ UNCHANGED <<vector_count, graph, tombstones, deleted_flags, op, acked, marks, reinserts,
                   restarts>>

(* The flag and the tombstone; the edges stay.                             *)
Delete(i) ==
    /\ Free
    /\ acked[i] = "stored" /\ ~deleted_flags[i]
    /\ Change
    /\ deleted_flags' = [deleted_flags EXCEPT ![i] = TRUE]
    /\ tombstones' = tombstones \cup {i}
    /\ acked' = [acked EXCEPT ![i] = "deleted"]
    /\ cut' = (cut \/ i = hnsw_entry_point)
    /\ UNCHANGED <<vectors, graph, op, again, torn, reinserts, restarts>>

(* A walk may meet the new slot at an upper level, and not all at level 0  *)
(* have an edge to it yet.                                                 *)
HalfLinked ==
    /\ op.pc \in {"connect", "set", "link"} /\ ~deleted_flags[op.slot]
    /\ \E i \in Slots, l \in Levels \ {0} : op.slot \in Neighbors(i, l)

(* A crash or stop, and the constructor: the flags are the tombstones.     *)
Restart ==
    /\ restarts < MaxRestarts
    /\ restarts' = restarts + 1
    /\ deleted_flags' = [i \in Slots |-> i \in UsedSlots /\ i \in tombstones]
    /\ cut' = (cut \/ HalfLinked \/ hnsw_entry_point \in tombstones)
    /\ torn' = IF op.pc = "set" THEN torn \cup {<<op.into, op.at>>} ELSE torn
    /\ op' = Idle
    /\ UNCHANGED <<vectors, graph, tombstones, acked, again, changes, reinserts>>

Next ==
    \/ \E v \in Vecs : InsertFresh(v)
    \/ \E i \in Slots, v \in Vecs : InsertAgain(i, v) \/ Update(i, v)
    \/ EnterFirst \/ Initialize
    \/ \E level \in Levels : Enter(level)
    \/ Connect \/ SetNeighbor \/ SetDone \/ LinkBack \/ Prune
    \/ RaiseEntry \/ RaiseLevel \/ Answer
    \/ \E i \in Slots : Delete(i)
    \/ Restart

Spec == Init /\ [][Next]_vars

-----------------------------------------------------------------------------
Stored == {i \in Slots : acked[i] = "stored" /\ ~deleted_flags[i]}

(* Until a slot has more neighbours at level 0 than its list has places,   *)
(* the entry point is deleted or a crash leaves a slot half linked, a      *)
(* search finds a vector at least as near as each one whose insertion or   *)
(* update was answered, and search_N the nearest n: through other          *)
(* deletions, updates, reinsertions and crashes, at whatever levels.       *)
NearestIsFound ==
    Free /\ Stored # {} /\ ~cut =>
        \A v \in Vecs :
            /\ LET i == Search(v) IN
                  i # EMPTY /\ \A j \in Stored : Dist(v, i) <= Dist(v, j)
            /\ \A n \in 1 .. Capacity : LET found == SearchN(v, n) IN
                  \A i \in Stored \ ToSet(found) :
                      Len(found) = n /\ \A j \in ToSet(found) : Dist(v, j) <= Dist(v, i)

(* Every edge leads from a slot to another one that is counted, so that    *)
(* its vector may be read: at every store and after every crash.           *)
EdgesAreSound ==
    \A i \in Slots, l \in Levels : Neighbors(i, l) \subseteq UsedSlots \ {i}

(* A slot is twice in a list, and takes a place of another one, for two    *)
(* reasons only: it was deleted and inserted again, and got a second edge  *)
(* back, or a crash fell into the loop that rewrites the list.             *)
Once(x, t) == \A n, k \in DOMAIN t : t[n] = x /\ t[k] = x => n = k
EdgesAreDistinct ==
    \A i \in Slots, l \in Levels :
        \/ <<i, l>> \in torn
        \/ op.pc = "set" /\ op.into = i /\ op.at = l
        \/ \A x \in Slots \ again : Once(x, hnsw_edge_block[i][l])

(* No search answers with a slot whose deletion was answered, whatever     *)
(* edges still lead to it.                                                 *)
DeletedAreHidden ==
    Free /\ is_initialized =>
        \A i \in Slots : acked[i] = "deleted" =>
            \A v \in Vecs : i \notin ToSet(SearchN(v, Capacity)) /\ Search(v) # i

(* PROTOCOL.md: SEARCH answers -1 if the database is empty.                *)
OnlyEmptyFindsNothing ==
    Free /\ Stored # {} => \A v \in Vecs : Search(v) # EMPTY
=============================================================================
