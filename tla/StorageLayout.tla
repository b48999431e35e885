---------------------------- MODULE StorageLayout ----------------------------
(***************************************************************************)
(* Where StorageManager::Manager puts things in the file.  The blocks'     *)
(* places follow from the arguments of the constructor, each time the file *)
(* is opened; the header remembers the arguments of the first time and is  *)
(* what add_vector and the destructor go by.  The file is its size, its    *)
(* header and a set of extents, each what one store wrote; a store         *)
(* destroys the extents it overlaps.  One action is a step of the creation *)
(* between which a crash matters, an opening, an insertion or a closing.   *)
(***************************************************************************)
EXTENDS Naturals, Sequences

CONSTANTS
    Dims, Capacities, Ks, Ms,   \* the arguments used
    Ids,
    NoArgs,                     \* a model value: the file does not exist
    Noise,                      \* a model value: what no store wrote as a whole
    MaxOpens                    \* bound: openings

ASSUME LayoutAssumption ==
    /\ Dims \subseteq Nat \ {0}
    /\ Capacities \subseteq Nat
    /\ Ks \subseteq Nat
    /\ Ms \subseteq Nat \ {0}
    /\ MaxOpens \in Nat

(* The two constructors of the engine: each leaves the other index's       *)
(* parameter at its default.                                               *)
Args == [index: {"IVF"}, dim: Dims, capacity: Capacities, k: Ks, M: {16}] \cup
        [index: {"HNSW"}, dim: Dims, capacity: Capacities, k: {100}, M: Ms]

ASSUME NoArgsAssumption == NoArgs \notin Args

VARIABLES
    size,       \* of the file
    header,     \* SpecificMetadata
    extents,    \* the stores that are whole: from, to (exclusive), what
    pc,         \* "down", a step of the creation, "open", "wild"
    args,       \* of this opening
    mapped,     \* bytes mapped
    made,       \* history: the arguments of the creation
    stored,     \* history: the ids inserted, slot by slot
    cut,        \* history: a crash cut the creation after version was set
    foreign,    \* history: a store was made with other arguments
    opens       \* bound

vars == <<size, header, extents, pc, args, mapped, made, stored, cut, foreign, opens>>

HeaderBytes == 128
IdBytes == 8
CountBytes == 8
ClusterBytes == 2
LevelBytes == 1
FloatBytes == 4
EdgeBytes == 4
MAX_LEVEL == 16
edges_per_node(M) == M * 2 + MAX_LEVEL * M

Vector(a) == a.dim * FloatBytes
Edges(a) == edges_per_node(a.M) * EdgeBytes

(* The IVF and the HNSW layout.                                            *)
clusterBlock(a) == HeaderBytes + a.k * Vector(a) + a.k * CountBytes
idBlock(a) == IF a.index = "IVF" THEN clusterBlock(a) + a.capacity * ClusterBytes
              ELSE HeaderBytes
(* Mutant: the ids are taken to be 4 bytes. *)
floatBlockShort(a) == idBlock(a) + a.capacity * 4

floatBlock(a) == idBlock(a) + a.capacity * IdBytes
levelBlock(a) == floatBlock(a) + a.capacity * Vector(a)
edgeBlock(a) == levelBlock(a) + a.capacity * LevelBytes

(* Mutant: the level block is forgotten. *)
calc_without_levels(a) ==
    HeaderBytes + a.capacity * IdBytes + a.capacity * Vector(a) +
    (IF a.index = "IVF"
     THEN a.k * Vector(a) + a.k * CountBytes + a.capacity * ClusterBytes
     ELSE a.capacity * Edges(a))

calc_required_size(a) ==
    HeaderBytes + a.capacity * IdBytes + a.capacity * Vector(a) +
    (IF a.index = "IVF"
     THEN a.k * Vector(a) + a.k * CountBytes + a.capacity * ClusterBytes
     ELSE a.capacity * LevelBytes + a.capacity * Edges(a))

(* Mutant: the destructor forgets the counts of the clusters. *)
TotalUncounted(h) ==
    HeaderBytes + h.capacity * IdBytes + h.capacity * Vector(h) +
    (IF h.index = "HNSW" THEN h.capacity * LevelBytes + h.capacity * Edges(h)
     ELSE h.k * Vector(h) + h.capacity * ClusterBytes)

(* What the destructor synchronises and unmaps.                            *)
Total(h) ==
    HeaderBytes + h.capacity * IdBytes + h.capacity * Vector(h) +
    (IF h.index = "HNSW" THEN h.capacity * LevelBytes + h.capacity * Edges(h)
     ELSE h.k * Vector(h) + h.k * CountBytes + h.capacity * ClusterBytes)

(* The parts of a slot, as [from, to) by the pointers of an opening.       *)
Area(from, bytes) == [from |-> from, to |-> from + bytes]
IdArea(a, slot) == Area(idBlock(a) + slot * IdBytes, IdBytes)
FloatArea(a, slot) == Area(floatBlock(a) + slot * Vector(a), Vector(a))
ClusterArea(a, slot) == Area(clusterBlock(a) + slot * ClusterBytes, ClusterBytes)
LevelArea(a, slot) == Area(levelBlock(a) + slot * LevelBytes, LevelBytes)
EdgeArea(a, slot) == Area(edgeBlock(a) + slot * Edges(a), Edges(a))

(* The parts of a slot that the index of these arguments uses.             *)
Parts(a, slot) ==
    {IdArea(a, slot), FloatArea(a, slot)} \cup
    (IF a.index = "IVF" THEN {ClusterArea(a, slot)}
     ELSE {LevelArea(a, slot), EdgeArea(a, slot)})

Disjoint(x, y) == x.to <= y.from \/ y.to <= x.from

(* Writing the same content to some areas.                                 *)
Store(areas, what) ==
    extents' = {e \in extents: \A x \in areas: Disjoint(e, x)}
                 \cup {[from |-> x.from, to |-> x.to, what |-> what]: x \in areas}

Read(area) ==
    IF \E e \in extents: e.from = area.from /\ e.to = area.to
    THEN (CHOOSE e \in extents: e.from = area.from /\ e.to = area.to).what
    ELSE Noise

-----------------------------------------------------------------------------

(* What ftruncate leaves: zeros, which read as version 0 and as IVF.       *)
Zeros == [version |-> 0, count |-> 0, capacity |-> 0, dim |-> 0, k |-> 0,
          index |-> "IVF", M |-> 0, entry |-> "slot 0"]
CURRENT_VERSION == 4

Init ==
    /\ size = 0 /\ header = Zeros /\ extents = {}
    /\ pc = "down" /\ args = NoArgs /\ mapped = 0
    /\ made = NoArgs /\ stored = <<>> /\ cut = FALSE /\ foreign = FALSE
    /\ opens = 0

(* open, fstat, ftruncate, mmap, of a file that is not there.              *)
Create(a) ==
    /\ pc = "down" /\ size = 0 /\ opens < MaxOpens
    /\ size' = calc_required_size(a) /\ mapped' = calc_required_size(a)
    /\ args' = a /\ made' = a
    /\ pc' = "fields" /\ opens' = opens + 1
    /\ UNCHANGED <<header, extents, stored, cut, foreign>>

InitFields ==
    /\ pc = "fields" /\ pc' = "version"
    /\ header' = [header EXCEPT !.capacity = args.capacity, !.dim = args.dim]
    /\ UNCHANGED <<size, extents, args, mapped, made, stored, cut, foreign, opens>>

InitVersion ==
    /\ pc = "version" /\ pc' = "index"
    /\ header' = [header EXCEPT !.version = CURRENT_VERSION]
    /\ UNCHANGED <<size, extents, args, mapped, made, stored, cut, foreign, opens>>

InitIndex ==
    /\ pc = "index" /\ pc' = IF args.index = "HNSW" THEN "hnsw" ELSE "open"
    /\ header' = [header EXCEPT !.k = args.k, !.index = args.index]
    /\ UNCHANGED <<size, extents, args, mapped, made, stored, cut, foreign, opens>>

InitHnsw ==
    /\ pc = "hnsw" /\ pc' = "edges"
    /\ header' = [header EXCEPT !.M = args.M, !.entry = "EMPTY"]
    /\ UNCHANGED <<size, extents, args, mapped, made, stored, cut, foreign, opens>>

(* Mutant: the first slot's edges are left out. *)
InitEdgesButFirst ==
    /\ pc = "edges" /\ pc' = "open"
    /\ Store({EdgeArea(args, slot): slot \in 1..(args.capacity - 1)}, "EMPTY")
    /\ UNCHANGED <<size, header, args, mapped, made, stored, cut, foreign, opens>>

InitEdges ==
    /\ pc = "edges" /\ pc' = "open"
    /\ Store({EdgeArea(args, slot): slot \in 0..(args.capacity - 1)}, "EMPTY")
    /\ UNCHANGED <<size, header, args, mapped, made, stored, cut, foreign, opens>>

(* An existing file grows to what these arguments need, before its header  *)
(* is looked at; then version and dimension may refuse it.                 *)
Reopen(a) ==
    /\ pc = "down" /\ size # 0 /\ opens < MaxOpens
    /\ size' = IF size < calc_required_size(a) THEN calc_required_size(a) ELSE size
    /\ IF header.version = CURRENT_VERSION /\ header.dim = a.dim
       THEN pc' = "open" /\ args' = a /\ mapped' = calc_required_size(a)
       ELSE UNCHANGED <<pc, args, mapped>>
    /\ opens' = opens + 1
    /\ UNCHANGED <<header, extents, made, stored, cut, foreign>>

(* add_vector looks at the header's index, its pointers come from the      *)
(* arguments: a block the arguments do not have is a null pointer.         *)
NullPointer == header.index # args.index

Outside(areas) == \E x \in areas: x.to > mapped

(* Mutant: the count may pass the capacity by one. *)
FullTooLate == header.count > header.capacity

Full == header.count >= header.capacity

AddVector(id) ==
    LET slot == header.count
        areas == Parts(args, slot)
    IN
    /\ pc = "open" /\ ~Full /\ ~NullPointer /\ ~Outside(areas)
    /\ Store(areas, id)
    /\ header' = [header EXCEPT !.count = @ + 1]
    /\ stored' = Append(stored, id)
    /\ foreign' = (foreign \/ args # made)
    /\ UNCHANGED <<size, pc, args, mapped, made, cut, opens>>

(* The process dies of the null pointer: in add_vector, before the count,  *)
(* or, for want of HNSW's blocks, after it.                                *)
AddToNullPointer(id) ==
    LET areas == {IdArea(args, header.count), FloatArea(args, header.count)}
    IN
    /\ pc = "open" /\ ~Full /\ NullPointer /\ ~Outside(areas)
    /\ Store(areas, id)
    /\ IF args.index = "HNSW" THEN UNCHANGED <<header, stored>>
       ELSE header' = [header EXCEPT !.count = @ + 1] /\ stored' = Append(stored, id)
    /\ foreign' = (foreign \/ args # made)
    /\ pc' = "down" /\ args' = NoArgs /\ mapped' = 0
    /\ UNCHANGED <<size, made, cut, opens>>

(* A store past the mapping may hit anything: the model stops.             *)
AddOutside ==
    /\ pc = "open" /\ ~Full
    /\ Outside(IF NullPointer THEN {IdArea(args, header.count), FloatArea(args, header.count)}
               ELSE Parts(args, header.count))
    /\ pc' = "wild"
    /\ UNCHANGED <<size, header, extents, args, mapped, made, stored, cut, foreign, opens>>

(* The destructor: munmap of more than was mapped takes someone else's.    *)
Close ==
    /\ pc = "open"
    /\ pc' = IF Total(header) > mapped THEN "wild" ELSE "down"
    /\ args' = NoArgs /\ mapped' = 0
    /\ UNCHANGED <<size, header, extents, made, stored, cut, foreign, opens>>

Crash ==
    /\ pc \notin {"down", "wild"}
    /\ pc' = "down" /\ args' = NoArgs /\ mapped' = 0
    /\ cut' = (cut \/ pc \in {"index", "hnsw", "edges"})
    /\ UNCHANGED <<size, header, extents, made, stored, foreign, opens>>

Next ==
    \/ \E a \in Args: Create(a) \/ Reopen(a)
    \/ InitFields \/ InitVersion \/ InitIndex \/ InitHnsw \/ InitEdges
    \/ \E id \in Ids: AddVector(id) \/ AddToNullPointer(id)
    \/ AddOutside \/ Close \/ Crash

Spec == Init /\ [][Next]_vars

-----------------------------------------------------------------------------
(* Properties.                                                             *)

(* The file is as long as what is mapped of it, no slot beyond the header's *)
(* capacity is counted, and every extent lies in the file.                 *)
TypeOK ==
    /\ size \in Nat /\ mapped \in Nat /\ mapped <= size
    /\ header.count \in Nat /\ header.count <= header.capacity
    /\ header.version \in {0, CURRENT_VERSION}
    /\ args \in Args \cup {NoArgs} /\ made \in Args \cup {NoArgs}
    /\ \A e \in extents: HeaderBytes <= e.from /\ e.from <= e.to /\ e.to <= size

(* Opened with the arguments it was created with, a database finds every   *)
(* part of every counted slot where it was stored, whatever came before:   *)
(* crashes, openings refused or accepted with other arguments.             *)
ReadsBack(a) ==
    \A slot \in 0..(header.count - 1): \A area \in Parts(a, slot):
      Read(area) = stored[slot + 1]

SlotsReadBack == pc = "open" /\ args = made /\ ~foreign => ReadsBack(args)

(* The edges of the slots to come are EMPTY, or a search would follow them *)
(* to slot 0; only a crash inside the creation leaves them zero.           *)
EdgesStartEmpty ==
    pc = "open" /\ args = made /\ args.index = "HNSW" /\ ~foreign /\ ~cut =>
      /\ header.entry = "EMPTY"
      /\ \A slot \in header.count..(args.capacity - 1): Read(EdgeArea(args, slot)) = "EMPTY"

(* The destructor, which goes by the header, unmaps what the constructor,  *)
(* which goes by its arguments, has mapped.                                *)
UnmapsWhatWasMapped == pc = "open" /\ args = made /\ ~cut => Total(header) = mapped

(* A store, or the unmapping, leaves the mapping only if the database was  *)
(* opened with other arguments than it was created with.                   *)
StoresStayInside ==
    [][pc' = "wild" => args # made]_vars

(* docs/PROTOCOL.md: the arguments of a selection "are only used if the    *)
(* database doesn't exist yet".                                            *)
ArgumentsDoNotMatter == pc = "open" /\ ~foreign => ReadsBack(args)
=============================================================================
