-------------------------- MODULE StorageLayoutProofs --------------------------
(***************************************************************************)
(* Proofs about StorageLayout, for every set of arguments.                 *)
(***************************************************************************)
EXTENDS StorageLayout, TLAPS

-----------------------------------------------------------------------------
(* Arithmetic: a cell of w bytes, the s-th of a block that begins at b.    *)

LEMMA CellBelow ==
    ASSUME NEW s \in Nat, NEW n \in Nat, NEW w \in Nat, s < n
    PROVE  s * w + w <= n * w
  <1>1. PICK d \in Nat: n = s + 1 + d
    <2> n - s - 1 \in Nat /\ n = s + 1 + (n - s - 1)
      BY SMT
    <2> QED
      OBVIOUS
  <1>2. n * w = s * w + w + d * w /\ d * w \in Nat /\ s * w \in Nat
    BY <1>1, SMT
  <1> QED
    BY <1>2, SMT

LEMMA Cell ==
    ASSUME NEW b \in Nat, NEW w \in Nat, w > 0, NEW s \in Nat
    PROVE  LET x == Area(b + s * w, w) IN
           /\ x = [from |-> b + s * w, to |-> b + s * w + w]
           /\ x.from \in Nat /\ x.to \in Nat /\ b <= x.from /\ x.from < x.to
           /\ \A n \in Nat: s < n => x.to <= b + n * w
  <1>1. s * w \in Nat
    BY SMT
  <1>2. \A n \in Nat: s < n => n * w \in Nat /\ s * w + w <= n * w
    <2> TAKE n \in Nat
    <2> HAVE s < n
    <2> n * w \in Nat
      BY SMT
    <2> QED
      BY CellBelow
  <1> QED
    BY <1>1, <1>2, SMT DEF Area

(* The arguments of an opening, and what follows from them.                *)
LEMMA ArgsType ==
    ASSUME NEW a \in Args
    PROVE  /\ a.index \in {"IVF", "HNSW"}
           /\ a.dim \in Nat \ {0} /\ a.capacity \in Nat /\ a.k \in Nat /\ a.M \in Nat \ {0}
           /\ Vector(a) \in Nat /\ Vector(a) > 0
           /\ Edges(a) \in Nat /\ Edges(a) > 1
  <1>1. /\ a.index \in {"IVF", "HNSW"}
        /\ a.dim \in Nat \ {0} /\ a.capacity \in Nat /\ a.k \in Nat /\ a.M \in Nat \ {0}
    <2>1. \/ a \in [index: {"IVF"}, dim: Dims, capacity: Capacities, k: Ks, M: {16}]
          \/ a \in [index: {"HNSW"}, dim: Dims, capacity: Capacities, k: {100}, M: Ms]
      BY DEF Args
    <2>2. /\ a.index \in {"IVF", "HNSW"}
          /\ a.dim \in Dims /\ a.capacity \in Capacities
          /\ a.k \in Ks \/ a.k = 100
          /\ a.M \in Ms \/ a.M = 16
      BY <2>1, Zenon
    <2>3. a.dim \in Nat \ {0} /\ a.capacity \in Nat
      BY <2>2, LayoutAssumption, Zenon DEF LayoutAssumption
    <2>4. a.k \in Nat
      <3>1. 100 \in Nat
        BY SMT
      <3> QED
        BY <3>1, <2>2, LayoutAssumption, Zenon DEF LayoutAssumption
    <2>5. a.M \in Nat \ {0}
      <3>1. 16 \in Nat \ {0}
        BY SMT
      <3> QED
        BY <3>1, <2>2, LayoutAssumption, Zenon DEF LayoutAssumption
    <2> QED
      BY <2>2, <2>3, <2>4, <2>5
  <1>2. Vector(a) \in Nat /\ Vector(a) > 0 /\ Edges(a) \in Nat /\ Edges(a) > 1
    BY <1>1, SMT DEF Vector, Edges, edges_per_node, FloatBytes, EdgeBytes, MAX_LEVEL
  <1> QED
    BY <1>1, <1>2

(* The blocks follow each other and end where the file ends.               *)
LEMMA Blocks ==
    ASSUME NEW a \in Args
    PROVE  /\ clusterBlock(a) \in Nat /\ idBlock(a) \in Nat /\ floatBlock(a) \in Nat
           /\ levelBlock(a) \in Nat /\ edgeBlock(a) \in Nat
           /\ calc_required_size(a) \in Nat
           /\ clusterBlock(a) >= HeaderBytes /\ idBlock(a) >= HeaderBytes
           /\ a.index = "IVF" => /\ idBlock(a) = clusterBlock(a) + a.capacity * ClusterBytes
                                 /\ calc_required_size(a) = levelBlock(a)
           /\ floatBlock(a) = idBlock(a) + a.capacity * IdBytes
           /\ levelBlock(a) = floatBlock(a) + a.capacity * Vector(a)
           /\ edgeBlock(a) = levelBlock(a) + a.capacity * LevelBytes
           /\ a.index # "IVF" => calc_required_size(a) = edgeBlock(a) + a.capacity * Edges(a)
           /\ levelBlock(a) <= calc_required_size(a)
  <1> USE ArgsType
  <1>1. /\ a.k * Vector(a) \in Nat /\ a.capacity * Vector(a) \in Nat
        /\ a.capacity * Edges(a) \in Nat
    BY SMT
  <1> DEFINE kv == a.k * Vector(a)
             cv == a.capacity * Vector(a)
             ce == a.capacity * Edges(a)
  <1> HIDE DEF kv, cv, ce
  <1>2. kv \in Nat /\ cv \in Nat /\ ce \in Nat
    BY <1>1 DEF kv, cv, ce
  <1>3. /\ clusterBlock(a) = HeaderBytes + kv + a.k * CountBytes
        /\ idBlock(a) = IF a.index = "IVF" THEN clusterBlock(a) + a.capacity * ClusterBytes
                        ELSE HeaderBytes
        /\ floatBlock(a) = idBlock(a) + a.capacity * IdBytes
        /\ levelBlock(a) = floatBlock(a) + cv
        /\ edgeBlock(a) = levelBlock(a) + a.capacity * LevelBytes
        /\ calc_required_size(a) =
             HeaderBytes + a.capacity * IdBytes + cv +
             (IF a.index = "IVF"
              THEN kv + a.k * CountBytes + a.capacity * ClusterBytes
              ELSE a.capacity * LevelBytes + ce)
    BY DEF clusterBlock, idBlock, floatBlock, levelBlock, edgeBlock, calc_required_size,
           kv, cv, ce
  <1>4. /\ clusterBlock(a) \in Nat /\ clusterBlock(a) >= HeaderBytes
        /\ idBlock(a) \in Nat /\ idBlock(a) >= HeaderBytes
    BY <1>2, <1>3, SMT DEF HeaderBytes, CountBytes, ClusterBytes
  <1>5. floatBlock(a) \in Nat /\ levelBlock(a) \in Nat /\ edgeBlock(a) \in Nat
    BY <1>2, <1>3, <1>4, SMT DEF IdBytes, LevelBytes
  <1>6. CASE a.index = "IVF"
    <2>1. calc_required_size(a) = levelBlock(a)
      <3> DEFINE n == a.capacity  l == a.k
      <3>1. n \in Nat /\ l \in Nat
        OBVIOUS
      <3>2. /\ calc_required_size(a) =
                 128 + n * 8 + cv + (kv + l * 8 + n * 2)
            /\ levelBlock(a) = ((128 + kv + l * 8) + n * 2) + n * 8 + cv
        BY <1>3, <1>6 DEF HeaderBytes, IdBytes, CountBytes, ClusterBytes
      <3> HIDE DEF n, l
      <3> QED
        BY <1>2, <3>1, <3>2, SMT
    <2> QED
      BY <1>3, <1>4, <1>5, <1>6, <2>1, SMT DEF cv
  <1>7. CASE a.index # "IVF"
    <2>1. /\ calc_required_size(a) = edgeBlock(a) + ce
          /\ levelBlock(a) <= calc_required_size(a)
          /\ calc_required_size(a) \in Nat
      BY <1>2, <1>3, <1>7, SMT DEF HeaderBytes, IdBytes, LevelBytes
    <2> QED
      BY <1>3, <1>4, <1>5, <1>7, <2>1, SMT DEF cv, ce
  <1> QED
    BY <1>6, <1>7

(* An area of a slot is not empty, and within its block if the slot is     *)
(* below the capacity.                                                     *)
Within(x, from, to) == from <= x.from /\ x.to <= to

IsArea(x) == x.from \in Nat /\ x.to \in Nat /\ HeaderBytes <= x.from /\ x.from < x.to

LEMMA Places ==
    ASSUME NEW a \in Args, NEW s \in Nat
    PROVE  /\ IsArea(IdArea(a, s)) /\ IsArea(FloatArea(a, s)) /\ IsArea(ClusterArea(a, s))
           /\ IsArea(LevelArea(a, s)) /\ IsArea(EdgeArea(a, s))
           /\ s < a.capacity =>
                /\ Within(IdArea(a, s), idBlock(a), floatBlock(a))
                /\ Within(FloatArea(a, s), floatBlock(a), levelBlock(a))
                /\ a.index = "IVF" => Within(ClusterArea(a, s), clusterBlock(a), idBlock(a))
                /\ Within(LevelArea(a, s), levelBlock(a), edgeBlock(a))
                /\ a.index # "IVF" => Within(EdgeArea(a, s), edgeBlock(a), calc_required_size(a))
  <1>1. /\ IdBytes \in Nat /\ IdBytes > 0 /\ ClusterBytes \in Nat /\ ClusterBytes > 0
        /\ LevelBytes \in Nat /\ LevelBytes > 0 /\ HeaderBytes \in Nat
    BY SMT DEF IdBytes, ClusterBytes, LevelBytes, HeaderBytes
  <1>2. /\ floatBlock(a) >= HeaderBytes /\ levelBlock(a) >= HeaderBytes
        /\ edgeBlock(a) >= HeaderBytes
    <2>1. /\ a.capacity * IdBytes \in Nat /\ a.capacity * Vector(a) \in Nat
          /\ a.capacity * LevelBytes \in Nat
      BY <1>1, ArgsType, SMT
    <2> QED
      BY <1>1, <2>1, Blocks, SMT
  <1>3. IsArea(IdArea(a, s)) /\ (s < a.capacity => Within(IdArea(a, s), idBlock(a), floatBlock(a)))
    <2>1. LET x == IdArea(a, s) IN
          /\ x.from \in Nat /\ x.to \in Nat /\ idBlock(a) <= x.from /\ x.from < x.to
          /\ \A n \in Nat: s < n => x.to <= idBlock(a) + n * IdBytes
      BY <1>1, Blocks, Cell DEF IdArea
    <2> QED
      BY <1>1, <2>1, ArgsType, Blocks, SMT DEF IsArea, Within
  <1>4. IsArea(FloatArea(a, s)) /\ (s < a.capacity => Within(FloatArea(a, s), floatBlock(a), levelBlock(a)))
    <2>1. LET x == FloatArea(a, s) IN
          /\ x.from \in Nat /\ x.to \in Nat /\ floatBlock(a) <= x.from /\ x.from < x.to
          /\ \A n \in Nat: s < n => x.to <= floatBlock(a) + n * Vector(a)
      BY ArgsType, Blocks, Cell DEF FloatArea
    <2> QED
      BY <1>1, <1>2, <2>1, ArgsType, Blocks, SMT DEF IsArea, Within
  <1>5. /\ IsArea(ClusterArea(a, s))
        /\ a.index = "IVF" /\ s < a.capacity =>
             Within(ClusterArea(a, s), clusterBlock(a), idBlock(a))
    <2>1. LET x == ClusterArea(a, s) IN
          /\ x.from \in Nat /\ x.to \in Nat /\ clusterBlock(a) <= x.from /\ x.from < x.to
          /\ \A n \in Nat: s < n => x.to <= clusterBlock(a) + n * ClusterBytes
      BY <1>1, Blocks, Cell DEF ClusterArea
    <2>2. s < a.capacity => ClusterArea(a, s).to <= clusterBlock(a) + a.capacity * ClusterBytes
      BY <2>1, ArgsType
    <2> QED
      BY <1>1, <2>1, <2>2, ArgsType, Blocks, SMT DEF IsArea, Within
  <1>6. IsArea(LevelArea(a, s)) /\ (s < a.capacity => Within(LevelArea(a, s), levelBlock(a), edgeBlock(a)))
    <2>1. LET x == LevelArea(a, s) IN
          /\ x.from \in Nat /\ x.to \in Nat /\ levelBlock(a) <= x.from /\ x.from < x.to
          /\ \A n \in Nat: s < n => x.to <= levelBlock(a) + n * LevelBytes
      BY <1>1, Blocks, Cell DEF LevelArea
    <2>2. s < a.capacity => LevelArea(a, s).to <= levelBlock(a) + a.capacity * LevelBytes
      BY <2>1, ArgsType
    <2> QED
      BY <1>1, <1>2, <2>1, <2>2, ArgsType, Blocks, SMT DEF IsArea, Within
  <1>7. /\ IsArea(EdgeArea(a, s))
        /\ a.index # "IVF" /\ s < a.capacity =>
             Within(EdgeArea(a, s), edgeBlock(a), calc_required_size(a))
    <2>0. Edges(a) > 0
      BY ArgsType, SMT
    <2>1. LET x == EdgeArea(a, s) IN
          /\ x.from \in Nat /\ x.to \in Nat /\ edgeBlock(a) <= x.from /\ x.from < x.to
          /\ \A n \in Nat: s < n => x.to <= edgeBlock(a) + n * Edges(a)
      BY <2>0, ArgsType, Blocks, Cell DEF EdgeArea
    <2> QED
      BY <1>1, <1>2, <2>1, ArgsType, Blocks, SMT DEF IsArea, Within
  <1> QED
    BY <1>3, <1>4, <1>5, <1>6, <1>7

(* Two areas of one block belong to the same slot or are apart.            *)
LEMMA CellsApart ==
    ASSUME NEW b \in Nat, NEW w \in Nat, w > 0, NEW s \in Nat, NEW t \in Nat, s # t
    PROVE  Disjoint(Area(b + s * w, w), Area(b + t * w, w))
  <1>1. ASSUME NEW u \in Nat, NEW v \in Nat, u < v
        PROVE  Area(b + u * w, w).to <= b + v * w /\ Area(b + v * w, w).from = b + v * w
    <2>1. \A n \in Nat: u < n => Area(b + u * w, w).to <= b + n * w
      BY Cell
    <2>2. Area(b + v * w, w) = [from |-> b + v * w, to |-> b + v * w + w]
      BY Cell
    <2>3. Area(b + v * w, w).from = b + v * w
      BY <2>2
    <2>4. Area(b + u * w, w).to <= b + v * w
      BY <1>1, <2>1
    <2> QED
      BY <2>3, <2>4
  <1>2. s < t \/ t < s
    BY SMT
  <1>3. CASE s < t
    BY <1>1, <1>3 DEF Disjoint
  <1>4. CASE t < s
    BY <1>1, <1>4 DEF Disjoint
  <1> QED
    BY <1>2, <1>3, <1>4

LEMMA PartsAreAreas ==
    ASSUME NEW a \in Args, NEW s \in Nat, NEW x \in Parts(a, s)
    PROVE  IsArea(x) /\ (s < a.capacity => x.to <= calc_required_size(a))
  <1>1. IsArea(x)
    BY Places DEF Parts
  <1>2. ASSUME s < a.capacity PROVE x.to <= calc_required_size(a)
    <2>1. floatBlock(a) <= levelBlock(a) /\ idBlock(a) <= floatBlock(a)
      <3>1. a.capacity * IdBytes \in Nat /\ a.capacity * Vector(a) \in Nat
        BY ArgsType, SMT DEF IdBytes
      <3> QED
        BY <3>1, Blocks, SMT
    <2>2. CASE a.index = "IVF"
      <3>1. x \in {IdArea(a, s), FloatArea(a, s), ClusterArea(a, s)}
        BY <2>2 DEF Parts
      <3>2. x.to <= floatBlock(a) \/ x.to <= levelBlock(a) \/ x.to <= idBlock(a)
        BY <1>2, <2>2, <3>1, Places, Zenon DEF Within
      <3> QED
        BY <1>1, <2>1, <3>2, Blocks, SMT DEF IsArea
    <2>3. CASE a.index # "IVF"
      <3>1. x \in {IdArea(a, s), FloatArea(a, s), LevelArea(a, s), EdgeArea(a, s)}
        BY <2>3 DEF Parts
      <3>2. \/ x.to <= floatBlock(a) \/ x.to <= levelBlock(a) \/ x.to <= edgeBlock(a)
            \/ x.to <= calc_required_size(a)
        BY <1>2, <2>3, <3>1, Places, Zenon DEF Within
      <3>3. edgeBlock(a) <= calc_required_size(a)
        <4>1. a.capacity * Edges(a) \in Nat
          BY ArgsType, SMT
        <4> QED
          BY <2>3, <4>1, Blocks, SMT
      <3> QED
        BY <1>1, <2>1, <3>2, <3>3, Blocks, SMT DEF IsArea
    <2> QED
      BY <2>2, <2>3
  <1> QED
    BY <1>1, <1>2

(* No two parts of slots share a byte: the places of a layout are apart.   *)
LEMMA PartsApart ==
    ASSUME NEW a \in Args, NEW s \in Nat, NEW t \in Nat,
           s < a.capacity, t < a.capacity,
           NEW x \in Parts(a, s), NEW y \in Parts(a, t)
    PROVE  (s = t /\ x = y) \/ Disjoint(x, y)
  <1>1. /\ s # t => /\ Disjoint(IdArea(a, s), IdArea(a, t))
                    /\ Disjoint(FloatArea(a, s), FloatArea(a, t))
                    /\ Disjoint(ClusterArea(a, s), ClusterArea(a, t))
                    /\ Disjoint(LevelArea(a, s), LevelArea(a, t))
                    /\ Disjoint(EdgeArea(a, s), EdgeArea(a, t))
    <2>1. /\ IdBytes \in Nat /\ IdBytes > 0 /\ ClusterBytes \in Nat /\ ClusterBytes > 0
          /\ LevelBytes \in Nat /\ LevelBytes > 0 /\ Edges(a) > 0
      BY ArgsType, SMT DEF IdBytes, ClusterBytes, LevelBytes
    <2> QED
      BY <2>1, ArgsType, Blocks, CellsApart
         DEF IdArea, FloatArea, ClusterArea, LevelArea, EdgeArea
  <1> DEFINE F == floatBlock(a)  L == levelBlock(a)
             G == edgeBlock(a)   I == idBlock(a)
  <1>2. /\ F \in Nat /\ L \in Nat /\ G \in Nat /\ I \in Nat /\ I <= F /\ F <= L /\ L <= G
    <2>1. /\ a.capacity * IdBytes \in Nat /\ a.capacity * Vector(a) \in Nat
          /\ a.capacity * LevelBytes \in Nat
      BY ArgsType, SMT DEF IdBytes, LevelBytes
    <2> QED
      BY <2>1, Blocks, SMT
  <1>3. IsArea(x) /\ IsArea(y)
    BY PartsAreAreas
  <1> HIDE DEF F, L, G, I
  <1>4. CASE a.index = "IVF"
    <2>1. /\ x = IdArea(a, s) \/ x = FloatArea(a, s) \/ x = ClusterArea(a, s)
          /\ y = IdArea(a, t) \/ y = FloatArea(a, t) \/ y = ClusterArea(a, t)
      BY <1>4 DEF Parts
    <2>2. \A u \in {s, t}: /\ I <= IdArea(a, u).from /\ IdArea(a, u).to <= F
                           /\ F <= FloatArea(a, u).from /\ FloatArea(a, u).to <= L
                           /\ ClusterArea(a, u).to <= I
      BY <1>4, Places DEF Within, F, L, I
    <2>3. \/ x = IdArea(a, s) /\ y = IdArea(a, t)
          \/ x = FloatArea(a, s) /\ y = FloatArea(a, t)
          \/ x = ClusterArea(a, s) /\ y = ClusterArea(a, t)
          \/ (x.to <= F /\ F <= y.from) \/ (y.to <= F /\ F <= x.from)
          \/ (x.to <= I /\ I <= y.from) \/ (y.to <= I /\ I <= x.from)
          \/ (x.to <= I /\ F <= y.from) \/ (y.to <= I /\ F <= x.from)
      BY <2>1, <2>2, Zenon
    <2>4. \/ x = IdArea(a, s) /\ y = IdArea(a, t)
          \/ x = FloatArea(a, s) /\ y = FloatArea(a, t)
          \/ x = ClusterArea(a, s) /\ y = ClusterArea(a, t)
          \/ Disjoint(x, y)
      BY <1>2, <1>3, <2>3, SMT DEF Disjoint, IsArea
    <2> QED
      BY <1>1, <2>4
  <1>5. CASE a.index # "IVF"
    <2>1. /\ x = IdArea(a, s) \/ x = FloatArea(a, s) \/ x = LevelArea(a, s) \/ x = EdgeArea(a, s)
          /\ y = IdArea(a, t) \/ y = FloatArea(a, t) \/ y = LevelArea(a, t) \/ y = EdgeArea(a, t)
      BY <1>5 DEF Parts
    <2>2. \A u \in {s, t}: /\ IdArea(a, u).to <= F
                           /\ F <= FloatArea(a, u).from /\ FloatArea(a, u).to <= L
                           /\ L <= LevelArea(a, u).from /\ LevelArea(a, u).to <= G
                           /\ G <= EdgeArea(a, u).from
      BY <1>5, Places DEF Within, F, L, G
    <2>3. \/ x = IdArea(a, s) /\ y = IdArea(a, t)
          \/ x = FloatArea(a, s) /\ y = FloatArea(a, t)
          \/ x = LevelArea(a, s) /\ y = LevelArea(a, t)
          \/ x = EdgeArea(a, s) /\ y = EdgeArea(a, t)
          \/ \E p \in {F, L, G}, q \in {F, L, G}:
               p <= q /\ ((x.to <= p /\ q <= y.from) \/ (y.to <= p /\ q <= x.from))
      <3>1. F <= F /\ L <= L /\ G <= G /\ F <= L /\ L <= G /\ F <= G
        BY <1>2, SMT
      <3> QED
        BY <2>1, <2>2, <3>1, Zenon
    <2>4. \/ x = IdArea(a, s) /\ y = IdArea(a, t)
          \/ x = FloatArea(a, s) /\ y = FloatArea(a, t)
          \/ x = LevelArea(a, s) /\ y = LevelArea(a, t)
          \/ x = EdgeArea(a, s) /\ y = EdgeArea(a, t)
          \/ Disjoint(x, y)
      BY <1>2, <1>3, <2>3, SMT DEF Disjoint, IsArea
    <2> QED
      BY <1>1, <2>4
  <1> QED
    BY <1>4, <1>5

-----------------------------------------------------------------------------
(* The inductive invariant.                                                *)

Header == [version: {0, CURRENT_VERSION}, count: Nat, capacity: Nat, dim: Nat, k: Nat,
           index: {"IVF", "HNSW"}, M: Nat, entry: {"slot 0", "EMPTY"}]

Creating == pc \in {"fields", "version", "index", "hnsw", "edges"}

Shape ==
    /\ size \in Nat /\ mapped \in Nat /\ mapped <= size
    /\ header \in Header /\ header.count <= header.capacity
    /\ Creating \/ pc \in {"down", "open", "wild"}
    /\ args \in Args \cup {NoArgs} /\ made \in Args \cup {NoArgs}
    /\ cut \in BOOLEAN /\ foreign \in BOOLEAN
    /\ \A e \in extents: IsArea(e) /\ e.to <= size
    /\ stored \in Seq(Ids) /\ Len(stored) = header.count

(* An opening maps what its arguments need; the creation goes by the       *)
(* arguments that are remembered, on a file that holds nothing.            *)
Opened ==
    /\ Creating \/ pc = "open" => args \in Args /\ mapped = calc_required_size(args)
    /\ Creating => args = made /\ header.count = 0 /\ ~cut
    /\ pc \in {"hnsw", "edges"} => made.index = "HNSW"
    /\ size # 0 => made \in Args
    /\ size = 0 => pc = "down" /\ header = Zeros /\ extents = {} /\ ~cut

(* What the header says of the creation, at any point of it.               *)
Written ==
    /\ header.version = 0 =>
         header.k = 0 /\ header.index = "IVF" /\ header.M = 0 /\ header.count = 0
    /\ header.version = CURRENT_VERSION =>
         /\ made \in Args /\ header.capacity = made.capacity /\ header.dim = made.dim
         /\ \/ header.k = 0 /\ header.index = "IVF" /\ header.M = 0
            \/ header.k = made.k /\ header.index = made.index /\ header.M \in {0, made.M}
         /\ ~cut /\ pc # "index" => header.k = made.k /\ header.index = made.index
         /\ ~cut /\ pc \notin {"index", "hnsw"} /\ made.index = "HNSW" =>
              header.M = made.M /\ header.entry = "EMPTY"
    /\ pc = "version" => header.capacity = args.capacity /\ header.dim = args.dim
    /\ pc \in {"fields", "version"} => header.version = 0
    /\ pc \in {"index", "hnsw", "edges", "open"} => header.version = CURRENT_VERSION

(* What the blocks hold, if only the arguments of the creation were used.  *)
Holds(E, area, what) == \E e \in E: e.from = area.from /\ e.to = area.to /\ e.what = what

Apart == \A e, f \in extents: e = f \/ Disjoint(e, f)

SlotsHold ==
    made \in Args =>
      \A slot \in Nat: slot < header.count =>
        \A area \in Parts(made, slot): Holds(extents, area, stored[slot + 1])

EdgesHold ==
    made \in Args /\ made.index = "HNSW" /\ ~cut /\ ~Creating /\ header.version = CURRENT_VERSION =>
      \A slot \in Nat: header.count <= slot /\ slot < made.capacity =>
        Holds(extents, EdgeArea(made, slot), "EMPTY")

Content == ~foreign => Apart /\ SlotsHold /\ EdgesHold

IInv == Shape /\ Opened /\ Written /\ Content

-----------------------------------------------------------------------------
(* Stores.                                                                 *)

(* A store that is apart from an extent leaves it.                         *)
LEMMA StoreKeeps ==
    ASSUME NEW areas, NEW what, Store(areas, what),
           NEW area, NEW w, Holds(extents, area, w), \A x \in areas: Disjoint(area, x)
    PROVE  Holds(extents', area, w)
  <1>1. PICK e \in extents: e.from = area.from /\ e.to = area.to /\ e.what = w
    BY DEF Holds
  <1>2. \A x \in areas: Disjoint(e, x)
    BY <1>1 DEF Disjoint
  <1>3. e \in extents'
    BY <1>2 DEF Store
  <1> QED
    BY <1>1, <1>3 DEF Holds

(* What was stored is there.                                               *)
LEMMA StoreWrites ==
    ASSUME NEW areas, NEW what, Store(areas, what), NEW area \in areas
    PROVE  Holds(extents', area, what)
  <1>1. [from |-> area.from, to |-> area.to, what |-> what] \in extents'
    BY DEF Store
  <1> QED
    BY <1>1 DEF Holds

LEMMA StoreApart ==
    ASSUME NEW areas, NEW what, Store(areas, what), Apart,
           \A x, y \in areas: x = y \/ Disjoint(x, y)
    PROVE  Apart'
  <1> SUFFICES ASSUME NEW e \in extents', NEW f \in extents' PROVE e = f \/ Disjoint(e, f)
    BY DEF Apart
  <1> DEFINE Kept(g) == g \in extents /\ \A x \in areas: Disjoint(g, x)
             New(g, x) == x \in areas /\ g = [from |-> x.from, to |-> x.to, what |-> what]
  <1>1. /\ Kept(e) \/ \E x \in areas: New(e, x)
        /\ Kept(f) \/ \E x \in areas: New(f, x)
    BY DEF Store
  <1>2. ASSUME Kept(e), Kept(f) PROVE e = f \/ Disjoint(e, f)
    BY <1>2 DEF Apart
  <1>3. ASSUME NEW g, NEW h, NEW x, Kept(g), New(h, x) PROVE Disjoint(g, h) /\ Disjoint(h, g)
    <2>1. Disjoint(g, x) /\ h.from = x.from /\ h.to = x.to
      BY <1>3
    <2> QED
      BY <2>1, Zenon DEF Disjoint
  <1>4. ASSUME NEW x, NEW y, New(e, x), New(f, y) PROVE e = f \/ Disjoint(e, f)
    <2>1. x = y \/ Disjoint(x, y)
      BY <1>4
    <2>2. CASE x = y
      BY <1>4, <2>2
    <2>3. CASE Disjoint(x, y)
      <3>1. e.from = x.from /\ e.to = x.to /\ f.from = y.from /\ f.to = y.to
        BY <1>4
      <3> QED
        BY <2>3, <3>1, Zenon DEF Disjoint
    <2> QED
      BY <2>1, <2>2, <2>3
  <1> HIDE DEF Kept, New
  <1> QED
    BY <1>1, <1>2, <1>3, <1>4, Zenon

(* A store within the file leaves the extents within the file.             *)
LEMMA StoreInside ==
    ASSUME NEW areas, NEW what, Store(areas, what), NEW n, NEW m,
           n \in Nat, m \in Nat, n <= m,
           \A e \in extents: IsArea(e) /\ e.to <= n,
           \A x \in areas: IsArea(x) /\ x.to <= m
    PROVE  \A e \in extents': IsArea(e) /\ e.to <= m
  <1> SUFFICES ASSUME NEW e \in extents' PROVE IsArea(e) /\ e.to <= m
    OBVIOUS
  <1>1. CASE e \in extents
    BY <1>1, SMT DEF IsArea
  <1>2. CASE e \notin extents
    <2>1. PICK x \in areas: e = [from |-> x.from, to |-> x.to, what |-> what]
      BY <1>2 DEF Store
    <2>2. e.from = x.from /\ e.to = x.to
      BY <2>1
    <2> QED
      BY <2>2 DEF IsArea
  <1> QED
    BY <1>1, <1>2

(* Reading a place that holds something returns it.                        *)
LEMMA ReadHolds ==
    ASSUME Apart, \A e \in extents: IsArea(e), NEW area, NEW what, Holds(extents, area, what)
    PROVE  Read(area) = what
  <1> DEFINE At(e) == e.from = area.from /\ e.to = area.to
             r == CHOOSE e \in extents: At(e)
  <1>1. PICK e \in extents: At(e) /\ e.what = what
    BY DEF Holds
  <1>2. r \in extents /\ At(r)
    BY <1>1
  <1>3. r = e
    <2>1. r = e \/ Disjoint(r, e)
      BY <1>1, <1>2 DEF Apart
    <2>2. IsArea(e)
      BY <1>1
    <2>3. ~Disjoint(r, e)
      <3>1. r.from = e.from /\ r.to = e.to
        BY <1>1, <1>2
      <3>2. ~(e.to <= e.from)
        BY <2>2, SMT DEF IsArea
      <3> QED
        BY <3>1, <3>2, Zenon DEF Disjoint
    <2> QED
      BY <2>1, <2>3
  <1>4. Read(area) = r.what
    BY <1>1 DEF Read
  <1> QED
    BY <1>1, <1>3, <1>4

-----------------------------------------------------------------------------
(* The invariant holds at the beginning and is kept by every step.         *)

LEMMA InitInvariant == Init => IInv
  <1> SUFFICES ASSUME Init PROVE IInv
    OBVIOUS
  <1> USE DEF Init
  <1>0. 0 \in Nat /\ 0 # CURRENT_VERSION
    BY SMT DEF CURRENT_VERSION
  <1>1. Shape
    <2>1. header \in Header /\ header.count = 0 /\ header.capacity = 0
      BY <1>0, Zenon DEF Header, Zeros
    <2>2. stored \in Seq(Ids) /\ Len(stored) = 0
      BY SMT
    <2> QED
      <3>1. size \in Nat /\ mapped \in Nat /\ mapped <= size /\ header.count <= header.capacity
        BY <2>1, SMT
      <3> QED
        BY <2>1, <2>2, <3>1 DEF Shape
  <1>2. Opened
    BY SMT DEF Opened, Creating
  <1>3. Written
    BY <1>0, Zenon DEF Written, Zeros
  <1>4. Content
    BY NoArgsAssumption DEF Content, Apart, SlotsHold, EdgesHold
  <1> QED
    BY <1>1, <1>2, <1>3, <1>4 DEF IInv

(* What an insertion knows of its slot's places.                           *)
LEMMA PartsOfCount ==
    ASSUME IInv, pc = "open"
    PROVE  /\ args \in Args /\ header.count \in Nat
           /\ \A x \in Parts(args, header.count): IsArea(x)
           /\ IdArea(args, header.count) \in Parts(args, header.count)
           /\ FloatArea(args, header.count) \in Parts(args, header.count)
           /\ ~Outside(Parts(args, header.count)) =>
                \A x \in Parts(args, header.count): x.to <= size
           /\ ~Outside({IdArea(args, header.count), FloatArea(args, header.count)}) =>
                \A x \in {IdArea(args, header.count), FloatArea(args, header.count)}: x.to <= size
  <1>1. args \in Args /\ header.count \in Nat
    BY DEF IInv, Opened, Shape, Header
  <1>2. \A x \in Parts(args, header.count): IsArea(x)
    BY <1>1, PartsAreAreas
  <1>3. /\ IdArea(args, header.count) \in Parts(args, header.count)
        /\ FloatArea(args, header.count) \in Parts(args, header.count)
    BY DEF Parts
  <1>4. mapped \in Nat /\ size \in Nat /\ mapped <= size
    BY DEF IInv, Shape
  <1>5. \A x: IsArea(x) /\ ~(x.to > mapped) => x.to <= size
    BY <1>4, SMT DEF IsArea
  <1> QED
    BY <1>1, <1>2, <1>3, <1>5, Zenon DEF Outside

LEMMA ShapeStep ==
    ASSUME IInv, [Next]_vars
    PROVE  Shape'
  <1> USE DEF IInv
  <1>0. /\ size \in Nat /\ mapped \in Nat /\ mapped <= size
        /\ header \in Header /\ header.count <= header.capacity
        /\ Creating \/ pc \in {"down", "open", "wild"}
        /\ args \in Args \cup {NoArgs} /\ made \in Args \cup {NoArgs}
        /\ cut \in BOOLEAN /\ foreign \in BOOLEAN
        /\ \A e \in extents: IsArea(e) /\ e.to <= size
        /\ stored \in Seq(Ids) /\ Len(stored) = header.count
    BY DEF Shape
  <1>1. ASSUME NEW a \in Args, Create(a) PROVE Shape'
    <2>1. extents = {}
      BY <1>1 DEF Opened, Create
    <2>2. calc_required_size(a) \in Nat /\ calc_required_size(a) <= calc_required_size(a)
      BY Blocks, SMT
    <2> QED
      BY <1>0, <1>1, <2>1, <2>2 DEF Shape, Create, Creating
  <1>2. ASSUME NEW a \in Args, Reopen(a) PROVE Shape'
    <2>1. calc_required_size(a) \in Nat
      BY Blocks
    <2>2. size' \in Nat /\ size <= size' /\ calc_required_size(a) <= size'
      BY <1>0, <1>2, <2>1, SMT DEF Reopen
    <2>3. \A e \in extents': IsArea(e) /\ e.to <= size'
      BY <1>0, <1>2, <2>2, SMT DEF Reopen, IsArea
    <2>4. mapped' \in Nat /\ mapped' <= size'
      <3>1. mapped' = calc_required_size(a) \/ mapped' = mapped
        BY <1>2 DEF Reopen
      <3> QED
        BY <1>0, <2>1, <2>2, <3>1, SMT
    <2>5. /\ (Creating \/ pc \in {"down", "open", "wild"})'
          /\ args' \in Args \cup {NoArgs}
      BY <1>0, <1>2 DEF Reopen, Creating
    <2> QED
      BY <1>0, <1>2, <2>2, <2>3, <2>4, <2>5 DEF Shape, Reopen
  <1>3. CASE InitFields
    <2>1. args \in Args /\ header.count = 0
      BY <1>3 DEF InitFields, Opened, Creating
    <2>2. args.capacity \in Nat /\ args.dim \in Nat
      BY <2>1, ArgsType
    <2>3. header' \in Header /\ header'.count = 0 /\ header'.capacity = args.capacity
      BY <1>0, <1>3, <2>1, <2>2 DEF InitFields, Header
    <2>4. header'.count <= header'.capacity
      BY <2>2, <2>3, SMT
    <2> QED
      BY <1>0, <1>3, <2>1, <2>3, <2>4 DEF Shape, InitFields, Creating
  <1>4. CASE InitVersion
    <2>1. header' \in Header /\ header'.count = header.count /\ header'.capacity = header.capacity
      BY <1>0, <1>4 DEF InitVersion, Header
    <2> QED
      BY <1>0, <1>4, <2>1 DEF Shape, InitVersion, Creating
  <1>5. CASE InitIndex
    <2>1. args.index \in {"IVF", "HNSW"} /\ args.k \in Nat
      BY <1>5, ArgsType DEF InitIndex, Opened, Creating
    <2>2. header' \in Header /\ header'.count = header.count /\ header'.capacity = header.capacity
      BY <1>0, <1>5, <2>1 DEF InitIndex, Header
    <2> QED
      BY <1>0, <1>5, <2>2 DEF Shape, InitIndex, Creating
  <1>6. CASE InitHnsw
    <2>1. args.M \in Nat
      BY <1>6, ArgsType DEF InitHnsw, Opened, Creating
    <2>2. header' \in Header /\ header'.count = header.count /\ header'.capacity = header.capacity
      BY <1>0, <1>6, <2>1 DEF InitHnsw, Header
    <2> QED
      BY <1>0, <1>6, <2>2 DEF Shape, InitHnsw, Creating
  <1>7. CASE InitEdges
    <2> DEFINE edges == {EdgeArea(args, slot): slot \in 0..(args.capacity - 1)}
    <2>1. /\ args \in Args /\ args = made /\ mapped = calc_required_size(args)
          /\ header.version = CURRENT_VERSION
      BY <1>7 DEF InitEdges, Opened, Written, Creating
    <2>2. args.index = "HNSW"
      BY <1>7, <2>1 DEF InitEdges, Opened
    <2>3. \A x \in edges: IsArea(x) /\ x.to <= size
      <3> SUFFICES ASSUME NEW slot \in 0..(args.capacity - 1)
                   PROVE  IsArea(EdgeArea(args, slot)) /\ EdgeArea(args, slot).to <= size
        OBVIOUS
      <3>1. slot \in Nat /\ slot < args.capacity
        BY <2>1, ArgsType, SMT
      <3>2. EdgeArea(args, slot) \in Parts(args, slot)
        BY <2>2 DEF Parts
      <3>3. IsArea(EdgeArea(args, slot)) /\ EdgeArea(args, slot).to <= mapped
        BY <2>1, <3>1, <3>2, PartsAreAreas
      <3> QED
        BY <1>0, <3>3, SMT DEF IsArea
    <2>4. Store(edges, "EMPTY")
      BY <1>7 DEF InitEdges
    <2> HIDE DEF edges
    <2>5. size <= size
      BY <1>0, SMT
    <2>6. \A e \in extents': IsArea(e) /\ e.to <= size
      BY <1>0, <2>3, <2>4, <2>5, StoreInside
    <2> QED
      BY <1>0, <1>7, <2>6 DEF Shape, InitEdges, Creating
  <1>8. ASSUME NEW id \in Ids, AddVector(id) PROVE Shape'
    <2> DEFINE areas == Parts(args, header.count)
    <2>1. Store(areas, id) /\ ~Outside(areas) /\ pc = "open" /\ ~Full
      BY <1>8 DEF AddVector
    <2>2. \A x \in areas: IsArea(x) /\ x.to <= size
      BY <2>1, PartsOfCount
    <2> HIDE DEF areas
    <2>3. size <= size
      BY <1>0, SMT
    <2>4. \A e \in extents': IsArea(e) /\ e.to <= size
      BY <1>0, <2>1, <2>2, <2>3, StoreInside
    <2>5. header.count \in Nat /\ header.capacity \in Nat
      BY <1>0 DEF Header
    <2>6. header.count + 1 \in Nat /\ header.count + 1 <= header.capacity
      BY <2>1, <2>5, SMT DEF Full
    <2>7. header' \in Header /\ header'.count = header.count + 1 /\ header'.capacity = header.capacity
      BY <1>0, <1>8, <2>6 DEF AddVector, Header
    <2>8. stored' \in Seq(Ids) /\ Len(stored') = header.count + 1
      BY <1>0, <1>8, <2>5, SMT DEF AddVector
    <2> QED
      BY <1>0, <1>8, <2>4, <2>6, <2>7, <2>8 DEF Shape, AddVector, Creating
  <1>9. ASSUME NEW id \in Ids, AddToNullPointer(id) PROVE Shape'
    <2> DEFINE areas == {IdArea(args, header.count), FloatArea(args, header.count)}
    <2>1. Store(areas, id) /\ ~Outside(areas) /\ pc = "open" /\ ~Full
      BY <1>9 DEF AddToNullPointer
    <2>2. \A x \in areas: IsArea(x) /\ x.to <= size
      BY <2>1, PartsOfCount
    <2> HIDE DEF areas
    <2>3. size <= size /\ 0 \in Nat /\ 0 <= size
      BY <1>0, SMT
    <2>4. \A e \in extents': IsArea(e) /\ e.to <= size
      BY <1>0, <2>1, <2>2, <2>3, StoreInside
    <2>5. header.count \in Nat /\ header.capacity \in Nat
      BY <1>0 DEF Header
    <2>6. header.count + 1 \in Nat /\ header.count + 1 <= header.capacity
      BY <2>1, <2>5, SMT DEF Full
    <2>7. CASE args.index = "HNSW"
      BY <1>0, <1>9, <2>3, <2>4, <2>7 DEF Shape, AddToNullPointer, Creating
    <2>8. CASE args.index # "HNSW"
      <3>1. header' = [header EXCEPT !.count = @ + 1] /\ stored' = Append(stored, id)
        BY <1>9, <2>8 DEF AddToNullPointer
      <3>2. header' \in Header /\ header'.count = header.count + 1 /\ header'.capacity = header.capacity
        BY <1>0, <2>6, <3>1 DEF Header
      <3>3. stored' \in Seq(Ids) /\ Len(stored') = header.count + 1
        BY <1>0, <2>5, <3>1, SMT
      <3> QED
        BY <1>0, <1>9, <2>3, <2>4, <2>6, <3>2, <3>3 DEF Shape, AddToNullPointer, Creating
    <2> QED
      BY <2>7, <2>8
  <1>10. CASE AddOutside
    BY <1>0, <1>10 DEF Shape, AddOutside
  <1>11. CASE Close
    <2>1. 0 \in Nat /\ 0 <= size
      BY <1>0, SMT
    <2> QED
      BY <1>0, <1>11, <2>1 DEF Shape, Close
  <1>12. CASE Crash
    <2>1. 0 \in Nat /\ 0 <= size
      BY <1>0, SMT
    <2> QED
      BY <1>0, <1>12, <2>1 DEF Shape, Crash
  <1>13. CASE UNCHANGED vars
    BY <1>0, <1>13 DEF Shape, vars, Creating
  <1> QED
    BY <1>1, <1>2, <1>3, <1>4, <1>5, <1>6, <1>7, <1>8, <1>9, <1>10, <1>11, <1>12, <1>13
       DEF Next

LEMMA OpenedStep ==
    ASSUME IInv, [Next]_vars
    PROVE  Opened'
  <1> USE DEF IInv
  <1>1. ASSUME NEW a \in Args, Create(a) PROVE Opened'
    <2>1. header = Zeros /\ ~cut
      BY <1>1 DEF Opened, Create
    <2>2. header.count = 0
      BY <2>1 DEF Zeros
    <2>3. calc_required_size(a) # 0
      <3>1. a.capacity * Vector(a) \in Nat
        BY ArgsType, SMT
      <3>2. a.capacity * IdBytes \in Nat
        BY ArgsType, SMT DEF IdBytes
      <3> QED
        BY <3>1, <3>2, Blocks, SMT DEF HeaderBytes
    <2> QED
      BY <1>1, <2>1, <2>2, <2>3 DEF Opened, Create, Creating
  <1>2. ASSUME NEW a \in Args, Reopen(a) PROVE Opened'
    <2>1. size' # 0
      <3>1. size \in Nat /\ calc_required_size(a) \in Nat /\ size # 0
        BY <1>2, Blocks DEF Shape, Reopen
      <3> QED
        BY <1>2, <3>1, SMT DEF Reopen
    <2> QED
      BY <1>2, <2>1 DEF Opened, Reopen, Creating
  <1>3. CASE InitFields
    <2>1. header'.count = header.count
      BY <1>3 DEF InitFields, Shape, Header
    <2> QED
      BY <1>3, <2>1 DEF Opened, InitFields, Creating
  <1>4. CASE InitVersion
    <2>1. header'.count = header.count
      BY <1>4 DEF InitVersion, Shape, Header
    <2> QED
      BY <1>4, <2>1 DEF Opened, InitVersion, Creating
  <1>5. CASE InitIndex
    <2>1. header'.count = header.count
      BY <1>5 DEF InitIndex, Shape, Header
    <2> QED
      BY <1>5, <2>1 DEF Opened, InitIndex, Creating
  <1>6. CASE InitHnsw
    <2>1. header'.count = header.count
      BY <1>6 DEF InitHnsw, Shape, Header
    <2> QED
      BY <1>6, <2>1 DEF Opened, InitHnsw, Creating
  <1>7. CASE InitEdges
    BY <1>7 DEF Opened, InitEdges, Creating
  <1>8. ASSUME NEW id \in Ids, AddVector(id) PROVE Opened'
    BY <1>8 DEF Opened, AddVector, Creating
  <1>9. ASSUME NEW id \in Ids, AddToNullPointer(id) PROVE Opened'
    BY <1>9 DEF Opened, AddToNullPointer, Creating
  <1>10. CASE AddOutside
    BY <1>10 DEF Opened, AddOutside, Creating
  <1>11. CASE Close
    BY <1>11 DEF Opened, Close, Creating
  <1>12. CASE Crash
    BY <1>12 DEF Opened, Crash, Creating
  <1>13. CASE UNCHANGED vars
    BY <1>13 DEF Opened, vars, Creating
  <1> QED
    BY <1>1, <1>2, <1>3, <1>4, <1>5, <1>6, <1>7, <1>8, <1>9, <1>10, <1>11, <1>12, <1>13
       DEF Next

LEMMA WrittenStep ==
    ASSUME IInv, [Next]_vars
    PROVE  Written'
  <1> USE DEF IInv
  <1>0. /\ header \in Header /\ 0 # CURRENT_VERSION
        /\ header.version = 0 \/ header.version = CURRENT_VERSION
    <2>1. 0 # CURRENT_VERSION
      BY SMT DEF CURRENT_VERSION
    <2> QED
      BY <2>1 DEF Shape, Header
  <1>1. ASSUME NEW a \in Args, Create(a) PROVE Written'
    <2>1. header' = Zeros /\ pc' = "fields"
      BY <1>1 DEF Opened, Create
    <2> QED
      BY <1>0, <2>1 DEF Written, Zeros
  <1>2. ASSUME NEW a \in Args, Reopen(a) PROVE Written'
    <2>1. /\ header' = header /\ made' = made /\ cut' = cut /\ pc = "down"
          /\ \/ pc' = "down"
             \/ pc' = "open" /\ header.version = CURRENT_VERSION
      BY <1>2 DEF Reopen
    <2> QED
      BY <1>0, <2>1 DEF Written
  <1>3. CASE InitFields
    <2>1. /\ header.version = 0 /\ pc' = "version" /\ args' = args
          /\ header' = [header EXCEPT !.capacity = args.capacity, !.dim = args.dim]
      BY <1>3 DEF Written, InitFields
    <2>2. /\ header'.version = 0 /\ header'.k = header.k /\ header'.index = header.index
          /\ header'.M = header.M /\ header'.count = header.count
          /\ header'.capacity = args.capacity /\ header'.dim = args.dim
      BY <1>0, <2>1 DEF Header
    <2> QED
      BY <1>0, <2>1, <2>2 DEF Written
  <1>4. CASE InitVersion
    <2>1. /\ header.version = 0 /\ pc = "version" /\ pc' = "index" /\ made' = made
          /\ made \in Args /\ args = made
          /\ header' = [header EXCEPT !.version = CURRENT_VERSION]
      <3>1. args \in Args /\ args = made
        BY <1>4 DEF InitVersion, Opened, Creating
      <3> QED
        BY <1>4, <3>1 DEF Written, InitVersion
    <2>2. /\ header'.version = CURRENT_VERSION /\ header'.k = header.k
          /\ header'.index = header.index /\ header'.M = header.M
          /\ header'.capacity = header.capacity /\ header'.dim = header.dim
      BY <1>0, <2>1 DEF Header
    <2> QED
      BY <1>0, <2>1, <2>2 DEF Written
  <1>5. CASE InitIndex
    <2>1. /\ header.version = CURRENT_VERSION /\ made' = made
          /\ made \in Args /\ args = made
          /\ pc' = "hnsw" \/ (pc' = "open" /\ made.index # "HNSW")
          /\ header' = [header EXCEPT !.k = args.k, !.index = args.index]
      <3>1. args \in Args /\ args = made
        BY <1>5 DEF InitIndex, Opened, Creating
      <3> QED
        BY <1>5, <3>1 DEF Written, InitIndex
    <2>2. /\ header'.version = CURRENT_VERSION /\ header'.k = made.k
          /\ header'.index = made.index /\ header'.M = header.M
          /\ header'.capacity = header.capacity /\ header'.dim = header.dim
      BY <1>0, <2>1 DEF Header
    <2> QED
      BY <1>0, <2>1, <2>2 DEF Written
  <1>6. CASE InitHnsw
    <2>1. /\ header.version = CURRENT_VERSION /\ made' = made /\ ~cut
          /\ made \in Args /\ args = made /\ pc = "hnsw" /\ pc' = "edges"
          /\ header' = [header EXCEPT !.M = args.M, !.entry = "EMPTY"]
      <3>1. args \in Args /\ args = made /\ ~cut
        BY <1>6 DEF InitHnsw, Opened, Creating
      <3> QED
        BY <1>6, <3>1 DEF Written, InitHnsw
    <2>2. /\ header'.version = CURRENT_VERSION /\ header'.k = header.k
          /\ header'.index = header.index /\ header'.M = made.M /\ header'.entry = "EMPTY"
          /\ header'.capacity = header.capacity /\ header'.dim = header.dim
      BY <1>0, <2>1 DEF Header
    <2>3. header.k = made.k /\ header.index = made.index
      BY <2>1 DEF Written
    <2> QED
      BY <1>0, <2>1, <2>2, <2>3 DEF Written
  <1>7. CASE InitEdges
    <2>1. /\ header' = header /\ made' = made /\ cut' = cut /\ pc = "edges" /\ pc' = "open"
          /\ header.version = CURRENT_VERSION
      BY <1>7 DEF Written, InitEdges
    <2> QED
      BY <1>0, <2>1 DEF Written
  <1>8. ASSUME NEW id \in Ids, AddVector(id) PROVE Written'
    <2>1. /\ header' = [header EXCEPT !.count = @ + 1] /\ made' = made /\ cut' = cut
          /\ pc = "open" /\ pc' = "open" /\ header.version = CURRENT_VERSION
      BY <1>8 DEF Written, AddVector
    <2>2. /\ header'.version = CURRENT_VERSION /\ header'.k = header.k
          /\ header'.index = header.index /\ header'.M = header.M /\ header'.entry = header.entry
          /\ header'.capacity = header.capacity /\ header'.dim = header.dim
      BY <1>0, <2>1 DEF Header
    <2> QED
      BY <1>0, <2>1, <2>2 DEF Written
  <1>9. ASSUME NEW id \in Ids, AddToNullPointer(id) PROVE Written'
    <2>1. /\ header' = header \/ header' = [header EXCEPT !.count = @ + 1]
          /\ made' = made /\ cut' = cut
          /\ pc = "open" /\ pc' = "down" /\ header.version = CURRENT_VERSION
      BY <1>9 DEF Written, AddToNullPointer
    <2>2. /\ header'.version = CURRENT_VERSION /\ header'.k = header.k
          /\ header'.index = header.index /\ header'.M = header.M /\ header'.entry = header.entry
          /\ header'.capacity = header.capacity /\ header'.dim = header.dim
      BY <1>0, <2>1 DEF Header
    <2> QED
      BY <1>0, <2>1, <2>2 DEF Written
  <1>10. CASE AddOutside
    BY <1>10 DEF Written, AddOutside
  <1>11. CASE Close
    BY <1>11 DEF Written, Close
  <1>12. CASE Crash
    BY <1>0, <1>12 DEF Written, Crash
  <1>13. CASE UNCHANGED vars
    BY <1>13 DEF Written, vars
  <1> QED
    BY <1>1, <1>2, <1>3, <1>4, <1>5, <1>6, <1>7, <1>8, <1>9, <1>10, <1>11, <1>12, <1>13
       DEF Next

(* A step that changes neither extents nor count keeps what the blocks     *)
(* hold.                                                                   *)
LEMMA ContentKept ==
    ASSUME Content, extents' = extents, header'.count = header.count, stored' = stored,
           made' = made, foreign' = foreign,
           ~cut' /\ ~Creating' /\ header'.version = CURRENT_VERSION /\ made.index = "HNSW" =>
             ~cut /\ ~Creating /\ header.version = CURRENT_VERSION
    PROVE  Content'
  <1>1. Apart => Apart'
    BY DEF Apart
  <1>2. SlotsHold => SlotsHold'
    BY DEF SlotsHold, Holds
  <1>3. EdgesHold => EdgesHold'
    BY DEF EdgesHold, Holds
  <1> QED
    BY <1>1, <1>2, <1>3 DEF Content

(* The store of the slot that is next, or of part of it, leaves what the   *)
(* slots before and the edges after it hold.                               *)
LEMMA ContentStore ==
    ASSUME IInv, pc = "open", args = made, header.count < made.capacity, ~foreign,
           NEW areas \in SUBSET Parts(made, header.count), NEW what, Store(areas, what)
    PROVE  /\ Apart'
           /\ \A slot \in Nat: slot < header.count =>
                \A area \in Parts(made, slot): Holds(extents', area, stored[slot + 1])
           /\ EdgesHold => (made.index = "HNSW" /\ ~cut =>
                \A slot \in Nat: header.count < slot /\ slot < made.capacity =>
                  Holds(extents', EdgeArea(made, slot), "EMPTY"))
  <1>1. /\ made \in Args /\ header.count \in Nat /\ made.capacity \in Nat /\ ~Creating
        /\ header.version = CURRENT_VERSION
    <2>1. made \in Args /\ header.count \in Nat /\ header.version = CURRENT_VERSION
      BY DEF IInv, Opened, Shape, Header, Written
    <2> QED
      BY <2>1, ArgsType DEF Creating
  <1>2. Apart /\ SlotsHold
    BY DEF IInv, Content
  <1>3. \A slot \in Nat: slot < made.capacity /\ slot # header.count =>
          \A area \in Parts(made, slot): \A x \in areas: Disjoint(area, x)
    BY <1>1, PartsApart
  <1>4. Apart'
    <2>1. \A x, y \in areas: x = y \/ Disjoint(x, y)
      BY <1>1, PartsApart
    <2> QED
      BY <1>2, <2>1, StoreApart
  <1>5. ASSUME NEW slot \in Nat, slot < header.count, NEW area \in Parts(made, slot)
        PROVE  Holds(extents', area, stored[slot + 1])
    <2>1. slot < made.capacity /\ slot # header.count
      BY <1>1, <1>5, SMT
    <2>2. \A x \in areas: Disjoint(area, x)
      BY <1>3, <2>1
    <2>3. Holds(extents, area, stored[slot + 1])
      BY <1>1, <1>2, <1>5 DEF SlotsHold
    <2> QED
      BY <2>2, <2>3, StoreKeeps
  <1>6. ASSUME EdgesHold, made.index = "HNSW", ~cut,
               NEW slot \in Nat, header.count < slot, slot < made.capacity
        PROVE  Holds(extents', EdgeArea(made, slot), "EMPTY")
    <2>1. slot # header.count /\ header.count <= slot
      BY <1>1, <1>6, SMT
    <2>2. EdgeArea(made, slot) \in Parts(made, slot)
      BY <1>6 DEF Parts
    <2>3. \A x \in areas: Disjoint(EdgeArea(made, slot), x)
      BY <1>3, <1>6, <2>1, <2>2
    <2>4. Holds(extents, EdgeArea(made, slot), "EMPTY")
      BY <1>1, <1>6, <2>1 DEF EdgesHold
    <2> QED
      BY <2>3, <2>4, StoreKeeps
  <1> QED
    BY <1>4, <1>5, <1>6

LEMMA ContentStep ==
    ASSUME IInv, [Next]_vars
    PROVE  Content'
  <1> USE DEF IInv
  <1>0. header \in Header /\ Content /\ Opened /\ Shape /\ Written
    BY DEF Shape
  <1>1. ASSUME NEW a \in Args, Create(a) PROVE Content'
    <2>1. extents' = {} /\ header' = Zeros /\ pc' = "fields"
      BY <1>1 DEF Opened, Create
    <2>2. \A slot \in Nat: ~(slot < header'.count)
      <3>1. header'.count = 0
        BY <2>1, Zenon DEF Zeros
      <3> QED
        BY <3>1, SMT
    <2> QED
      BY <2>1, <2>2 DEF Content, Apart, SlotsHold, EdgesHold, Creating
  <1>2. ASSUME NEW a \in Args, Reopen(a) PROVE Content'
    BY <1>2, ContentKept DEF Reopen, Creating
  <1>3. CASE InitFields
    <2>1. header'.count = header.count
      BY <1>0, <1>3 DEF InitFields, Header
    <2> QED
      BY <1>3, <2>1, ContentKept DEF InitFields, Creating
  <1>4. CASE InitVersion
    <2>1. header'.count = header.count
      BY <1>0, <1>4 DEF InitVersion, Header
    <2> QED
      BY <1>4, <2>1, ContentKept DEF InitVersion, Creating
  <1>5. CASE InitIndex
    <2>1. header'.count = header.count
      BY <1>0, <1>5 DEF InitIndex, Header
    <2>2. args = made
      BY <1>5 DEF InitIndex, Opened, Creating
    <2> QED
      BY <1>5, <2>1, <2>2, ContentKept DEF InitIndex, Creating
  <1>6. CASE InitHnsw
    <2>1. header'.count = header.count
      BY <1>0, <1>6 DEF InitHnsw, Header
    <2> QED
      BY <1>6, <2>1, ContentKept DEF InitHnsw, Creating
  <1>7. CASE InitEdges
    <2> SUFFICES ASSUME ~foreign' PROVE Apart' /\ SlotsHold' /\ EdgesHold'
      BY DEF Content
    <2> DEFINE edges == {EdgeArea(args, slot): slot \in 0..(args.capacity - 1)}
    <2>1. /\ args \in Args /\ args = made /\ args.index = "HNSW" /\ header.count = 0
          /\ Store(edges, "EMPTY") /\ header' = header /\ made' = made /\ args' = args /\ ~foreign
      BY <1>7 DEF InitEdges, Opened, Creating
    <2>2. \A slot \in 0..(args.capacity - 1):
            slot \in Nat /\ slot < args.capacity /\ EdgeArea(args, slot) \in Parts(args, slot)
      <3>1. \A slot \in 0..(args.capacity - 1): slot \in Nat /\ slot < args.capacity
        BY <2>1, ArgsType, SMT
      <3> QED
        BY <2>1, <3>1 DEF Parts
    <2>3. \A x, y \in edges: x = y \/ Disjoint(x, y)
      BY <2>1, <2>2, PartsApart
    <2>4. Apart'
      <3> HIDE DEF edges
      <3> QED
        BY <2>1, <2>3, StoreApart DEF Content
    <2>5. SlotsHold'
      <3>1. \A slot \in Nat: ~(slot < header'.count)
        BY <2>1, SMT
      <3> QED
        BY <3>1 DEF SlotsHold
    <2>6. EdgesHold'
      <3> SUFFICES ASSUME NEW slot \in Nat, slot < made.capacity
                   PROVE  Holds(extents', EdgeArea(made, slot), "EMPTY")
        BY <2>1 DEF EdgesHold
      <3>1. slot \in 0..(args.capacity - 1)
        BY <2>1, ArgsType, SMT
      <3>2. EdgeArea(made, slot) \in edges
        BY <2>1, <3>1
      <3> HIDE DEF edges
      <3> QED
        BY <2>1, <3>2, StoreWrites
    <2> QED
      BY <2>4, <2>5, <2>6
  <1>8. ASSUME NEW id \in Ids, AddVector(id) PROVE Content'
    <2> SUFFICES ASSUME ~foreign' PROVE Apart' /\ SlotsHold' /\ EdgesHold'
      BY DEF Content
    <2> DEFINE areas == Parts(made, header.count)
    <2>1. /\ ~foreign /\ args = made /\ pc = "open" /\ ~Full /\ Store(areas, id)
          /\ header' = [header EXCEPT !.count = @ + 1] /\ stored' = Append(stored, id)
          /\ made' = made /\ cut' = cut
      BY <1>8 DEF AddVector
    <2>2. /\ header.count \in Nat /\ header.capacity \in Nat /\ made \in Args
          /\ header.version = CURRENT_VERSION /\ header.capacity = made.capacity
          /\ ~Creating /\ EdgesHold
      BY <1>0, <2>1 DEF Header, Written, Content, Creating
    <2>3. header.count < made.capacity
      BY <2>1, <2>2, SMT DEF Full
    <2>4. header'.count = header.count + 1
      BY <1>0, <2>1 DEF Header
    <2>5. areas \in SUBSET Parts(made, header.count)
      OBVIOUS
    <2> HIDE DEF areas
    <2>6. /\ Apart'
          /\ \A slot \in Nat: slot < header.count =>
               \A area \in Parts(made, slot): Holds(extents', area, stored[slot + 1])
          /\ EdgesHold => (made.index = "HNSW" /\ ~cut =>
               \A slot \in Nat: header.count < slot /\ slot < made.capacity =>
                 Holds(extents', EdgeArea(made, slot), "EMPTY"))
      BY <2>1, <2>2, <2>3, <2>5, ContentStore
    <2>7. SlotsHold'
      <3> SUFFICES ASSUME NEW slot \in Nat, slot < header.count + 1,
                          NEW area \in Parts(made, slot)
                   PROVE  Holds(extents', area, stored'[slot + 1])
        BY <2>1, <2>4 DEF SlotsHold
      <3>1. stored \in Seq(Ids) /\ Len(stored) = header.count
        BY DEF Shape
      <3>2. CASE slot < header.count
        <4>1. stored'[slot + 1] = stored[slot + 1]
          <5>1. slot + 1 \in 1..Len(stored)
            BY <2>2, <3>1, <3>2, SMT
          <5> QED
            BY <2>1, <3>1, <5>1, SMT
        <4> QED
          BY <2>6, <3>2, <4>1
      <3>3. CASE slot = header.count
        <4>1. stored'[slot + 1] = id
          BY <2>1, <2>2, <3>1, <3>3, SMT
        <4>2. area \in areas
          BY <3>3 DEF areas
        <4> QED
          BY <2>1, <4>1, <4>2, StoreWrites
      <3> QED
        BY <2>2, <3>2, <3>3, SMT
    <2>8. EdgesHold'
      <3> SUFFICES ASSUME made.index = "HNSW", ~cut,
                          NEW slot \in Nat, header.count + 1 <= slot, slot < made.capacity
                   PROVE  Holds(extents', EdgeArea(made, slot), "EMPTY")
        BY <2>1, <2>4 DEF EdgesHold
      <3>1. header.count < slot
        BY <2>2, SMT
      <3> QED
        BY <2>2, <2>6, <3>1
    <2> QED
      BY <2>6, <2>7, <2>8
  <1>9. ASSUME NEW id \in Ids, AddToNullPointer(id) PROVE Content'
    <2> SUFFICES ASSUME ~foreign' PROVE Apart' /\ SlotsHold' /\ EdgesHold'
      BY DEF Content
    <2> DEFINE areas == {IdArea(made, header.count), FloatArea(made, header.count)}
    <2>1. /\ ~foreign /\ args = made /\ pc = "open" /\ ~Full /\ Store(areas, id)
          /\ header.index # made.index /\ made' = made /\ cut' = cut
      BY <1>9 DEF AddToNullPointer, NullPointer
    <2>2. /\ header.count \in Nat /\ header.capacity \in Nat /\ made \in Args
          /\ header.version = CURRENT_VERSION /\ header.capacity = made.capacity
          /\ header.index = "IVF" /\ cut
      BY <1>0, <2>1 DEF Header, Written
    <2>3. made.index = "HNSW"
      BY <2>1, <2>2, ArgsType
    <2>4. header' = header /\ stored' = stored
      BY <1>9, <2>1, <2>3 DEF AddToNullPointer
    <2>5. header.count < made.capacity
      BY <2>1, <2>2, SMT DEF Full
    <2>6. areas \in SUBSET Parts(made, header.count)
      BY DEF Parts
    <2> HIDE DEF areas
    <2>7. /\ Apart'
          /\ \A slot \in Nat: slot < header.count =>
               \A area \in Parts(made, slot): Holds(extents', area, stored[slot + 1])
      BY <2>1, <2>5, <2>6, ContentStore
    <2>8. SlotsHold'
      BY <2>1, <2>4, <2>7 DEF SlotsHold
    <2>9. EdgesHold'
      BY <2>1, <2>2 DEF EdgesHold
    <2> QED
      BY <2>7, <2>8, <2>9
  <1>10. CASE AddOutside
    BY <1>10, ContentKept DEF AddOutside, Creating
  <1>11. CASE Close
    BY <1>11, ContentKept DEF Close, Creating
  <1>12. CASE Crash
    <2>1. /\ header' = header /\ extents' = extents /\ stored' = stored /\ made' = made
          /\ foreign' = foreign /\ cut' = (cut \/ pc \in {"index", "hnsw", "edges"})
      BY <1>12 DEF Crash
    <2>2. ~cut' /\ header'.version = CURRENT_VERSION => ~cut /\ ~Creating
      <3>1. 0 # CURRENT_VERSION
        BY SMT DEF CURRENT_VERSION
      <3> QED
        BY <2>1, <3>1 DEF Written, Creating
    <2> QED
      BY <2>1, <2>2, ContentKept
  <1>13. CASE UNCHANGED vars
    BY <1>13, ContentKept DEF vars, Creating
  <1> QED
    BY <1>1, <1>2, <1>3, <1>4, <1>5, <1>6, <1>7, <1>8, <1>9, <1>10, <1>11, <1>12, <1>13
       DEF Next

LEMMA Invariance == Spec => []IInv
  <1>1. IInv /\ [Next]_vars => IInv'
    BY ShapeStep, OpenedStep, WrittenStep, ContentStep DEF IInv
  <1> QED
    BY <1>1, InitInvariant, PTL DEF Spec

-----------------------------------------------------------------------------
(* Theorems.                                                               *)

(* The file is as long as what is mapped of it, no slot beyond the header's *)
(* capacity is counted, and what was stored lies in the file behind the    *)
(* header, whatever sizes are asked for and in whatever order.             *)
THEOREM TypeCorrect == Spec => []TypeOK
  <1>1. IInv => TypeOK
    <2> SUFFICES ASSUME IInv PROVE TypeOK
      OBVIOUS
    <2>1. /\ size \in Nat /\ mapped \in Nat /\ mapped <= size
          /\ header.count \in Nat /\ header.count <= header.capacity
          /\ header.version \in {0, CURRENT_VERSION}
          /\ args \in Args \cup {NoArgs} /\ made \in Args \cup {NoArgs}
      BY DEF IInv, Shape, Header
    <2>2. \A e \in extents: HeaderBytes <= e.from /\ e.from <= e.to /\ e.to <= size
      <3>1. \A e \in extents: IsArea(e) /\ e.to <= size
        BY DEF IInv, Shape
      <3> QED
        BY <3>1, SMT DEF IsArea
    <2> QED
      BY <2>1, <2>2 DEF TypeOK
  <1> QED
    BY <1>1, Invariance, PTL

(* A database opened with the arguments of its creation finds every part   *)
(* of every counted slot where it was stored: the blocks of the layout do  *)
(* not overlap, for any dimension, capacity, k and M, and no crash or      *)
(* refused opening moves them.                                             *)
THEOREM SlotsAreReadBack == Spec => []SlotsReadBack
  <1>1. IInv => SlotsReadBack
    <2> SUFFICES ASSUME IInv, pc = "open", args = made, ~foreign,
                        NEW slot \in 0..(header.count - 1), NEW area \in Parts(args, slot)
                 PROVE  Read(area) = stored[slot + 1]
      BY DEF SlotsReadBack, ReadsBack
    <2>1. header.count \in Nat /\ made \in Args /\ \A e \in extents: IsArea(e)
      BY DEF IInv, Shape, Header, Opened
    <2>2. slot \in Nat /\ slot < header.count
      BY <2>1, SMT
    <2>3. Apart /\ SlotsHold
      BY DEF IInv, Content
    <2>4. Holds(extents, area, stored[slot + 1])
      BY <2>1, <2>2, <2>3 DEF SlotsHold
    <2> QED
      BY <2>1, <2>3, <2>4, ReadHolds
  <1> QED
    BY <1>1, Invariance, PTL

(* The edges of a slot that is not counted are EMPTY, and so is the entry  *)
(* point of a new file, unless the creation was cut.                       *)
THEOREM EdgesAreEmptyAtFirst == Spec => []EdgesStartEmpty
  <1>1. IInv => EdgesStartEmpty
    <2> SUFFICES ASSUME IInv, pc = "open", args = made, args.index = "HNSW", ~foreign, ~cut
                 PROVE  /\ header.entry = "EMPTY"
                        /\ \A slot \in header.count..(args.capacity - 1):
                             Read(EdgeArea(args, slot)) = "EMPTY"
      BY DEF EdgesStartEmpty
    <2>1. /\ header.count \in Nat /\ made \in Args /\ \A e \in extents: IsArea(e)
          /\ header.version = CURRENT_VERSION /\ ~Creating /\ Apart /\ EdgesHold
      BY DEF IInv, Shape, Header, Opened, Written, Content, Creating
    <2>2. header.entry = "EMPTY"
      BY <2>1 DEF IInv, Written
    <2>3. ASSUME NEW slot \in header.count..(args.capacity - 1)
          PROVE  Read(EdgeArea(args, slot)) = "EMPTY"
      <3>1. slot \in Nat /\ header.count <= slot /\ slot < made.capacity
        BY <2>1, ArgsType, SMT
      <3>2. Holds(extents, EdgeArea(made, slot), "EMPTY")
        BY <2>1, <3>1 DEF EdgesHold
      <3> QED
        BY <2>1, <3>2, ReadHolds
    <2> QED
      BY <2>2, <2>3
  <1> QED
    BY <1>1, Invariance, PTL

(* Of a file whose creation was complete, and that is opened with its      *)
(* arguments, the destructor unmaps what the constructor mapped.           *)
LEMMA TotalIsMapped ==
    ASSUME IInv, pc = "open", args = made
    PROVE  /\ ~cut => Total(header) = mapped
           /\ Total(header) \in Nat /\ Total(header) <= mapped
  <1>1. /\ made \in Args /\ mapped = calc_required_size(made)
        /\ header.version = CURRENT_VERSION /\ header.capacity = made.capacity
        /\ header.dim = made.dim
    BY DEF IInv, Opened, Written
  <1> DEFINE n == made.capacity
             cv == made.capacity * Vector(made)
             kv == made.k * Vector(made)
             ce == made.capacity * Edges(made)
  <1>2. Vector(header) = Vector(made)
    BY <1>1 DEF Vector
  <1>3. /\ n \in Nat /\ cv \in Nat /\ kv \in Nat /\ ce \in Nat /\ made.k \in Nat
        /\ n <= ce
    <2>1. n \in Nat /\ Vector(made) \in Nat /\ made.k \in Nat /\ Edges(made) \in Nat /\ Edges(made) > 1
      BY <1>1, ArgsType
    <2> QED
      BY <2>1, SMT
  <1>4. mapped = 128 + n * 8 + cv +
                 (IF made.index = "IVF" THEN kv + made.k * 8 + n * 2 ELSE n * 1 + ce)
    BY <1>1 DEF calc_required_size, HeaderBytes, IdBytes, CountBytes, ClusterBytes, LevelBytes
  <1>5. Total(header) = 128 + n * 8 + cv +
          (IF header.index = "HNSW" THEN n * 1 + n * Edges(header)
           ELSE header.k * Vector(made) + header.k * 8 + n * 2)
    BY <1>1, <1>2 DEF Total, HeaderBytes, IdBytes, CountBytes, ClusterBytes, LevelBytes
  <1>6. CASE header.k = made.k /\ header.index = made.index /\ made.index # "HNSW"
    <2>1. made.index = "IVF"
      BY <1>1, <1>6, ArgsType
    <2>2. Total(header) = mapped
      BY <1>4, <1>5, <1>6, <2>1
    <2>3. mapped \in Nat /\ mapped <= mapped
      BY DEF IInv, Shape
    <2> QED
      BY <2>2, <2>3
  <1>7. CASE header.index = made.index /\ made.index = "HNSW"
    <2>1. /\ ~cut => header.M = made.M
          /\ header.M \in {0, made.M}
      BY <1>1, <1>7 DEF IInv, Written
    <2>2. /\ header.M = made.M => n * Edges(header) = ce
          /\ header.M = 0 => n * Edges(header) = 0
      <3>1. header.M = made.M => Edges(header) = Edges(made)
        BY DEF Edges, edges_per_node
      <3>2. header.M = 0 => Edges(header) = 0
        BY SMT DEF Edges, edges_per_node, EdgeBytes, MAX_LEVEL
      <3> QED
        BY <1>3, <3>1, <3>2, SMT
    <2> DEFINE he == n * Edges(header)
    <2>3. mapped = 128 + n * 8 + cv + (n * 1 + ce) /\ Total(header) = 128 + n * 8 + cv + (n * 1 + he)
      BY <1>4, <1>5, <1>7
    <2>4. he = ce \/ he = 0
      BY <2>1, <2>2
    <2>5. ~cut => he = ce
      BY <2>1, <2>2
    <2> HIDE DEF n, cv, kv, ce, he
    <2>6. Total(header) \in Nat /\ Total(header) <= mapped
      BY <1>3, <2>3, <2>4, SMT
    <2> QED
      BY <2>3, <2>5, <2>6
  <1>8. CASE header.k = 0 /\ header.index = "IVF" /\ cut
    <2>1. Total(header) = 128 + n * 8 + cv + n * 2
      <3>1. header.k * Vector(made) = 0
        BY <1>1, <1>8, ArgsType, SMT
      <3>2. Total(header) = 128 + n * 8 + cv + (0 + header.k * 8 + n * 2)
        BY <1>5, <1>8, <3>1
      <3> HIDE DEF n, cv
      <3> QED
        BY <1>3, <1>8, <3>2, SMT
    <2> DEFINE K == made.k
    <2>2. mapped = 128 + n * 8 + cv + (kv + K * 8 + n * 2) \/ mapped = 128 + n * 8 + cv + (n * 1 + ce)
      BY <1>4
    <2> HIDE DEF n, cv, kv, ce
    <2>3. Total(header) \in Nat /\ Total(header) <= mapped
      BY <1>3, <2>1, <2>2, SMT
    <2> QED
      BY <1>8, <2>3
  <1>9. \/ header.k = made.k /\ header.index = made.index
        \/ header.k = 0 /\ header.index = "IVF" /\ cut
    BY <1>1 DEF IInv, Written
  <1> QED
    BY <1>6, <1>7, <1>8, <1>9

THEOREM WhatIsUnmappedWasMapped == Spec => []UnmapsWhatWasMapped
  <1>1. IInv => UnmapsWhatWasMapped
    BY TotalIsMapped DEF UnmapsWhatWasMapped
  <1> QED
    BY <1>1, Invariance, PTL

(* No store and no unmapping leaves the mapping while the arguments are    *)
(* those of the creation, even if a crash cut the creation.                *)
THEOREM NothingLeavesTheMapping == Spec => StoresStayInside
  <1>1. IInv /\ [Next]_vars => [pc' = "wild" => args # made]_vars
    <2> SUFFICES ASSUME IInv, Next, pc' = "wild", args = made
                 PROVE  FALSE
      OBVIOUS
    <2>1. CASE AddOutside
      <3>1. /\ pc = "open" /\ ~Full
            /\ Outside({IdArea(args, header.count), FloatArea(args, header.count)})
               \/ Outside(Parts(args, header.count))
        BY <2>1 DEF AddOutside
      <3>2. /\ header.count \in Nat /\ header.capacity \in Nat /\ args \in Args
            /\ header.capacity = args.capacity /\ mapped = calc_required_size(args)
        BY <3>1 DEF IInv, Shape, Header, Opened, Written
      <3>3. header.count < args.capacity
        BY <3>1, <3>2, SMT DEF Full
      <3>4. \A x \in Parts(args, header.count): IsArea(x) /\ x.to <= mapped
        BY <3>2, <3>3, PartsAreAreas
      <3>5. \E x \in Parts(args, header.count): x.to > mapped
        BY <3>1 DEF Outside, Parts
      <3>6. mapped \in Nat
        BY DEF IInv, Shape
      <3> QED
        BY <3>4, <3>5, <3>6, SMT DEF IsArea
    <2>2. CASE Close
      <3>1. pc = "open" /\ Total(header) > mapped
        BY <2>2 DEF Close
      <3>2. Total(header) \in Nat /\ Total(header) <= mapped
        BY <3>1, TotalIsMapped
      <3>3. mapped \in Nat
        BY DEF IInv, Shape
      <3> QED
        BY <3>1, <3>2, <3>3, SMT
    <2> QED
      BY <2>1, <2>2 DEF Next, Create, Reopen, InitFields, InitVersion, InitIndex, InitHnsw,
         InitEdges, AddVector, AddToNullPointer, Crash
  <1> QED
    BY <1>1, Invariance, PTL DEF Spec, StoresStayInside

=============================================================================
