------------------------ MODULE ClusterCapacityProofs ------------------------
(***************************************************************************)
(* No sequence of commands oversubscribes a node or delegates a unit of a  *)
(* lease twice, for every value of the constants.  Sums of claims are      *)
(* cardinalities of sets of units, and the argument is about sets: which   *)
(* leases are roots before and after a step.                               *)
(***************************************************************************)
EXTENDS ClusterProofs, FiniteSetTheorems

USE DEF clock_vars, graph_vars, lease_vars, binding_vars, node_vars,
        OutsideLeases, OutsideBindings

-----------------------------------------------------------------------------
(* Counting units.  L is a value of leases.                                *)

UnitsOf(L, S, n) == {u \in S \X (1 .. MaxQuantity) : u[2] <= L[u[1]].claims[n]}

Sum(L, S, n) == Cardinality(UnitsOf(L, S, n))

\* The units of finitely many leases are finitely many.
LEMMA SumType ==
    ASSUME NEW L, NEW S \in SUBSET Leases, NEW n \in Nodes
    PROVE  IsFiniteSet(UnitsOf(L, S, n)) /\ Sum(L, S, n) \in Nat
<1>1. IsFiniteSet(S)
  BY FS_Subset, ConstantsAssumption
<1>2. IsFiniteSet(1 .. MaxQuantity)
  BY FS_Interval, ConstantsAssumption
<1>3. IsFiniteSet(S \X (1 .. MaxQuantity))
  BY <1>1, <1>2, FS_Product, Zenon
<1>4. UnitsOf(L, S, n) \subseteq S \X (1 .. MaxQuantity)
  BY DEF UnitsOf
<1> QED
  BY <1>3, <1>4, FS_Subset, FS_CardinalityType DEF Sum

\* More leases claim at least as much.
LEMMA SumMonotone ==
    ASSUME NEW L, NEW T \in SUBSET Leases, NEW S \in SUBSET T, NEW n \in Nodes
    PROVE  Sum(L, S, n) <= Sum(L, T, n)
<1>1. UnitsOf(L, S, n) \subseteq UnitsOf(L, T, n)
  BY DEF UnitsOf
<1> QED  BY <1>1, SumType, FS_Subset DEF Sum

\* The claims of two groups together are at most the two sums, and exactly
\* the two sums when the groups are disjoint.
LEMMA SumUnion ==
    ASSUME NEW L, NEW S \in SUBSET Leases, NEW T \in SUBSET Leases, NEW n \in Nodes
    PROVE  /\ Sum(L, S \cup T, n) <= Sum(L, S, n) + Sum(L, T, n)
           /\ S \cap T = {} => Sum(L, S \cup T, n) = Sum(L, S, n) + Sum(L, T, n)
<1> DEFINE US == UnitsOf(L, S, n)
           UT == UnitsOf(L, T, n)
<1>1. UnitsOf(L, S \cup T, n) = US \cup UT
  BY DEF UnitsOf
<1>2. IsFiniteSet(US) /\ IsFiniteSet(UT)
  BY SumType
<1>3. Cardinality(US \cup UT)
        = Cardinality(US) + Cardinality(UT) - Cardinality(US \cap UT)
  BY <1>2, FS_Union
<1>4. IsFiniteSet(US \cap UT) /\ Cardinality(US \cap UT) \in Nat
  BY <1>2, FS_Intersection, FS_CardinalityType, Zenon
<1>5. S \cap T = {} => US \cap UT = {}
  BY DEF UnitsOf
<1>6. Cardinality({}) = 0
  BY FS_EmptySet
<1>7. Cardinality(US) \in Nat /\ Cardinality(UT) \in Nat
  BY <1>2, FS_CardinalityType
<1>8. /\ Sum(L, S \cup T, n) = Cardinality(US \cup UT)
      /\ Sum(L, S, n) = Cardinality(US) /\ Sum(L, T, n) = Cardinality(UT)
  BY <1>1, Zenon DEF Sum
<1> HIDE DEF US, UT
<1>9. Cardinality(US \cup UT) <= Cardinality(US) + Cardinality(UT)
  BY <1>3, <1>4, <1>7
<1>10. S \cap T = {}
          => Cardinality(US \cup UT) = Cardinality(US) + Cardinality(UT)
  <2> SUFFICES ASSUME S \cap T = {}
               PROVE  Cardinality(US \cup UT) = Cardinality(US) + Cardinality(UT)
    OBVIOUS
  <2>1. Cardinality(US \cap UT) = 0
    BY <1>5, <1>6, Zenon
  <2> QED  BY <1>3, <1>7, <2>1
<1> QED  BY <1>8, <1>9, <1>10

\* One lease claims what its record says.
LEMMA SumOne ==
    ASSUME NEW L \in [Leases -> Lease], NEW l \in Leases, NEW n \in Nodes
    PROVE  Sum(L, {l}, n) = L[l].claims[n]
<1> DEFINE q == L[l].claims[n]
<1>1. q \in 0 .. MaxQuantity
  BY DEF Lease, Claims, Quantity
<1>2. UnitsOf(L, {l}, n) = {u \in {l} \X (1 .. MaxQuantity) : u[2] <= q}
  BY DEF UnitsOf
<1> HIDE DEF q
<1>3. UnitsOf(L, {l}, n) = {l} \X (1 .. q)
  BY <1>1, <1>2, ConstantsAssumption
<1>4. IsFiniteSet({l}) /\ Cardinality({l}) = 1
  BY FS_Singleton, Zenon
<1>5. q \in Nat /\ q \in Int
  BY <1>1
<1>6. IsFiniteSet(1 .. q) /\ Cardinality(1 .. q) = IF 1 > q THEN 0 ELSE q - 1 + 1
  BY <1>5, FS_Interval
<1>7. Cardinality(1 .. q) = q
  BY <1>5, <1>6
<1>8. Cardinality({l} \X (1 .. q)) = Cardinality({l}) * Cardinality(1 .. q)
  BY <1>4, <1>6, FS_Product, Zenon
<1>9. Sum(L, {l}, n) = 1 * q
  BY <1>3, <1>4, <1>7, <1>8, Zenon DEF Sum
<1>10. Sum(L, {l}, n) = q
  BY <1>5, <1>9
<1> QED  BY <1>10 DEF q

\* Nothing claims nothing.
LEMMA SumEmpty ==
    ASSUME NEW L, NEW n \in Nodes
    PROVE  Sum(L, {}, n) = 0
BY FS_EmptySet DEF Sum, UnitsOf

\* The sum depends on the records of the leases summed, and on no other.
LEMMA SumSame ==
    ASSUME NEW L, NEW M, NEW S \in SUBSET Leases, NEW n \in Nodes,
           \A l \in S : L[l] = M[l]
    PROVE  Sum(L, S, n) = Sum(M, S, n)
<1>1. UnitsOf(L, S, n) = UnitsOf(M, S, n)
  BY DEF UnitsOf
<1> QED  BY <1>1 DEF Sum

-----------------------------------------------------------------------------
(* The invariants as sums over sets of leases.                             *)

Occupying == {l \in Leases : Occupies(l)}

RootLeases == {l \in Occupying : leases[l].parent \notin Occupying}

OccupyingChildren(p) == {l \in Occupying : leases[l].parent = p}

CapacityInv == Shaped /\ CapacityRespected /\ ChildrenFitParent

\* Both capacity invariants bound sums of claims.
LEMMA CapacityAsSums ==
    /\ CapacityRespected <=>
           \A n \in Nodes : Sum(leases, RootLeases, n) <= graph.capacity[n]
    /\ ChildrenFitParent <=>
           \A p \in Leases, n \in Nodes :
               Sum(leases, OccupyingChildren(p), n) <= leases[p].claims[n]
<1>1. Roots({}) = RootLeases
  BY DEF Roots, RootLeases, Occupying
<1>2. \A p : {l \in Children(p) : Occupies(l)} = OccupyingChildren(p)
  BY DEF Children, OccupyingChildren, Occupying
<1>3. \A S, n : Cardinality(Units(S, n)) = Sum(leases, S, n)
  BY DEF Units, Sum, UnitsOf
<1>4. \A n : OccupancyExcept({}, n) = Sum(leases, RootLeases, n)
  BY <1>1, <1>3 DEF OccupancyExcept
<1>5. \A p, n : SubtreeUsed(p, n) = Sum(leases, OccupyingChildren(p), n)
  BY <1>2, <1>3 DEF SubtreeUsed
<1> QED
  BY <1>4, <1>5 DEF CapacityRespected, ChildrenFitParent

\* The same after a step.
LEMMA CapacityAsSumsNext ==
    /\ CapacityRespected' <=>
           \A n \in Nodes : Sum(leases', RootLeases', n) <= graph'.capacity[n]
    /\ ChildrenFitParent' <=>
           \A p \in Leases, n \in Nodes :
               Sum(leases', OccupyingChildren(p)', n) <= leases'[p].claims[n]
<1>1. Roots({})' = RootLeases'
  BY DEF Roots, RootLeases, Occupying
<1>2. \A p : {l \in Children(p)' : Occupies(l)'} = OccupyingChildren(p)'
  BY DEF Children, OccupyingChildren, Occupying
<1>3. \A S, n : Cardinality({u \in S \X (1 .. MaxQuantity) :
                                 u[2] <= leases'[u[1]].claims[n]})
                   = Sum(leases', S, n)
  BY DEF Sum, UnitsOf
<1>4. \A n : OccupancyExcept({}, n)' = Sum(leases', RootLeases', n)
  BY <1>1, <1>3 DEF OccupancyExcept, Units
<1>5. \A p, n : SubtreeUsed(p, n)' = Sum(leases', OccupyingChildren(p)', n)
  BY <1>2, <1>3 DEF SubtreeUsed, Units
<1> QED
  BY <1>4, <1>5 DEF CapacityRespected, ChildrenFitParent

\* The types the sums need.
LEMMA CapacityTypes ==
    ASSUME Shaped
    PROVE  /\ leases \in [Leases -> Lease]
           /\ \A p \in Leases, n \in Nodes : leases[p].claims[n] \in Nat
           /\ \A n \in Nodes : graph.capacity[n] \in Nat
           /\ RootLeases \in SUBSET Leases
           /\ \A p : OccupyingChildren(p) \in SUBSET Leases
<1>1. leases \in [Leases -> Lease] /\ graph \in Graph
  BY ConstantsAssumption DEF Shaped, TypeOK
<1>2. \A p \in Leases, n \in Nodes : leases[p].claims[n] \in Nat
  BY <1>1, ConstantsAssumption DEF Lease, Claims, Quantity
<1>3. \A n \in Nodes : graph.capacity[n] \in Nat
  BY <1>1, ConstantsAssumption DEF Graph, Claims, Quantity
<1> QED
  BY <1>1, <1>2, <1>3 DEF RootLeases, OccupyingChildren, Occupying

-----------------------------------------------------------------------------
(* Three ways in which occupancy changes.                                  *)

\* Occupancy only shrinks, and no lease loses an occupying parent: there are
\* no new roots.
LEMMA TreesShrink ==
    ASSUME CapacityInv, UNCHANGED <<leases, graph>>,
           Occupying' \subseteq Occupying,
           \A l \in Occupying' : leases[l].parent \in Occupying
                                    => leases[l].parent \in Occupying'
    PROVE  CapacityRespected' /\ ChildrenFitParent'
<1>1. RootLeases' \subseteq RootLeases
  BY DEF RootLeases
<1>2. \A p : OccupyingChildren(p)' \subseteq OccupyingChildren(p)
  BY DEF OccupyingChildren
<1>3. ASSUME NEW n \in Nodes
      PROVE  Sum(leases', RootLeases', n) <= graph'.capacity[n]
  <2>1. Sum(leases, RootLeases', n) <= Sum(leases, RootLeases, n)
    BY <1>1, CapacityTypes, SumMonotone DEF CapacityInv
  <2>2. Sum(leases, RootLeases, n) <= graph.capacity[n]
    BY CapacityAsSums DEF CapacityInv
  <2>3. Sum(leases, RootLeases', n) \in Nat /\ Sum(leases, RootLeases, n) \in Nat
        /\ graph.capacity[n] \in Nat
    BY <1>1, CapacityTypes, SumType DEF CapacityInv
  <2> QED  BY <2>1, <2>2, <2>3
<1>4. ASSUME NEW p \in Leases, NEW n \in Nodes
      PROVE  Sum(leases', OccupyingChildren(p)', n) <= leases'[p].claims[n]
  <2>1. Sum(leases, OccupyingChildren(p)', n) <= Sum(leases, OccupyingChildren(p), n)
    BY <1>2, CapacityTypes, SumMonotone DEF CapacityInv
  <2>2. Sum(leases, OccupyingChildren(p), n) <= leases[p].claims[n]
    BY CapacityAsSums DEF CapacityInv
  <2>3. /\ Sum(leases, OccupyingChildren(p)', n) \in Nat
        /\ Sum(leases, OccupyingChildren(p), n) \in Nat
        /\ leases[p].claims[n] \in Nat
    BY <1>2, CapacityTypes, SumType DEF CapacityInv
  <2> QED  BY <2>1, <2>2, <2>3
<1> QED  BY <1>3, <1>4, CapacityAsSumsNext

\* One root stops occupying.  Its children become roots, and together they
\* claim no more than it did.
LEMMA RootEnds ==
    ASSUME CapacityInv, NEW p \in Leases, leases[p].parent = None,
           UNCHANGED <<leases, graph>>, Occupying' = Occupying \ {p}
    PROVE  CapacityRespected' /\ ChildrenFitParent'
<1>1. CASE p \notin Occupying
  <2>1. Occupying' = Occupying
    BY <1>1, Zenon
  <2> QED  BY <2>1, TreesShrink
<1>2. CASE p \in Occupying
  <2> DEFINE R == RootLeases
             K == OccupyingChildren(p)
  <2>0. leases \in [Leases -> Lease] /\ R \in SUBSET Leases /\ K \in SUBSET Leases
    BY CapacityTypes DEF CapacityInv
  <2>1. p \in R
    BY <1>2, ConstantsAssumption DEF RootLeases, Occupying
  <2>2. RootLeases' \subseteq (R \ {p}) \cup K
    BY DEF RootLeases, OccupyingChildren
  <2>3. \A q : OccupyingChildren(q)' \subseteq OccupyingChildren(q)
    BY Zenon DEF OccupyingChildren
  <2>4. ASSUME NEW n \in Nodes
        PROVE  Sum(leases', RootLeases', n) <= graph'.capacity[n]
    <3> DEFINE rest == Sum(leases, R \ {p}, n)
               kids == Sum(leases, K, n)
               own  == leases[p].claims[n]
    <3>1. Sum(leases, RootLeases', n) <= Sum(leases, (R \ {p}) \cup K, n)
      BY <2>0, <2>2, SumMonotone
    <3>2. Sum(leases, (R \ {p}) \cup K, n) <= rest + kids
      BY <2>0, SumUnion
    <3>3. kids <= own
      BY CapacityAsSums, Zenon DEF CapacityInv
    <3>4. Sum(leases, R, n) = rest + own
      <4>1. R = (R \ {p}) \cup {p} /\ (R \ {p}) \cap {p} = {}
        BY <2>1
      <4>2. Sum(leases, (R \ {p}) \cup {p}, n) = rest + Sum(leases, {p}, n)
        BY <2>0, <4>1, SumUnion
      <4> QED  BY <2>0, <4>1, <4>2, SumOne
    <3>5. Sum(leases, R, n) <= graph.capacity[n]
      BY CapacityAsSums, Zenon DEF CapacityInv
    <3>6. /\ rest \in Nat /\ kids \in Nat /\ own \in Nat
          /\ graph.capacity[n] \in Nat
          /\ Sum(leases, (R \ {p}) \cup K, n) \in Nat
          /\ Sum(leases, RootLeases', n) \in Nat
      BY <2>0, <2>2, SumType, CapacityTypes, Zenon DEF CapacityInv
    <3> HIDE DEF rest, kids, own
    <3> QED  BY <3>1, <3>2, <3>3, <3>4, <3>5, <3>6
  <2>5. ASSUME NEW q \in Leases, NEW n \in Nodes
        PROVE  Sum(leases', OccupyingChildren(q)', n) <= leases'[q].claims[n]
    <3>1. Sum(leases, OccupyingChildren(q)', n) <= Sum(leases, OccupyingChildren(q), n)
      BY <2>3, CapacityTypes, SumMonotone, Zenon DEF CapacityInv
    <3>2. Sum(leases, OccupyingChildren(q), n) <= leases[q].claims[n]
      BY CapacityAsSums, Zenon DEF CapacityInv
    <3>3. /\ Sum(leases, OccupyingChildren(q)', n) \in Nat
          /\ Sum(leases, OccupyingChildren(q), n) \in Nat
          /\ leases[q].claims[n] \in Nat
      BY <2>3, CapacityTypes, SumType, Zenon DEF CapacityInv
    <3> QED  BY <3>1, <3>2, <3>3
  <2> QED  BY <2>4, <2>5, CapacityAsSumsNext
<1> QED  BY <1>1, <1>2

\* Opening lease l adds l to the occupying leases and changes no other.
LEMMA NewLeaseOccupies ==
    ASSUME Shaped, NEW l \in Leases, ~Exists(l), NEW st \in LiveLease,
           NEW p \in Leases \cup {None}, NEW claims \in Claims, NEW exp, NEW dl,
           NewLease(l, st, p, claims, exp, dl)
    PROVE  /\ l \notin Occupying
           /\ Occupying' = Occupying \cup {l}
           /\ leases' \in [Leases -> Lease]
           /\ leases'[l].parent = p /\ leases'[l].claims = claims
           /\ \A x \in Leases : x # l => leases'[x] = leases[x]
           /\ \A x \in Leases : leases[x].parent # l
           /\ graph' = graph
<1>1. l \notin Occupying
  <2>1. OpenBindings(l) = {}
    BY BoundTo, Zenon DEF Shaped, AuthorityShape, OpenBindings, Open, OpenBinding, Exists
  <2> QED  BY <2>1, Zenon DEF Occupying, Occupies, Exists, LiveLease
<1>2. \A x \in Leases : x # l => Occupies(x)' = Occupies(x)
  BY Zenon DEF Shaped, TypeOK, NewLease, Occupies, OpenBindings, Open
<1>3. Occupies(l)'
  BY DEF Shaped, TypeOK, NewLease, Occupies
<1>4. Occupying' = Occupying \cup {l}
  BY <1>2, <1>3, Zenon DEF Occupying
<1>5. /\ leases' \in [Leases -> Lease]
      /\ leases'[l].parent = p /\ leases'[l].claims = claims
      /\ \A x \in Leases : x # l => leases'[x] = leases[x]
      /\ graph' = graph
  BY Zenon DEF Shaped, TypeOK, NewLease, Lease
<1>6. \A x \in Leases : leases[x].parent # l
  BY ConstantsAssumption, Zenon DEF Shaped, AuthorityShape, LeaseForest, Exists
<1> QED  BY <1>1, <1>4, <1>5, <1>6

\* The children of the other leases, when lease l is opened under p.
LEMMA OtherChildren ==
    ASSUME CapacityInv, NEW l \in Leases, ~Exists(l), NEW st \in LiveLease,
           NEW p \in Leases \cup {None}, NEW claims \in Claims, NEW exp, NEW dl,
           NewLease(l, st, p, claims, exp, dl),
           NEW q \in Leases, q # p, NEW n \in Nodes
    PROVE  Sum(leases', OccupyingChildren(q)', n) <= leases'[q].claims[n]
<1>0. Shaped
  BY Zenon DEF CapacityInv
<1>1. OccupyingChildren(q)' = OccupyingChildren(q)
  <2>1. /\ Occupying' = Occupying \cup {l} /\ l \notin Occupying
        /\ leases'[l].parent = p
        /\ \A x \in Occupying : leases'[x] = leases[x]
    <3>1. Occupying \subseteq Leases
      BY Zenon DEF Occupying
    <3> QED  BY <1>0, <3>1, NewLeaseOccupies
  <2> QED  BY <2>1, Zenon DEF OccupyingChildren
<1>2. Sum(leases', OccupyingChildren(q), n) = Sum(leases, OccupyingChildren(q), n)
  <2>1. \A x \in OccupyingChildren(q) : leases'[x] = leases[x]
    BY <1>0, NewLeaseOccupies, Zenon DEF OccupyingChildren, Occupying
  <2> QED  BY <1>0, <2>1, SumSame, CapacityTypes, ZenonT(40)
<1>3. CASE q = l
  <2>1. OccupyingChildren(q) = {}
    BY <1>0, <1>3, NewLeaseOccupies, ZenonT(40) DEF OccupyingChildren, Occupying
  <2>2. leases'[q].claims[n] \in Nat
    BY <1>0, NewLeaseOccupies, ConstantsAssumption, SMTT(40) DEF Lease, Claims, Quantity
  <2> QED  BY <1>1, <2>1, <2>2, SumEmpty
<1>4. CASE q # l
  <2>1. Sum(leases, OccupyingChildren(q), n) <= leases[q].claims[n]
    BY CapacityAsSums, Zenon DEF CapacityInv
  <2>2. leases'[q] = leases[q]
    BY <1>0, <1>4, NewLeaseOccupies, Zenon
  <2> QED  BY <1>1, <1>2, <2>1, <2>2, Zenon
<1> QED  BY <1>3, <1>4

\* A root that fits beside the occupying trees keeps the capacity respected.
LEMMA NewRoot ==
    ASSUME CapacityInv, NEW l \in Leases, ~Exists(l), NEW st \in LiveLease,
           NEW claims \in Claims, NEW exp, NEW dl,
           CanCover(l, claims), NewLease(l, st, None, claims, exp, dl)
    PROVE  CapacityRespected' /\ ChildrenFitParent'
<1> DEFINE R == RootLeases
<1>0. Shaped
  BY SMTT(40) DEF CapacityInv
<1>1. R \in SUBSET Leases /\ l \notin R
  BY <1>0, CapacityTypes, NewLeaseOccupies, ZenonT(40) DEF RootLeases
<1>2. RootLeases' = R \cup {l}
  BY <1>0, NewLeaseOccupies, ConstantsAssumption DEF RootLeases, Occupying
<1>3. Roots({l}) = R
  BY <1>0, NewLeaseOccupies DEF Roots, RootLeases, Occupying
<1>4. ASSUME NEW n \in Nodes
      PROVE  Sum(leases', RootLeases', n) <= graph'.capacity[n]
  <2>1. Sum(leases', R \cup {l}, n) = Sum(leases', R, n) + Sum(leases', {l}, n)
    BY <1>1, SumUnion
  <2>2. Sum(leases', R, n) = Sum(leases, R, n)
    <3>1. \A x \in R : leases'[x] = leases[x]
      BY <1>0, <1>1, NewLeaseOccupies, Zenon
    <3> QED  BY <1>1, <3>1, SumSame
  <2>3. Sum(leases', {l}, n) = claims[n]
    <3>1. leases' \in [Leases -> Lease] /\ leases'[l].claims = claims
      BY <1>0, NewLeaseOccupies
    <3>2. Sum(leases', {l}, n) = leases'[l].claims[n]
      BY <3>1, SumOne, Zenon
    <3> QED  BY <3>1, <3>2, Zenon
  <2>4. Sum(leases, R, n) + claims[n] <= graph.capacity[n]
    <3>1. CASE claims[n] # 0
      <4>1. OccupancyExcept({l}, n) = Sum(leases, R, n)
        BY <1>3, Zenon DEF OccupancyExcept, Units, Sum, UnitsOf
      <4> QED  BY <3>1, <4>1, SMTT(40) DEF CanCover, Claimed
    <3>2. CASE claims[n] = 0
      <4>1. Sum(leases, R, n) <= graph.capacity[n] /\ Sum(leases, R, n) \in Nat
        BY <1>1, CapacityAsSums, SumType, Zenon DEF CapacityInv
      <4> QED  BY <3>2, <4>1, SMTT(40)
    <3> QED  BY <3>1, <3>2, Zenon
  <2> QED
    BY <1>0, <1>2, <2>1, <2>2, <2>3, <2>4, NewLeaseOccupies
<1>5. ASSUME NEW q \in Leases, NEW n \in Nodes
      PROVE  Sum(leases', OccupyingChildren(q)', n) <= leases'[q].claims[n]
  BY OtherChildren, ConstantsAssumption, ZenonT(40)
<1> QED  BY <1>4, <1>5, CapacityAsSumsNext

\* A child that fits beside its siblings under an active parent is no root.
LEMMA NewChild ==
    ASSUME CapacityInv, NEW l \in Leases, ~Exists(l), NEW st \in LiveLease,
           NEW p \in Leases, NEW claims \in Claims, NEW exp, NEW dl,
           Delegable(p, claims), NewLease(l, st, p, claims, exp, dl)
    PROVE  CapacityRespected' /\ ChildrenFitParent'
<1> DEFINE R == RootLeases
           K == OccupyingChildren(p)
<1>0. Shaped
  BY ZenonT(40) DEF CapacityInv
<1>1. R \in SUBSET Leases /\ K \in SUBSET Leases /\ l \notin R /\ l \notin K
  BY <1>0, CapacityTypes, NewLeaseOccupies DEF RootLeases, OccupyingChildren
<1>2. p \in Occupying /\ p # l
  BY ZenonT(40) DEF Occupying, Occupies, LiveLease, Delegable, Exists
<1>3. RootLeases' = R
  BY <1>0, <1>2, NewLeaseOccupies, SMTT(40) DEF RootLeases, Occupying
<1>4. OccupyingChildren(p)' = K \cup {l}
  BY <1>0, <1>2, NewLeaseOccupies, SMTT(40) DEF OccupyingChildren, Occupying
<1>5. ASSUME NEW n \in Nodes
      PROVE  Sum(leases', RootLeases', n) <= graph'.capacity[n]
  <2>1. Sum(leases', R, n) = Sum(leases, R, n)
    <3>1. \A x \in R : leases'[x] = leases[x]
      BY <1>0, <1>1, NewLeaseOccupies, Zenon
    <3> QED  BY <1>1, <3>1, SumSame, Zenon
  <2>2. Sum(leases, R, n) <= graph.capacity[n]
    BY CapacityAsSums, Zenon DEF CapacityInv
  <2> QED  BY <1>0, <1>3, <2>1, <2>2, NewLeaseOccupies, Zenon
<1>6. ASSUME NEW n \in Nodes
      PROVE  Sum(leases', OccupyingChildren(p)', n) <= leases'[p].claims[n]
  <2>1. Sum(leases', K \cup {l}, n) = Sum(leases', K, n) + Sum(leases', {l}, n)
    BY <1>1, SumUnion
  <2>2. Sum(leases', K, n) = Sum(leases, K, n)
    <3>1. \A x \in K : leases'[x] = leases[x]
      BY <1>0, <1>1, NewLeaseOccupies
    <3> QED  BY <1>1, <3>1, SumSame, ZenonT(40)
  <2>3. Sum(leases', {l}, n) = claims[n]
    <3>1. leases' \in [Leases -> Lease] /\ leases'[l].claims = claims
      BY <1>0, NewLeaseOccupies
    <3>2. Sum(leases', {l}, n) = leases'[l].claims[n]
      BY <3>1, SumOne, Zenon
    <3> QED  BY <3>1, <3>2, ZenonT(40)
  <2>4. Sum(leases, K, n) + claims[n] <= leases[p].claims[n]
    <3>1. CASE claims[n] # 0
      <4>1. {x \in Children(p) : Occupies(x)} = K
        BY SMTT(40) DEF Children, OccupyingChildren, Occupying
      <4>2. SubtreeUsed(p, n) = Sum(leases, K, n)
        BY <4>1, ZenonT(40) DEF SubtreeUsed, Units, Sum, UnitsOf
      <4> QED  BY <3>1, <4>2, ZenonT(40) DEF Delegable, FitsParent, Claimed
    <3>2. CASE claims[n] = 0
      <4>1. Sum(leases, K, n) <= leases[p].claims[n] /\ Sum(leases, K, n) \in Nat
        BY <1>1, CapacityAsSums, SumType, Zenon DEF CapacityInv
      <4> QED  BY <3>2, <4>1
    <3> QED  BY <3>1, <3>2, Zenon
  <2>5. leases'[p] = leases[p]
    BY <1>0, <1>2, NewLeaseOccupies, ZenonT(40)
  <2> QED  BY <1>4, <2>1, <2>2, <2>3, <2>4, <2>5, ZenonT(40)
<1>7. ASSUME NEW q \in Leases, NEW n \in Nodes
      PROVE  Sum(leases', OccupyingChildren(q)', n) <= leases'[q].claims[n]
  BY <1>6, OtherChildren
<1> QED  BY <1>5, <1>7, CapacityAsSumsNext

-----------------------------------------------------------------------------
(* The actions.                                                            *)

\* Nothing changes when the same leases occupy.
LEMMA SameOccupancy ==
    ASSUME CapacityInv, UNCHANGED <<leases, graph>>, Occupying' = Occupying
    PROVE  CapacityRespected' /\ ChildrenFitParent'
BY TreesShrink

\* Descendants holds the children of the lease and of each of its members
\* (descendants_postorder).
LEMMA DescendantsClosed ==
    ASSUME NEW l \in Leases
    PROVE  /\ Children(l) \subseteq Descendants(l)
           /\ \A x \in Descendants(l) : Children(x) \subseteq Descendants(l)
<1>1. \A x : Children(x) \subseteq Leases
  BY DEF Children
<1>2. Children(l) \subseteq Descendants(l)
  BY <1>1 DEF Descendants, DescendantClosed
<1>3. ASSUME NEW x \in Descendants(l), NEW y \in Children(x)
      PROVE  y \in Descendants(l)
  <2>1. ASSUME NEW S \in SUBSET Leases, DescendantClosed(l, S) PROVE y \in S
    <3>1. x \in S
      BY <2>1, Zenon DEF Descendants
    <3> QED  BY <2>1, <3>1 DEF DescendantClosed
  <2> QED  BY <1>1, <2>1 DEF Descendants
<1> QED  BY <1>2, <1>3

\* Ending a lease with its descendants creates no root: a child has no
\* bindings, so it stops occupying with its parent.
LEMMA EndTreeShrinks ==
    ASSUME CapacityInv, NEW l \in Leases, NEW keep, NEW st,
           EndTree(l, keep, st), st \notin LiveLease, keep \cap LiveLease = {},
           UNCHANGED <<binding_state, bindings, graph>>
    PROVE  CapacityRespected' /\ ChildrenFitParent'
<1> DEFINE T == {l} \cup Descendants(l)
<1>0. Shaped
  BY Zenon DEF CapacityInv
<1>1. /\ \A x \in Leases \ T : lease_state'[x] = lease_state[x]
      /\ \A x \in Leases \cap T : lease_state'[x] \notin LiveLease
      /\ \A x \in Leases : lease_state'[x] \in LiveLease
                             => lease_state[x] \in LiveLease
  BY Zenon DEF EndTree, SetStates
<1>2. \A x : OpenBindings(x)' = OpenBindings(x)
  BY Zenon DEF OpenBindings, Open
<1>3. Occupying' \subseteq Occupying
  BY <1>1, <1>2, Zenon DEF Occupying, Occupies
<1>4. ASSUME NEW x \in Occupying', leases[x].parent \in Occupying,
             leases[x].parent \notin Occupying'
      PROVE  FALSE
  <2> DEFINE y == leases[x].parent
  <2>1. x \in Leases /\ y \in Leases /\ y # None
    BY <1>4, ConstantsAssumption, Zenon DEF Occupying
  <2>2. y \in T
    BY <1>1, <1>2, <1>4, <2>1, Zenon DEF Occupying, Occupies
  <2>3. x \in T
    BY <2>1, <2>2, DescendantsClosed, ZenonT(40) DEF Children
  <2>4. OpenBindings(x) = {}
    BY <1>0, <2>1, BoundTo
    DEF Shaped, AuthorityShape, OpenBindings, Open, OpenBinding
  <2> QED  BY <1>1, <1>2, <1>4, <2>1, <2>3, <2>4, Zenon DEF Occupying, Occupies
<1>5. UNCHANGED <<leases, graph>>
  BY Zenon DEF EndTree
<1> QED  BY <1>3, <1>4, <1>5, TreesShrink

\* Commands on leases.
LEMMA LeaseCapacity ==
    ASSUME CapacityInv, NEW l \in Leases, LeaseNext(l)
    PROVE  CapacityRespected' /\ ChildrenFitParent'
<1>0. TypeOK /\ graph \in Graphs
  BY DEF CapacityInv, Shaped, TypeOK
<1>1. ASSUME NEW c \in ClaimSets, NEW exp \in Expiries, ReserveLease(l, c, exp)
      PROVE  CapacityRespected' /\ ChildrenFitParent'
  BY <1>0, <1>1, ResolvedClaims, NewRoot DEF ReserveLease, LiveLease
<1>2. ASSUME NEW c \in ClaimSets, NEW exp \in Expiries,
             NEW p \in Leases \cup {None}, NEW dl \in Deadlines,
             OpenLease(l, c, p, exp, dl)
      PROVE  CapacityRespected' /\ ChildrenFitParent'
  <2>1. CASE p = None
    BY <1>0, <1>2, <2>1, ResolvedClaims, NewRoot, Zenon DEF OpenLease, LiveLease
  <2>2. CASE p # None
    BY <1>0, <1>2, <2>2, ResolvedClaims, NewChild DEF OpenLease, LiveLease
  <2> QED  BY <2>1, <2>2, Zenon
<1>3. ASSUME UNCHANGED <<leases, graph, binding_state, bindings>>,
             \A x \in Leases : lease_state'[x] \in LiveLease
                                <=> lease_state[x] \in LiveLease
      PROVE  CapacityRespected' /\ ChildrenFitParent'
  <2>1. Occupying' = Occupying
    BY <1>3, Zenon DEF Occupying, Occupies, OpenBindings, Open
  <2> QED  BY <1>3, <2>1, SameOccupancy, Zenon
<1>4. ASSUME NEW dl \in Deadlines, PromoteLease(l, dl)
      PROVE  CapacityRespected' /\ ChildrenFitParent'
  BY <1>0, <1>3, <1>4, Zenon DEF PromoteLease, TypeOK, LiveLease
<1>5. ASSUME NEW exp \in Expiries, RenewLease(l, exp)
      PROVE  CapacityRespected' /\ ChildrenFitParent'
  BY <1>3, <1>5, Zenon DEF RenewLease
<1>6. ASSUME NEW final \in {"Completed", "Failed"}, CompleteLease(l, final)
      PROVE  CapacityRespected' /\ ChildrenFitParent'
  <2>1. CASE UNCHANGED lease_vars
    BY <1>3, <1>6, <2>1, Zenon DEF CompleteLease
  <2>2. CASE EndTree(l, EndedLease \cup {"Completed"}, final)
    BY <1>6, <2>2, EndTreeShrinks, Zenon DEF CompleteLease, EndedLease, LiveLease
  <2> QED  BY <1>6, <2>1, <2>2, Zenon DEF CompleteLease
<1>7. CASE ActivateLease(l)
  BY <1>0, <1>3, <1>7, Zenon DEF ActivateLease, TypeOK, LiveLease
<1>8. CASE FailLease(l)
  BY <1>8, EndTreeShrinks, SMTT(40) DEF FailLease, EndedLease, LiveLease
<1>9. CASE ReleaseLease(l)
  <2>1. /\ UNCHANGED <<leases, graph, binding_state, bindings>>
        /\ \A x \in Leases : x # l => lease_state'[x] = lease_state[x]
        /\ lease_state'[l] = "Released"
    BY <1>0, <1>9 DEF ReleaseLease, TypeOK
  <2>2. Occupying' \subseteq Occupying /\ Occupying \ {l} \subseteq Occupying'
    BY <2>1, ZenonT(40) DEF Occupying, Occupies, OpenBindings, Open, LiveLease
  <2>3. \A x \in Occupying : leases[x].parent # l
    BY <1>9, DescendantsClosed DEF ReleaseLease, Occupying, Children
  <2> QED  BY <2>1, <2>2, <2>3, TreesShrink, Zenon
<1>10. CASE RevokeLease(l)
  BY <1>10, EndTreeShrinks, Zenon DEF RevokeLease, EndedLease, LiveLease
<1>11. CASE ExpireLease(l)
  <2>1. CASE UNCHANGED lease_vars
    BY <1>3, <1>11, <2>1, Zenon DEF ExpireLease
  <2>2. CASE EndTree(l, EndedLease, "Expired")
    BY <1>11, <2>2, EndTreeShrinks, SMTT(40) DEF ExpireLease, EndedLease, LiveLease
  <2> QED  BY <1>11, <2>1, <2>2, Zenon DEF ExpireLease
<1> QED
  BY <1>1, <1>2, <1>4, <1>5, <1>6, <1>7, <1>8, <1>9, <1>10, <1>11, Zenon DEF LeaseNext

\* A command on an opened binding ends at most the tree of its own root.
LEMMA BindingMoves ==
    ASSUME CapacityInv, NEW b \in Bindings, binding_state[b] # "Absent",
           UNCHANGED <<leases, graph, bindings>>,
           \A x \in Bindings : x # b => binding_state'[x] = binding_state[x],
           Open(b)' => Open(b),
           \A x \in Leases : x # bindings[b].lease
                                 => lease_state'[x] = lease_state[x],
           lease_state'[bindings[b].lease] \in LiveLease
               => lease_state[bindings[b].lease] \in LiveLease
    PROVE  CapacityRespected' /\ ChildrenFitParent'
<1> DEFINE p == bindings[b].lease
<1>1. p \in Leases /\ leases[p].parent = None
  BY BoundTo, Zenon DEF CapacityInv, Shaped, AuthorityShape
<1>2. \A x \in Leases : x # p => Occupies(x)' = Occupies(x)
  BY ZenonT(40) DEF Occupies, OpenBindings, Open
<1>3. Occupies(p)' => Occupies(p)
  BY <1>1, ZenonT(40) DEF Occupies, OpenBindings, Open
<1>4. Occupying' = Occupying \/ Occupying' = Occupying \ {p}
  BY <1>1, <1>2, <1>3, Zenon DEF Occupying
<1> QED  BY <1>1, <1>4, SameOccupancy, RootEnds, Zenon

\* Commands on bindings.
LEMMA BindingCapacity ==
    ASSUME CapacityInv, NEW b \in Bindings, BindingNext(b)
    PROVE  CapacityRespected' /\ ChildrenFitParent'
<1>0. TypeOK /\ BindingsEnforceRoots
  BY DEF CapacityInv, Shaped, AuthorityShape
<1>1. ASSUME NEW l \in Leases, NEW n \in Nodes, OpenNewBinding(b, l, n)
      PROVE  CapacityRespected' /\ ChildrenFitParent'
  <2>1. /\ UNCHANGED <<lease_state, leases, graph>>
        /\ bindings'[b].lease = l
        /\ \A x \in Bindings : x # b => /\ bindings'[x] = bindings[x]
                                        /\ binding_state'[x] = binding_state[x]
        /\ lease_state[l] = "Preparing"
        /\ ~Open(b)
    BY <1>0, <1>1, Zenon DEF TypeOK, OpenNewBinding, Bindable, Open, OpenBinding
  <2>2. \A x \in Leases : x # l => OpenBindings(x)' = OpenBindings(x)
    BY <2>1, Zenon DEF OpenBindings, Open
  <2>3. Occupying' = Occupying
    BY <2>1, <2>2, Zenon DEF Occupying, Occupies, LiveLease
  <2> QED  BY <2>1, <2>3, SameOccupancy, Zenon
<1>2. ASSUME binding_state[b] # "Absent", UNCHANGED <<lease_vars, graph, bindings>>,
             \A x \in Bindings : x # b => binding_state'[x] = binding_state[x],
             Open(b)' => Open(b)
      PROVE  CapacityRespected' /\ ChildrenFitParent'
  BY <1>2, BindingMoves, Zenon
<1>3. ASSUME NEW kind, Send(kind, b), binding_state[b] # "Absent"
      PROVE  CapacityRespected' /\ ChildrenFitParent'
  BY <1>2, <1>3, Zenon DEF Send, Open
<1>4. CASE RetryOpenBinding(b) \/ FenceBinding(b) \/ ReleaseBinding(b)
  BY <1>3, <1>4, Zenon DEF RetryOpenBinding, FenceBinding, ReleaseBinding, OpenBinding
<1>5. CASE ActivateBinding(b)
  BY <1>0, <1>2, <1>5, Zenon DEF ActivateBinding, TypeOK, Open, OpenBinding
<1>6. CASE FailBinding(b)
  BY <1>0, <1>2, <1>6, Zenon DEF FailBinding, TypeOK, Open, OpenBinding
<1>7. ASSUME NEW s, NEW st, Record(b, s, st)
      PROVE  /\ binding_state'[b] = st
             /\ \A x \in Bindings : x # b => binding_state'[x] = binding_state[x]
             /\ UNCHANGED bindings
  BY <1>0, <1>7 DEF Record, TypeOK
<1>8. ASSUME NEW s, RebindSession(b, s)
      PROVE  CapacityRespected' /\ ChildrenFitParent'
  BY <1>2, <1>7, <1>8, ZenonT(40) DEF RebindSession, Open
<1>9. ASSUME NEW s, NEW f,
             RecordPrepared(b, s, f) \/ RecordActive(b, s, f)
                 \/ RecordReleased(b, s, f) \/ RecordFenced(b, s, f)
      PROVE  CapacityRespected' /\ ChildrenFitParent'
  <2>1. binding_state[b] # "Absent" /\ UNCHANGED <<lease_vars, graph>>
    BY <1>9, Zenon
    DEF RecordPrepared, RecordActive, RecordReleased, RecordFenced, Acknowledged,
        OutsideBindings, graph_vars
  <2>2. PICK st : Record(b, s, st) /\ (st \in OpenBinding => Open(b))
    BY <1>9, SMTT(40)
    DEF RecordPrepared, RecordActive, RecordReleased, RecordFenced, Open, OpenBinding
  <2>3. Open(b)' => Open(b)
    BY <1>7, <2>2 DEF Open
  <2> QED  BY <1>2, <1>7, <2>1, <2>2, <2>3
<1>10. ASSUME NEW s, NEW f, RecordFailed(b, s, f)
       PROVE  CapacityRespected' /\ ChildrenFitParent'
  <2> DEFINE p == bindings[b].lease
  <2>1. binding_state[b] # "Absent" /\ p \in Leases
    BY <1>0, <1>10, BoundTo, ZenonT(40) DEF RecordFailed, Acknowledged
  <2>2. /\ \A x \in Leases : x # p => lease_state'[x] = lease_state[x]
        /\ lease_state'[p] \notin LiveLease
    BY <1>0, <1>10, <2>1
    DEF RecordFailed, SetStates, TypeOK, EndedLease, LiveLease
  <2>3. Open(b)' => Open(b)
    BY <1>7, <1>10, Zenon DEF RecordFailed, FailedState, Open
  <2> QED
    BY <1>7, <1>10, <2>1, <2>2, <2>3, BindingMoves, Zenon DEF RecordFailed
<1> QED
  BY <1>1, <1>4, <1>5, <1>6, <1>8, <1>9, <1>10 DEF BindingNext, Acknowledge

\* A graph update is installed only when the new capacity covers the
\* occupancy (install_resource_graph).
LEMMA GraphCapacity ==
    ASSUME CapacityInv, NEW g \in Graphs, ApplyResourceFacts(g)
    PROVE  CapacityRespected' /\ ChildrenFitParent'
<1>1. UNCHANGED <<lease_state, leases, binding_state, bindings>> /\ graph' = g
  BY SMTT(40) DEF ApplyResourceFacts
<1>2. \A n : OccupancyExcept({}, n)' = OccupancyExcept({}, n)
  BY <1>1, Zenon DEF OccupancyExcept, Units, Roots, Occupies, OpenBindings, Open
<1>3. \A p, n : SubtreeUsed(p, n)' = SubtreeUsed(p, n)
  BY <1>1, Zenon DEF SubtreeUsed, Units, Children, Occupies, OpenBindings, Open
<1>4. CapacityRespected'
  BY <1>1, <1>2, Zenon DEF CapacityRespected, ApplyResourceFacts, Installable
<1>5. ChildrenFitParent'
  BY <1>1, <1>3, Zenon DEF ChildrenFitParent, CapacityInv
<1> QED  BY <1>4, <1>5, Zenon

\* Every step of the kernel keeps both capacity invariants.
LEMMA NextCapacity == CapacityInv /\ [Next]_vars => CapacityInv'
<1> SUFFICES ASSUME CapacityInv, [Next]_vars PROVE CapacityInv'
  OBVIOUS
<1>1. Shaped'
  BY NextShaped, Zenon DEF CapacityInv
<1>2. ASSUME UNCHANGED <<lease_vars, binding_vars, graph>>
      PROVE  CapacityRespected' /\ ChildrenFitParent'
  <2>1. Occupying' = Occupying
    BY <1>2, Zenon DEF Occupying, Occupies, OpenBindings, Open
  <2> QED  BY <1>2, <2>1, SameOccupancy, Zenon
<1>3. CASE UNCHANGED vars
  BY <1>1, <1>2, <1>3, Zenon DEF vars, CapacityInv
<1>4. CASE \E l \in Leases : LeaseNext(l)
  BY <1>1, <1>4, LeaseCapacity, Zenon DEF CapacityInv
<1>5. CASE \E b \in Bindings : BindingNext(b)
  BY <1>1, <1>5, BindingCapacity, Zenon DEF CapacityInv
<1>6. CASE \E g \in Graphs : ApplyResourceFacts(g)
  BY <1>1, <1>6, GraphCapacity DEF CapacityInv
<1>7. CASE \/ \E t \in 0 .. MaxTime : SetNow(t)
           \/ \E a \in AgreementInputs : SetAgreement(a)
           \/ AdvanceEpoch
           \/ \E n \in ControlledNodes : NodeNext(n)
           \/ \E p \in Providers, n \in Nodes, f \in 1 .. MaxFence :
                  AdvanceEndpointFence(p, n, f)
           \/ \E m \in Machines, s \in 1 .. MaxSession : SetAgentSession(m, s)
  <2>1. UNCHANGED <<lease_vars, binding_vars, graph>>
    BY <1>7, Zenon
    DEF SetNow, SetAgreement, AdvanceEpoch, NodeNext, QuarantineNode,
        UnquarantineNode, SetNodeState, AdvanceEndpointFence, SetAgentSession
  <2> QED  BY <1>1, <1>2, <2>1 DEF CapacityInv
<1> QED
  BY <1>3, <1>4, <1>5, <1>6, <1>7 DEF Next

\* At the start nothing occupies.
LEMMA InitCapacity == Init => CapacityInv
<1> SUFFICES ASSUME Init PROVE CapacityInv
  OBVIOUS
<1>1. Shaped
  BY InitShaped, Zenon
<1>2. Occupying = {}
  BY Zenon DEF Init, Occupying, Occupies, OpenBindings, Open, OpenBinding, LiveLease
<1>3. RootLeases = {} /\ \A p : OccupyingChildren(p) = {}
  BY <1>2, Zenon DEF RootLeases, OccupyingChildren
<1>4. \A n \in Nodes : Sum(leases, RootLeases, n) <= graph.capacity[n]
  BY <1>1, <1>3, CapacityTypes, SumEmpty
<1>5. \A p \in Leases, n \in Nodes :
          Sum(leases, OccupyingChildren(p), n) <= leases[p].claims[n]
  <2> SUFFICES ASSUME NEW p \in Leases, NEW n \in Nodes
               PROVE  Sum(leases, OccupyingChildren(p), n) <= leases[p].claims[n]
    OBVIOUS
  <2>1. leases[p].claims[n] \in Nat
    BY <1>1, CapacityTypes
  <2>2. OccupyingChildren(p) = {}
    BY <1>3, Zenon
  <2>3. Sum(leases, OccupyingChildren(p), n) = 0
    BY <2>2, SumEmpty
  <2> QED  BY <2>1, <2>3
<1> QED  BY <1>1, <1>4, <1>5, CapacityAsSums DEF CapacityInv

-----------------------------------------------------------------------------

\* No node is ever oversubscribed: in every reachable state the claims of the
\* occupying trees, those being torn down included, fit the node's capacity.
THEOREM CapacitySafe == Spec => []CapacityRespected
<1>1. CapacityInv => CapacityRespected
  BY DEF CapacityInv
<1> QED  BY <1>1, InitCapacity, NextCapacity, PTL DEF Spec

\* No lease ever delegates a unit twice: in every reachable state the
\* occupying children of a lease fit its own claims.
THEOREM DelegationSafe == Spec => []ChildrenFitParent
<1>1. CapacityInv => ChildrenFitParent
  BY DEF CapacityInv
<1> QED  BY <1>1, InitCapacity, NextCapacity, PTL DEF Spec
=============================================================================
