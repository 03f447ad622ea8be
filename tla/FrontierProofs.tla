--------------------------- MODULE FrontierProofs --------------------------
(***************************************************************************)
(* Proofs about FrontierCycle, for every grid, inflation, set of images    *)
(* and set of cells a failed escape may mark.                              *)
(***************************************************************************)
EXTENDS FrontierProperties, ClusterProofs

-----------------------------------------------------------------------------
(* The grid. *)

\* The part of TypeOK the grid's arguments rest on.
GridType == occupancy \in [Cell -> {"UNKNOWN", "FREE", "OCCUPIED"}] /\ inflated \subseteq Cell

\* A cell is in the disc of another if that is in its own.
LEMMA NearIsSymmetric ==
  ASSUME NEW c \in Cell, NEW o \in Near(c)
  PROVE  o \in Cell /\ c \in Near(o)
<1> DEFINE a == c[1]
           b == c[2]
           x == o[1]
           y == o[2]
<1>1. o \in Cell /\ (a - x) * (a - x) + (b - y) * (b - y) <= InflationSquared
  BY DEF Near
<1>2. a \in Int /\ b \in Int /\ x \in Int /\ y \in Int
  BY <1>1, SizeAssumption DEF Cell
<1>3. \A m, n \in Int : (m - n) * (m - n) = (n - m) * (n - m)
  OBVIOUS
<1>4. (x - a) * (x - a) + (y - b) * (y - b) = (a - x) * (a - x) + (b - y) * (b - y)
  BY <1>2, <1>3
<1> QED
  BY <1>1, <1>4 DEF Near

\* An image leaves the grid's types, and no inflation without its obstacle: an
\* obstacle that disappears takes its whole disc along.
LEMMA ImageStep ==
  ASSUME GridType, NoGhostInflation, NEW scan \in Scans, depthPoseCallback(scan)
  PROVE  GridType' /\ NoGhostInflation'
<1>1. /\ scan.hits \in SUBSET Cell /\ scan.misses \in SUBSET Cell
      /\ scan.hits \cap scan.misses = {}
  BY ScansAssumption DEF Scan
<1>2. PICK turned \in SUBSET Contradicted(scan) :
        /\ occupancy' = Fused(scan, turned)
        /\ inflated' = Reinflated(turned \cap scan.misses,
                         {c \in BoxOf({scan.sensor} \cup scan.hits \cup scan.misses) :
                            Fused(scan, turned)[c] = "OCCUPIED"})
  BY DEF depthPoseCallback
<1>3. GridType'
  <2>1. Fused(scan, turned) \in [Cell -> {"UNKNOWN", "FREE", "OCCUPIED"}]
    BY DEF Fused, GridType
  <2>2. Reinflated(turned \cap scan.misses,
                   {c \in BoxOf({scan.sensor} \cup scan.hits \cup scan.misses) :
                      Fused(scan, turned)[c] = "OCCUPIED"}) \subseteq Cell
    BY DEF Reinflated, Near, GridType
  <2> QED
    BY <1>2, <2>1, <2>2 DEF GridType
<1>4. ASSUME NEW c \in inflated'
      PROVE  \E o \in Near(c) : occupancy'[o] = "OCCUPIED"
  <2>0. c \in Cell
    BY <1>3 DEF GridType
  <2>1. CASE \E o \in BoxOf({scan.sensor} \cup scan.hits \cup scan.misses) :
               Fused(scan, turned)[o] = "OCCUPIED" /\ c \in Near(o)
    <3>1. PICK o \in BoxOf({scan.sensor} \cup scan.hits \cup scan.misses) :
            Fused(scan, turned)[o] = "OCCUPIED" /\ c \in Near(o)
      BY <2>1
    <3>2. o \in Cell
      BY DEF BoxOf
    <3>3. o \in Near(c)
      BY <3>1, <3>2, NearIsSymmetric
    <3> QED
      BY <1>2, <3>1, <3>3
  <2>2. CASE c \in inflated /\ \A f \in turned \cap scan.misses : c \notin Near(f)
    <3>1. PICK o \in Near(c) : occupancy[o] = "OCCUPIED"
      BY <2>2 DEF NoGhostInflation
    <3>2. o \in Cell /\ c \in Near(o)
      BY <2>0, NearIsSymmetric
    <3>3. o \notin turned
      BY <2>2, <3>1, <3>2 DEF Contradicted
    <3>4. Fused(scan, turned)[o] = "OCCUPIED"
      BY <3>1, <3>2, <3>3 DEF Fused
    <3> QED
      BY <1>2, <3>1, <3>4
  <2> QED
    BY <1>2, <2>1, <2>2 DEF Reinflated
<1> QED
  BY <1>3, <1>4 DEF NoGhostInflation

\* A failed escape adds obstacles only.
LEMMA ForceOccStep ==
  ASSUME GridType, NoGhostInflation, NEW cells \in StuckCells, setForceOccGrid(cells)
  PROVE  GridType' /\ NoGhostInflation'
<1>1. /\ occupancy' = [c \in Cell |-> IF c \in cells THEN "OCCUPIED" ELSE occupancy[c]]
      /\ inflated' = inflated
  BY DEF setForceOccGrid
<1>2. \A o \in Cell : occupancy[o] = "OCCUPIED" => occupancy'[o] = "OCCUPIED"
  BY <1>1
<1>3. \A c \in inflated : Near(c) \subseteq Cell
  BY DEF Near
<1> QED
  BY <1>1, <1>2, <1>3 DEF GridType, NoGhostInflation

\* Every step keeps both.
LEMMA GridStep ==
  ASSUME GridType, NoGhostInflation, [Next]_vars
  PROVE  GridType' /\ NoGhostInflation'
<1> SUFFICES ASSUME ~UNCHANGED <<occupancy, inflated>> PROVE GridType' /\ NoGhostInflation'
  <2>1. UNCHANGED <<occupancy, inflated>> => occupancy' = occupancy /\ inflated' = inflated
    OBVIOUS
  <2> QED
    BY <2>1 DEF GridType, NoGhostInflation
<1>1. CASE \E scan \in Scans : Observe(scan)
  BY <1>1, ImageStep DEF Observe
<1>2. CASE \E cells \in StuckCells : GiveUpEscape(cells)
  BY <1>2, ForceOccStep DEF GiveUpEscape
<1>3. CASE IdleUpdate \/ StartPlanning \/ Escape
  BY <1>3 DEF IdleUpdate, StartPlanning, updateFrontierAndObject, Escape, sdfVars
<1>4. CASE \E K \in active \cup dormant, force \in BOOLEAN : ChooseTarget(K, force)
  BY <1>4 DEF ChooseTarget, Follow, sdfVars
<1>5. CASE \E force \in BOOLEAN : KeepTarget(force)
  BY <1>5 DEF KeepTarget, Follow, sdfVars
<1>6. CASE SearchObject
  BY <1>6 DEF SearchObject, sdfVars
<1>7. CASE UNCHANGED vars
  BY <1>7 DEF vars, sdfVars
<1> QED
  BY <1>1, <1>2, <1>3, <1>4, <1>5, <1>6, <1>7 DEF Next

\* Inflation never outlives its obstacle, for every grid and every sequence of
\* images, marks and planning calls.
THEOREM NoGhosts == Spec => []NoGhostInflation
<1>1. Init => GridType /\ NoGhostInflation
  BY DEF Init, SdfInit, GridType, NoGhostInflation
<1>2. GridType /\ NoGhostInflation /\ [Next]_vars => GridType' /\ NoGhostInflation'
  BY GridStep
<1> QED
  BY <1>1, <1>2, PTL DEF Spec

-----------------------------------------------------------------------------
(* The target. *)

Listed == \E K \in active \cup dormant : Average(K) = target

\* What the planner may rely on: unless it must choose anew, or a loss was not
\* heeded, its target is listed.
TargetInv ==
  /\ unheeded \in BOOLEAN /\ phase \in {"world", "plan", "stuck"}
  /\ exploring => target # NoTarget
  /\ exploring /\ ~dormantFlag /\ ~unheeded /\ (phase = "world" \/ ~changed) => Listed

\* A frontier update that reports nothing, and of which nothing went unreported,
\* removes no cluster.
LEMMA QuietUpdateKeepsLists ==
  ASSUME updateFrontierAndObject, ~changed', Removed = {}
  PROVE  active \cup dormant \subseteq active' \cup dormant'
<1>1. PICK new \in SplitsOfAll(Found) :
        \E seen \in SUBSET ((active \ Removed) \cup new) : SearchAndRetire(new, seen)
  BY DEF updateFrontierAndObject
<1>2. PICK seen \in SUBSET ((active \ Removed) \cup new) : SearchAndRetire(new, seen)
  BY <1>1
<1>3. /\ active' = ((active \ Removed) \cup new) \ seen
      /\ dormant' = (dormant \ Removed) \cup seen
  BY <1>2 DEF SearchAndRetire
<1> QED
  BY <1>3

\* The parts of a planning call after the frontier update. A target that is
\* not forced dormant stays, or is the centre of a listed cluster.
LEMMA FollowStep ==
  ASSUME TargetInv, NEW force \in BOOLEAN
  PROVE  /\ \A K \in active \cup dormant : ChooseTarget(K, force) => TargetInv'
         /\ KeepTarget(force) => TargetInv'
<1>1. ASSUME NEW K \in active \cup dormant, ChooseTarget(K, force)
      PROVE  TargetInv'
  <2>1. /\ phase' = "world" /\ dormantFlag' = force /\ unheeded' = FALSE
        /\ target' = Average(K)
    BY <1>1 DEF ChooseTarget, Follow
  <2>2. Average(K) # NoTarget
    BY DEF Average, NoTarget
  <2>3. ~force => active' = active /\ dormant' = dormant
    BY <1>1 DEF ChooseTarget, Follow, frontierVars
  <2>4. ~force => Listed'
    BY <2>1, <2>3 DEF Listed
  <2> QED
    BY <2>1, <2>2, <2>4 DEF TargetInv
<1>2. ASSUME KeepTarget(force)
      PROVE  TargetInv'
  <2>1. /\ phase' = "world" /\ dormantFlag' = force /\ unheeded' = unheeded
        /\ target' = target /\ exploring /\ ~dormantFlag /\ ~changed
    BY <1>2 DEF KeepTarget, Follow, Replan
  <2>2. ~force => active' = active /\ dormant' = dormant
    BY <1>2 DEF KeepTarget, Follow, frontierVars
  <2>3. ~unheeded => Listed
    BY <2>1 DEF TargetInv
  <2>4. ~force /\ ~unheeded => Listed'
    BY <2>1, <2>2, <2>3 DEF Listed
  <2> QED
    BY <2>1, <2>4 DEF TargetInv
<1> QED
  BY <1>1, <1>2

\* Every step keeps what the planner relies on.
LEMMA TargetStep ==
  ASSUME TargetInv, [Next]_vars
  PROVE  TargetInv'
<1>1. CASE \E scan \in Scans : Observe(scan)
  BY <1>1 DEF Observe, frontierVars, planVars, TargetInv, Listed
<1>2. CASE IdleUpdate
  <2>1. ~exploring' /\ target' = target /\ phase' = phase /\ unheeded' = unheeded
        /\ phase = "world"
    BY <1>2 DEF IdleUpdate, TargetInv
  <2> QED
    BY <2>1 DEF TargetInv
<1>3. CASE StartPlanning
  <2>1. /\ phase = "world" /\ phase' = "plan" /\ updateFrontierAndObject
        /\ unheeded' = (unheeded \/ (Removed # {} /\ ~changed'))
        /\ dormantFlag' = dormantFlag /\ exploring' = exploring /\ target' = target
    BY <1>3 DEF StartPlanning
  <2>2. unheeded' \in BOOLEAN
    BY <2>1 DEF TargetInv
  <2>3. ASSUME exploring', ~dormantFlag', ~unheeded', ~changed'
        PROVE  Listed'
    <3>1. ~unheeded /\ Removed = {}
      BY <2>1, <2>3
    <3>2. active \cup dormant \subseteq active' \cup dormant'
      BY <2>1, <2>3, <3>1, QuietUpdateKeepsLists
    <3>3. Listed
      BY <2>1, <2>3, <3>1 DEF TargetInv
    <3> QED
      BY <2>1, <3>2, <3>3 DEF Listed
  <2> QED
    BY <2>1, <2>2, <2>3 DEF TargetInv
<1>4. CASE Escape
  <2>1. /\ phase' = "world" /\ unheeded' = (unheeded \/ changed)
        /\ active' = active /\ dormant' = dormant
        /\ dormantFlag' = dormantFlag /\ exploring' = exploring /\ target' = target
    BY <1>4 DEF Escape, frontierVars
  <2>2. unheeded' \in BOOLEAN
    BY <2>1 DEF TargetInv
  <2>3. exploring' /\ ~dormantFlag' /\ ~unheeded' => Listed'
    BY <2>1 DEF TargetInv, Listed
  <2> QED
    BY <2>1, <2>2, <2>3 DEF TargetInv
<1>5. CASE \E cells \in StuckCells : GiveUpEscape(cells)
  BY <1>5 DEF GiveUpEscape, TargetInv
<1>6. CASE \E K \in active \cup dormant, force \in BOOLEAN : ChooseTarget(K, force)
  BY <1>6, FollowStep
<1>7. CASE \E force \in BOOLEAN : KeepTarget(force)
  BY <1>7, FollowStep
<1>8. CASE SearchObject
  BY <1>8 DEF SearchObject, TargetInv
<1>9. CASE UNCHANGED vars
  BY <1>9 DEF vars, frontierVars, planVars, TargetInv, Listed
<1> QED
  BY <1>1, <1>2, <1>3, <1>4, <1>5, <1>6, <1>7, <1>8, <1>9 DEF Next

\* The planner keeps a target only while it is the centre of a listed cluster,
\* unless a loss of a cluster was not reported to a planning call that chose.
THEOREM TargetsAreListed == Spec => KeptTargetIsListed
<1>1. Init => TargetInv
  BY DEF Init, TargetInv
<1>2. TargetInv /\ [Next]_vars => TargetInv'
  BY TargetStep
<1>3. TargetInv
      => [\A force \in BOOLEAN :
            KeepTarget(force) /\ ~unheeded => \E K \in active \cup dormant : Average(K) = target]_vars
  <2> SUFFICES ASSUME TargetInv, NEW force \in BOOLEAN, KeepTarget(force), ~unheeded
               PROVE  Listed
    BY DEF Listed
  <2>1. exploring /\ ~dormantFlag /\ ~changed /\ phase \in {"plan", "stuck"}
    BY DEF KeepTarget, Follow, Replan
  <2> QED
    BY <2>1 DEF TargetInv
<1> QED
  BY <1>1, <1>2, <1>3, PTL DEF Spec, KeptTargetIsListed

-----------------------------------------------------------------------------
(* The search. *)

\* The groups a search finds are disjoint sets of candidates, none empty.
LEMMA FoundIsSound ==
  /\ Candidates \in SUBSET Cell /\ IsFiniteSet(Candidates)
  /\ Found \in SUBSET SUBSET Candidates /\ {} \notin Found
  /\ \A K, L \in Found : K # L => K \cap L = {}
<1>1. Candidates \in SUBSET Cell
  BY DEF Candidates
<1>2. IsFiniteSet(Candidates)
  BY <1>1, GridFacts, FS_Subset
<1>3. \A K \in Found : \E c \in Candidates : K = Component(c, Candidates)
  BY DEF Found
<1>4. ASSUME NEW K \in Found PROVE K \in SUBSET Candidates /\ K # {}
  <2>1. PICK c \in Candidates : K = Component(c, Candidates)
    BY <1>3
  <2>2. K \subseteq Candidates \cup {c} /\ c \in K
    BY <1>2, <2>1, ComponentIsWithin, ComponentIsClosed
  <2> QED
    BY <2>2
<1>5. ASSUME NEW K \in Found, NEW L \in Found, NEW e \in K, e \in L PROVE K = L
  <2>1. PICK c \in Candidates : K = Component(c, Candidates)
    BY <1>3
  <2>2. PICK d \in Candidates : L = Component(d, Candidates)
    BY <1>3
  <2>3. Component(e, Candidates) = Component(c, Candidates)
    BY <1>1, <2>1, SameComponent
  <2>4. Component(e, Candidates) = Component(d, Candidates)
    BY <1>1, <1>5, <2>2, SameComponent
  <2> QED
    BY <2>1, <2>2, <2>3, <2>4
<1> QED
  BY <1>1, <1>2, <1>4, <1>5

\* However they are split, the new clusters hold the cells of those groups, each
\* in one cluster.
LEMMA NewClusters ==
  ASSUME NEW new \in SplitsOfAll(Found)
  PROVE  /\ UNION new = UNION Found /\ {} \notin new
         /\ new \in SUBSET SUBSET Candidates
         /\ \A K, L \in new : K # L => K \cap L = {}
<1>1. Found \in SUBSET SUBSET Cell /\ {} \notin Found
  BY FoundIsSound
<1>2. \A K, L \in Found : K # L => K \cap L = {}
  BY FoundIsSound
<1>3. IsPartition(new, UNION Found)
  BY <1>1, <1>2, SplitsOfAllAreSound
<1>4. UNION Found \subseteq Candidates
  BY FoundIsSound
<1> QED
  BY <1>3, <1>4 DEF IsPartition

\* Frontier cells the robot gave up never come back, for every grid and every
\* sequence of images, searches and plans: no search starts from them.
THEOREM GivenUpForGood == Spec => ForcedStaysDormant
<1>1. [Next]_vars
      => [\A c \in Cell \ UNION (active \cup dormant) :
            flag[c] = "FORCE_DORMANT" => flag'[c] = "FORCE_DORMANT"]_vars
  <2> SUFFICES ASSUME Next, NEW c \in Cell, c \notin UNION (active \cup dormant),
                      flag[c] = "FORCE_DORMANT"
               PROVE  flag'[c] = "FORCE_DORMANT"
    OBVIOUS
  <2>1. ASSUME updateFrontierAndObject PROVE flag'[c] = "FORCE_DORMANT"
    <3>1. PICK new \in SplitsOfAll(Found) :
            \E seen \in SUBSET ((active \ Removed) \cup new) : SearchAndRetire(new, seen)
      BY <2>1 DEF updateFrontierAndObject
    <3>2. PICK seen \in SUBSET ((active \ Removed) \cup new) : SearchAndRetire(new, seen)
      BY <3>1
    <3>3. c \notin UNION Removed
      BY DEF Removed
    <3>4. c \notin Candidates
      BY <3>3 DEF Candidates
    <3>5. c \notin UNION new /\ c \notin UNION seen
      BY <3>4, NewClusters
    <3> QED
      BY <3>2, <3>3, <3>5 DEF SearchAndRetire
  <2>2. ASSUME NEW centre, NEW force, Follow(centre, force)
        PROVE  flag'[c] = "FORCE_DORMANT"
    <3>1. CASE force
      <4>1. flag' = Marked(Component(centre, {d \in Cell : flag[d] \in {"ACTIVE", "DORMANT"}}),
                           "FORCE_DORMANT")
        BY <2>2, <3>1 DEF Follow, setForceDormantFrontier
      <4> QED
        BY <4>1 DEF Marked
    <3>2. CASE ~force
      BY <2>2, <3>2 DEF Follow, frontierVars
    <3> QED
      BY <3>1, <3>2
  <2>3. flag' = flag \/ updateFrontierAndObject
        \/ \E centre, force : Follow(centre, force)
    BY DEF Next, Observe, IdleUpdate, StartPlanning, Escape, GiveUpEscape,
           ChooseTarget, KeepTarget, SearchObject, frontierVars
  <2> QED
    BY <2>1, <2>2, <2>3
<1> QED
  BY <1>1, PTL DEF Spec, ForcedStaysDormant

-----------------------------------------------------------------------------
(* The types. *)

\* The types, with what the centre of a cluster needs to be a cell: that the
\* cluster has one; and the target of an exploration is such a centre.
TypeInv ==
  /\ TypeOK
  /\ {} \notin active \cup dormant
  /\ exploring => target \in Cell

\* The part of it about the grid, and the part about the clusters.
MapType == GridType /\ updated \subseteq Cell
ClusterType ==
  /\ flag \in [Cell -> {"NONE", "ACTIVE", "DORMANT", "FORCE_DORMANT"}]
  /\ active \subseteq SUBSET Cell /\ dormant \subseteq SUBSET Cell
  /\ {} \notin active \cup dormant

\* Images and failed escapes keep the grid's types.
LEMMA MapTypeStep ==
  ASSUME MapType
  PROVE  /\ \A scan \in Scans : depthPoseCallback(scan) => MapType'
         /\ \A cells \in StuckCells : setForceOccGrid(cells) => MapType'
<1>1. ASSUME NEW scan \in Scans, depthPoseCallback(scan) PROVE MapType'
  <2>1. PICK turned \in SUBSET Contradicted(scan) :
          /\ occupancy' = Fused(scan, turned)
          /\ updated' = BoxOf({scan.sensor} \cup scan.hits \cup scan.misses)
          /\ inflated' = Reinflated(turned \cap scan.misses,
                           {c \in BoxOf({scan.sensor} \cup scan.hits \cup scan.misses) :
                              Fused(scan, turned)[c] = "OCCUPIED"})
    BY <1>1 DEF depthPoseCallback
  <2>2. occupancy' \in [Cell -> {"UNKNOWN", "FREE", "OCCUPIED"}]
    BY <2>1 DEF Fused, MapType, GridType
  <2>3. inflated' \subseteq Cell
    BY <2>1 DEF Reinflated, Near, MapType, GridType
  <2>4. updated' \subseteq Cell
    BY <2>1 DEF BoxOf
  <2> QED
    BY <2>2, <2>3, <2>4 DEF MapType, GridType
<1>2. ASSUME NEW cells \in StuckCells, setForceOccGrid(cells) PROVE MapType'
  BY <1>2 DEF setForceOccGrid, MapType, GridType
<1> QED
  BY <1>1, <1>2

\* A search makes clusters of cells, none empty, and so does forcing one dormant.
LEMMA ClusterTypeStep ==
  ASSUME ClusterType
  PROVE  /\ updateFrontierAndObject => ClusterType' /\ changed' \in BOOLEAN
         /\ \A centre, force : Follow(centre, force) => ClusterType'
<1>1. ASSUME updateFrontierAndObject PROVE ClusterType' /\ changed' \in BOOLEAN
  <2>1. PICK new \in SplitsOfAll(Found) :
          \E seen \in SUBSET ((active \ Removed) \cup new) :
            SearchAndRetire(new, seen) /\ changed' = (isAnyFrontierChanged \/ seen # {})
    BY <1>1 DEF updateFrontierAndObject
  <2>2. PICK seen \in SUBSET ((active \ Removed) \cup new) :
          SearchAndRetire(new, seen) /\ changed' = (isAnyFrontierChanged \/ seen # {})
    BY <2>1
  <2>3. new \in SUBSET SUBSET Cell /\ {} \notin new
    BY NewClusters, FoundIsSound
  <2>4. flag' \in [Cell -> {"NONE", "ACTIVE", "DORMANT", "FORCE_DORMANT"}]
    BY <2>2 DEF SearchAndRetire, ClusterType
  <2>5. /\ active' = ((active \ Removed) \cup new) \ seen
        /\ dormant' = (dormant \ Removed) \cup seen
    BY <2>2 DEF SearchAndRetire
  <2>6. changed' \in BOOLEAN
    BY <2>2
  <2> QED
    BY <2>3, <2>4, <2>5, <2>6 DEF ClusterType
<1>2. ASSUME NEW centre, NEW force, Follow(centre, force) PROVE ClusterType'
  <2>1. CASE force
    <3>1. setForceDormantFrontier(centre)
      BY <1>2, <2>1 DEF Follow
    <3>2. active' \subseteq active /\ dormant' \subseteq dormant
      BY <3>1 DEF setForceDormantFrontier
    <3>3. flag' \in [Cell -> {"NONE", "ACTIVE", "DORMANT", "FORCE_DORMANT"}]
      BY <3>1 DEF setForceDormantFrontier, Marked, ClusterType
    <3> QED
      BY <3>2, <3>3 DEF ClusterType
  <2>2. CASE ~force
    BY <1>2, <2>2 DEF Follow, frontierVars, ClusterType
  <2> QED
    BY <2>1, <2>2
<1> QED
  BY <1>1, <1>2

\* The types of the planner's own variables.
PlanType ==
  /\ phase \in {"world", "plan", "stuck"}
  /\ fresh \in 0 .. ScansPerUpdate /\ scans \in 0 .. MaxScans /\ updates \in 0 .. MaxUpdates
  /\ stray \subseteq Cell /\ abandoned \subseteq Cell /\ changed \in BOOLEAN /\ unheeded \in BOOLEAN
  /\ dormantFlag \in BOOLEAN /\ exploring \in BOOLEAN
  /\ target \in Cell \cup {NoTarget, AnObject}
  /\ exploring => target \in Cell

\* The three parts are the whole.
LEMMA TypeParts == TypeInv <=> MapType /\ ClusterType /\ PlanType
BY DEF TypeInv, TypeOK, MapType, GridType, ClusterType, PlanType

\* A frontier update keeps what it leaves of the planner's variables typed.
LEMMA PlanTypeUpdate ==
  ASSUME TypeInv, updateFrontierAndObject
  PROVE  /\ MapType' /\ ClusterType' /\ changed' \in BOOLEAN
         /\ fresh' \in 0 .. ScansPerUpdate /\ scans' \in 0 .. MaxScans
         /\ updates' \in 0 .. MaxUpdates
         /\ stray' \subseteq Cell /\ abandoned' \subseteq Cell
<1>1. MapType /\ ClusterType /\ PlanType
  BY TypeParts
<1>2. MapType'
  BY <1>1 DEF updateFrontierAndObject, sdfVars, MapType, GridType
<1>3. ClusterType' /\ changed' \in BOOLEAN
  BY <1>1, ClusterTypeStep
<1>4. UNION Removed \subseteq Cell
  BY <1>1 DEF Removed, ClusterType
<1>5. stray' \subseteq Cell /\ abandoned' \subseteq Cell
  BY <1>1, <1>4 DEF updateFrontierAndObject, PlanType
<1>6. ScansPerUpdate \in Nat /\ MaxScans \in Nat /\ MaxUpdates \in Nat
  BY CycleAssumption
<1>7. fresh' \in 0 .. ScansPerUpdate /\ scans' \in 0 .. MaxScans /\ updates' \in 0 .. MaxUpdates
  BY <1>1, <1>6 DEF updateFrontierAndObject, PlanType
<1> QED
  BY <1>2, <1>3, <1>5, <1>7

\* So does the rest of a call with the centre of a cluster, or the old target.
LEMMA PlanTypeFollow ==
  ASSUME TypeInv, NEW centre \in Cell, NEW force \in BOOLEAN, Follow(centre, force),
         unheeded' \in BOOLEAN
  PROVE  TypeInv'
<1>1. MapType /\ ClusterType /\ PlanType
  BY TypeParts
<1>2. MapType'
  BY <1>1 DEF Follow, sdfVars, MapType, GridType
<1>3. ClusterType'
  BY <1>1, ClusterTypeStep
<1>4. UNION ((active \cup dormant) \ (active' \cup dormant')) \subseteq Cell
  BY <1>1 DEF ClusterType
<1>5. abandoned' \subseteq Cell
  BY <1>1, <1>4 DEF Follow, PlanType
<1>6. PlanType'
  BY <1>1, <1>5 DEF Follow, counters, PlanType
<1> QED
  BY <1>2, <1>3, <1>6, TypeParts, PTL

\* Every step keeps the types.
LEMMA TypeStep ==
  ASSUME TypeInv, [Next]_vars
  PROVE  TypeInv'
<1>0. /\ MapType /\ ClusterType /\ PlanType
      /\ ScansPerUpdate \in Nat /\ MaxScans \in Nat /\ MaxUpdates \in Nat
  BY TypeParts, CycleAssumption
<1>1. MapType' /\ ClusterType' /\ PlanType' => TypeInv'
  BY TypeParts, PTL
<1>2. CASE \E scan \in Scans : Observe(scan)
  <2>1. PICK scan \in Scans : Observe(scan)
    BY <1>2
  <2>2. MapType'
    BY <1>0, <2>1, MapTypeStep DEF Observe
  <2>3. ClusterType'
    BY <1>0, <2>1 DEF Observe, frontierVars, ClusterType
  <2>4. PlanType'
    BY <1>0, <2>1 DEF Observe, history, planVars, PlanType
  <2> QED
    BY <1>1, <2>2, <2>3, <2>4
<1>3. CASE IdleUpdate
  <2>1. /\ MapType' /\ ClusterType' /\ changed' \in BOOLEAN
        /\ fresh' \in 0 .. ScansPerUpdate /\ scans' \in 0 .. MaxScans
        /\ updates' \in 0 .. MaxUpdates
        /\ stray' \subseteq Cell /\ abandoned' \subseteq Cell
    BY <1>3, PlanTypeUpdate DEF IdleUpdate
  <2>2. PlanType'
    BY <1>0, <1>3, <2>1 DEF IdleUpdate, PlanType
  <2> QED
    BY <1>1, <2>1, <2>2
<1>4. CASE StartPlanning
  <2>1. /\ MapType' /\ ClusterType' /\ changed' \in BOOLEAN
        /\ fresh' \in 0 .. ScansPerUpdate /\ scans' \in 0 .. MaxScans
        /\ updates' \in 0 .. MaxUpdates
        /\ stray' \subseteq Cell /\ abandoned' \subseteq Cell
    BY <1>4, PlanTypeUpdate DEF StartPlanning
  <2>2. PlanType'
    BY <1>0, <1>4, <2>1 DEF StartPlanning, PlanType
  <2> QED
    BY <1>1, <2>1, <2>2
<1>5. CASE Escape
  BY <1>0, <1>1, <1>5
     DEF Escape, sdfVars, frontierVars, counters, history, MapType, GridType, ClusterType, PlanType
<1>6. CASE \E cells \in StuckCells : GiveUpEscape(cells)
  <2>1. PICK cells \in StuckCells : GiveUpEscape(cells)
    BY <1>6
  <2>2. MapType'
    BY <1>0, <2>1, MapTypeStep DEF GiveUpEscape
  <2>3. ClusterType'
    BY <1>0, <2>1 DEF GiveUpEscape, frontierVars, ClusterType
  <2>4. PlanType'
    BY <1>0, <2>1 DEF GiveUpEscape, counters, history, PlanType
  <2> QED
    BY <1>1, <2>2, <2>3, <2>4
<1>7. CASE \E K \in active \cup dormant, force \in BOOLEAN : ChooseTarget(K, force)
  <2>1. PICK K \in active \cup dormant, force \in BOOLEAN : ChooseTarget(K, force)
    BY <1>7
  <2>2. K \in SUBSET Cell /\ K # {}
    BY <1>0 DEF ClusterType
  <2>3. Average(K) \in Cell
    BY <2>2, AverageIsCell
  <2>4. Follow(Average(K), force) /\ unheeded' \in BOOLEAN
    BY <2>1 DEF ChooseTarget
  <2> QED
    BY <2>3, <2>4, PlanTypeFollow
<1>8. CASE \E force \in BOOLEAN : KeepTarget(force)
  <2>1. PICK force \in BOOLEAN : KeepTarget(force)
    BY <1>8
  <2>2. target \in Cell /\ unheeded' \in BOOLEAN
    BY <1>0, <2>1 DEF KeepTarget, Replan, PlanType
  <2> QED
    BY <2>1, <2>2, PlanTypeFollow DEF KeepTarget
<1>9. CASE SearchObject
  BY <1>0, <1>1, <1>9
     DEF SearchObject, sdfVars, frontierVars, counters, history, MapType, GridType, ClusterType,
         PlanType
<1>10. CASE UNCHANGED vars
  BY <1>0, <1>1, <1>10
     DEF vars, sdfVars, frontierVars, counters, history, planVars, MapType, GridType, ClusterType,
         PlanType
<1> QED
  BY <1>2, <1>3, <1>4, <1>5, <1>6, <1>7, <1>8, <1>9, <1>10 DEF Next

\* The initial state has the types.
LEMMA InitTypes ==
  ASSUME Init
  PROVE  TypeInv
<1>1. ScansPerUpdate \in Nat /\ MaxScans \in Nat /\ MaxUpdates \in Nat
      /\ Width \in Nat \ {0} /\ Height \in Nat \ {0}
  BY CycleAssumption, SizeAssumption
<1>2. MapType
  BY <1>1 DEF Init, SdfInit, MapType, GridType, Cell
<1>3. ClusterType
  BY DEF Init, FrontierInit, ClusterType
<1>4. fresh = 0 /\ scans = 0 /\ updates = 0 /\ phase = "world" /\ target = NoTarget
      /\ stray = {} /\ abandoned = {}
      /\ ~changed /\ ~unheeded /\ ~dormantFlag /\ ~exploring
      /\ changed \in BOOLEAN /\ unheeded \in BOOLEAN /\ dormantFlag \in BOOLEAN
      /\ exploring \in BOOLEAN
  BY DEF Init
<1>5. PlanType
  BY <1>1, <1>4 DEF PlanType
<1> QED
  BY <1>2, <1>3, <1>5, TypeParts

\* Grid, flags, lists and target keep their types; in particular the target of an
\* exploration, the centre of a cluster, is always a cell of the map.
THEOREM TypesAreKept == Spec => []TypeOK /\ [](exploring => target \in Cell)
<1>1. Init => TypeInv
  BY InitTypes
<1>2. TypeInv /\ [Next]_vars => TypeInv'
  BY TypeStep
<1>3. TypeInv => TypeOK /\ (exploring => target \in Cell)
  BY DEF TypeInv
<1> QED
  BY <1>1, <1>2, <1>3, PTL DEF Spec

-----------------------------------------------------------------------------
(* The lists and the flags. *)

\* A listed cluster that the update did not touch shares no cell with one that
\* was removed, nor with the cells a search may add.
LEMMA KeptIsApart ==
  ASSUME TypeInv, ListsMatchFlags, NEW K \in (active \cup dormant) \ Removed
  PROVE  K \cap UNION Removed = {} /\ K \cap Candidates = {}
<1>1. ASSUME NEW c \in K, NEW L \in Removed, c \in L PROVE FALSE
  <2>1. K # L /\ L \in active \cup dormant
    BY DEF Removed
  <2> QED
    BY <1>1, <2>1 DEF ListsMatchFlags
<1>2. ASSUME NEW c \in K, c \in Candidates PROVE FALSE
  <2>1. c \in Cell /\ flag[c] # "NONE"
    BY <1>2, FoundIsSound DEF ListsMatchFlags
  <2> QED
    BY <1>1, <1>2, <2>1 DEF Candidates
<1> QED
  BY <1>1, <1>2

\* A search, with the clusters it retires, keeps lists and flags in agreement.
LEMMA SearchKeepsLists ==
  ASSUME TypeInv, ListsMatchFlags, updateFrontierAndObject
  PROVE  ListsMatchFlags'
<1>1. PICK new \in SplitsOfAll(Found) :
        \E seen \in SUBSET ((active \ Removed) \cup new) : SearchAndRetire(new, seen)
  BY DEF updateFrontierAndObject
<1>2. PICK seen \in SUBSET ((active \ Removed) \cup new) : SearchAndRetire(new, seen)
  BY <1>1
<1>3. /\ active' = ((active \ Removed) \cup new) \ seen
      /\ dormant' = (dormant \ Removed) \cup seen
      /\ \A c \in Cell : flag'[c] = IF c \in UNION seen THEN "DORMANT"
                                    ELSE IF c \in UNION new THEN "ACTIVE"
                                    ELSE IF c \in UNION Removed THEN "NONE" ELSE flag[c]
  BY <1>2 DEF SearchAndRetire
<1>4. /\ new \in SUBSET SUBSET Candidates
      /\ \A K, L \in new : K # L => K \cap L = {}
  BY NewClusters
<1>5. active' \cup dormant' = ((active \cup dormant) \ Removed) \cup new
  BY <1>3
<1>6. \A K, L \in active' \cup dormant' : K # L => K \cap L = {}
  <2>1. \A K \in (active \cup dormant) \ Removed : K \cap Candidates = {}
    BY KeptIsApart
  <2>2. \A K, L \in (active \cup dormant) \ Removed : K # L => K \cap L = {}
    BY DEF ListsMatchFlags
  <2> QED
    BY <1>4, <1>5, <2>1, <2>2
<1>7. ASSUME NEW K \in active', NEW c \in Cell, c \in K
      PROVE  flag'[c] \in {"ACTIVE", "FORCE_DORMANT"}
  <2>1. \A L \in seen : L \in active' \cup dormant' /\ K # L
    BY <1>3
  <2>2. c \notin UNION seen
    BY <1>6, <1>7, <2>1
  <2>3. CASE c \in UNION new
    BY <1>3, <2>2, <2>3
  <2>4. CASE c \notin UNION new
    <3>1. K \in active \ Removed
      BY <1>3, <1>7, <2>4
    <3>2. c \notin UNION Removed
      BY <1>7, <3>1, KeptIsApart
    <3>3. flag'[c] = flag[c]
      BY <1>3, <2>2, <2>4, <3>2
    <3> QED
      BY <1>7, <3>1, <3>3 DEF ListsMatchFlags
  <2> QED
    BY <2>3, <2>4
<1>8. ASSUME NEW K \in dormant', NEW c \in Cell, c \in K
      PROVE  flag'[c] \in {"DORMANT", "FORCE_DORMANT"}
  <2>1. CASE c \in UNION seen
    BY <1>3, <2>1
  <2>2. CASE c \notin UNION seen
    <3>1. K \in dormant \ Removed
      BY <1>3, <1>8, <2>2
    <3>2. c \notin UNION Removed /\ c \notin UNION new
      BY <1>4, <1>8, <3>1, KeptIsApart
    <3>3. flag'[c] = flag[c]
      BY <1>3, <2>2, <3>2
    <3> QED
      BY <1>8, <3>1, <3>3 DEF ListsMatchFlags
  <2> QED
    BY <2>1, <2>2
<1>9. ASSUME NEW c \in Cell, flag'[c] \notin {"NONE", "FORCE_DORMANT"}, c \notin abandoned'
      PROVE  \E K \in active' \cup dormant' : c \in K
  <2>1. CASE c \in UNION seen \/ c \in UNION new
    BY <1>5, <2>1
  <2>2. CASE c \notin UNION seen /\ c \notin UNION new
    <3>1. c \notin UNION Removed /\ flag'[c] = flag[c]
      BY <1>3, <1>9, <2>2
    <3>2. c \notin abandoned
      BY <1>9 DEF updateFrontierAndObject
    <3>3. PICK K \in active \cup dormant : c \in K
      BY <1>9, <3>1, <3>2 DEF ListsMatchFlags
    <3> QED
      BY <1>5, <3>1, <3>3
  <2> QED
    BY <2>1, <2>2
<1> QED
  BY <1>6, <1>7, <1>8, <1>9 DEF ListsMatchFlags

\* So does a cluster forced dormant: what it takes off the lists is abandoned.
LEMMA FollowKeepsLists ==
  ASSUME TypeInv, ListsMatchFlags, NEW centre, NEW force, Follow(centre, force)
  PROVE  ListsMatchFlags'
<1>1. active' \subseteq active /\ dormant' \subseteq dormant
  BY DEF Follow, setForceDormantFrontier, frontierVars
<1>2. \A c \in Cell : flag'[c] = flag[c] \/ flag'[c] = "FORCE_DORMANT"
  BY DEF Follow, setForceDormantFrontier, frontierVars, Marked
<1>3. abandoned' = abandoned \cup UNION ((active \cup dormant) \ (active' \cup dormant'))
  BY DEF Follow
<1>4. \A K, L \in active' \cup dormant' : K # L => K \cap L = {}
  BY <1>1 DEF ListsMatchFlags
<1>5. \A K \in active', c \in Cell : c \in K => flag'[c] \in {"ACTIVE", "FORCE_DORMANT"}
  BY <1>1, <1>2 DEF ListsMatchFlags
<1>6. \A K \in dormant', c \in Cell : c \in K => flag'[c] \in {"DORMANT", "FORCE_DORMANT"}
  BY <1>1, <1>2 DEF ListsMatchFlags
<1>7. ASSUME NEW c \in Cell, flag'[c] \notin {"NONE", "FORCE_DORMANT"}, c \notin abandoned'
      PROVE  \E K \in active' \cup dormant' : c \in K
  <2>1. flag'[c] = flag[c] /\ c \notin abandoned
    BY <1>2, <1>3, <1>7
  <2>2. PICK K \in active \cup dormant : c \in K
    BY <1>7, <2>1 DEF ListsMatchFlags
  <2> QED
    BY <1>3, <1>7, <2>2
<1> QED
  BY <1>4, <1>5, <1>6, <1>7 DEF ListsMatchFlags

\* What a step of the clusters is.
LEMMA ClusterSteps ==
  ASSUME [Next]_vars
  PROVE  \/ UNCHANGED <<frontierVars, abandoned>>
         \/ updateFrontierAndObject
         \/ \E centre, force : Follow(centre, force)
BY DEF Next, vars, Observe, IdleUpdate, StartPlanning, Escape, GiveUpEscape, ChooseTarget,
       KeepTarget, SearchObject, history

\* No cell is in two clusters, no listed cell is free to be found again, and no
\* mark outlives its cluster unless that was given up, in every reachable state.
THEOREM ListsAndFlagsAgree == Spec => []ListsMatchFlags
<1>1. Init => TypeInv /\ ListsMatchFlags
  BY InitTypes DEF Init, FrontierInit, ListsMatchFlags
<1>2. TypeInv /\ ListsMatchFlags /\ [Next]_vars => TypeInv' /\ ListsMatchFlags'
  <2> SUFFICES ASSUME TypeInv, ListsMatchFlags, [Next]_vars PROVE ListsMatchFlags'
    BY TypeStep
  <2>1. CASE UNCHANGED <<frontierVars, abandoned>>
    BY <2>1 DEF frontierVars, ListsMatchFlags
  <2> QED
    BY <2>1, ClusterSteps, SearchKeepsLists, FollowKeepsLists
<1> QED
  BY <1>1, <1>2, PTL DEF Spec

-----------------------------------------------------------------------------
(* No frontier forgotten. *)

\* Every group of these cells that belong together is too small for a cluster.
AllSmall(W) == \A c \in W : Cardinality(Component(c, W)) <= ClusterMin

\* Fewer cells make smaller groups.
LEMMA FewerAreSmall ==
  ASSUME NEW W \in SUBSET Cell, NEW V \in SUBSET W, AllSmall(W)
  PROVE  AllSmall(V)
<1> SUFFICES ASSUME NEW c \in V PROVE Cardinality(Component(c, V)) <= ClusterMin
  BY DEF AllSmall
<1>1. Component(c, V) \subseteq Component(c, W)
  BY SmallerSearch
<1>2. IsFiniteSet(W)
  BY GridFacts, FS_Subset
<1>3. IsFiniteSet(W \cup {c})
  BY <1>2, FS_AddElement
<1>4. IsFiniteSet(Component(c, W))
  BY <1>2, <1>3, ComponentIsWithin, FS_Subset
<1>5. /\ Cardinality(Component(c, V)) <= Cardinality(Component(c, W))
      /\ Cardinality(Component(c, V)) \in Nat /\ Cardinality(Component(c, W)) \in Nat
  BY <1>1, <1>4, FS_Subset, FS_CardinalityType
<1>6. Cardinality(Component(c, W)) <= ClusterMin /\ ClusterMin \in Nat
  BY FrontierAssumption DEF AllSmall
<1> QED
  BY <1>5, <1>6

\* A group is no larger than the one a search from its cell finds among other
\* cells that include it.
LEMMA GroupElsewhere ==
  ASSUME NEW W \in SUBSET Cell, NEW V \in SUBSET Cell, NEW c \in W,
         Component(c, W) \subseteq V
  PROVE  Cardinality(Component(c, W)) <= Cardinality(Component(c, V))
<1>1. IsFiniteSet(W) /\ IsFiniteSet(V)
  BY GridFacts, FS_Subset
<1>2. /\ c \in Component(c, W) /\ ClosedWithin(Component(c, W), W)
      /\ c \in Component(c, V) /\ ClosedWithin(Component(c, V), V)
  BY <1>1, ComponentIsClosed
<1> DEFINE S == Component(c, W) \cap Component(c, V)
<1>3. ClosedWithin(S, W)
  BY <1>2 DEF ClosedWithin
<1>4. Component(c, W) \subseteq Component(c, V)
  BY <1>1, <1>2, <1>3, ComponentIsLeast
<1>5. IsFiniteSet(V \cup {c})
  BY <1>1, FS_AddElement
<1>6. IsFiniteSet(Component(c, V))
  BY <1>1, <1>5, ComponentIsWithin, FS_Subset
<1> QED
  BY <1>4, <1>6, FS_Subset

\* The frontier cells in no cluster.
Unflagged == {c \in Cell : flag[c] = "NONE" /\ isSatisfyFrontier(c)}
\* The cells the next search will look at.
Stale == IF fresh = 0 THEN {} ELSE SearchRegion
\* The frontier cells in no cluster that the next search will not look at and
\* that no search released unseen.
Overlooked == Unflagged \ (stray \cup Stale)

\* Groups of overlooked cells are too small, and no image arrives during a call.
OverlookedInv ==
  /\ TypeInv /\ AllSmall(Overlooked)
  /\ phase # "world" => fresh = 0

\* If the overlooked cells get fewer, their groups remain small.
LEMMA FewerOverlooked ==
  ASSUME AllSmall(Overlooked), Overlooked' \subseteq Overlooked
  PROVE  AllSmall(Overlooked')
<1>1. Overlooked \in SUBSET Cell
  BY DEF Overlooked, Unflagged
<1> QED
  BY <1>1, FewerAreSmall

\* Where the margin exceeds the inflation, an image makes new frontier cells only
\* where the search after it will look.
LEMMA ImageOverlooksNothing ==
  ASSUME Margin >= 1, InflationSquared < (Margin + 1) * (Margin + 1),
         TypeInv, fresh = 0, NEW scan \in Scans, depthPoseCallback(scan),
         fresh' = 1, flag' = flag, stray' = stray
  PROVE  Overlooked' \subseteq Overlooked
<1> DEFINE seen == scan.hits \cup scan.misses
           box == BoxOf({scan.sensor} \cup seen)
<1>1. scan.hits \subseteq Cell /\ scan.misses \subseteq Cell /\ scan.sensor \in Cell
  BY ScansAssumption DEF Scan
<1>2. PICK turned \in SUBSET Contradicted(scan) :
        /\ occupancy' = Fused(scan, turned)
        /\ updated' = box
        /\ inflated' = Reinflated(turned \cap scan.misses,
                         {c \in box : Fused(scan, turned)[c] = "OCCUPIED"})
  BY DEF depthPoseCallback
<1>3. /\ seen \subseteq box /\ turned \subseteq seen
  <2>1. \A c \in Cell : c[1] \in Int /\ c[2] \in Int
    BY GridFacts, SizeAssumption
  <2> QED
    BY <1>1, <2>1 DEF BoxOf, Contradicted
<1>4. \A c \in Cell : c \notin box => occupancy'[c] = occupancy[c]
  BY <1>2, <1>3 DEF Fused
<1>5. Stale' = SearchRegion' /\ SearchRegion' = {c \in Cell : \E b \in box : Close(c, b, Margin)}
  BY <1>2 DEF Stale, SearchRegion
<1>6. Margin \in Nat /\ InflationSquared \in Nat
  BY FrontierAssumption, InflationAssumption
<1>7. ASSUME NEW c \in Overlooked'
      PROVE  c \in Overlooked
  <2>1. /\ c \in Cell /\ flag[c] = "NONE" /\ c \notin stray /\ c \notin Stale'
        /\ isSatisfyFrontier(c)'
    BY <1>7 DEF Overlooked, Unflagged
  <2>2. \A b \in box : ~Close(c, b, Margin)
    BY <1>5, <2>1
  <2>3. /\ c[1] \in Int /\ c[2] \in Int
        /\ \A b \in box : b \in Cell /\ b[1] \in Int /\ b[2] \in Int
    BY <2>1, GridFacts, SizeAssumption DEF BoxOf
  <2>4. c \notin box
    <3>1. c[1] - c[1] = 0 /\ c[2] - c[2] = 0 /\ 0 \in -Margin .. Margin
      BY <1>6, <2>3
    <3>2. Close(c, c, Margin)
      BY <3>1 DEF Close
    <3> QED
      BY <2>2, <3>2
  <2>5. occupancy[c] = "UNKNOWN"
    BY <1>4, <2>1, <2>4 DEF isSatisfyFrontier
  <2>6. \E d \in FourNeighbors(c) : occupancy[d] = "FREE"
    <3>1. PICK d \in FourNeighbors(c) : occupancy'[d] = "FREE"
      BY <2>1 DEF isSatisfyFrontier
    <3>2. d \in Cell /\ Close(c, d, 1)
      BY <3>1 DEF FourNeighbors
    <3>3. Close(c, d, Margin)
      BY <1>6, <2>3, <3>2, GridFacts, SizeAssumption DEF Close
    <3>4. d \notin box
      BY <2>2, <3>3
    <3> QED
      BY <1>4, <3>1, <3>2, <3>4
  <2>7. c \notin inflated
    <3> SUFFICES ASSUME c \in inflated PROVE FALSE
      OBVIOUS
    <3>1. c \notin inflated'
      BY <2>1 DEF isSatisfyFrontier
    <3>2. PICK o \in turned : c \in Near(o)
      BY <1>2, <3>1 DEF Reinflated
    <3>3. o \in box
      BY <1>3
    <3> DEFINE x == o[1] - c[1]
               y == o[2] - c[2]
    <3>4. x * x + y * y <= InflationSquared
      BY <3>2 DEF Near
    <3>5. x \in Int /\ y \in Int
      BY <2>3, <3>3
    <3>6. ~(x \in -Margin .. Margin /\ y \in -Margin .. Margin)
      <4>1. ~Close(c, o, Margin)
        BY <2>2, <3>3
      <4> QED
        BY <1>6, <2>3, <3>3, <4>1 DEF Close
    <3> HIDE DEF x, y
    <3>7. ASSUME NEW m \in Int, NEW n \in Int, m \notin -Margin .. Margin,
                 m * m + n * n <= InflationSquared
          PROVE  FALSE
      <4>1. n * n >= 0
        BY SMT
      <4>2. m >= Margin + 1 \/ -m >= Margin + 1
        BY <1>6, <3>7
      <4>3. \A k \in Int : k >= Margin + 1 => k * k >= (Margin + 1) * (Margin + 1)
        BY <1>6
      <4>4. (-m) * (-m) = m * m /\ m * m \in Int /\ n * n \in Int
            /\ (Margin + 1) * (Margin + 1) \in Int
        BY <1>6
      <4>5. m * m >= (Margin + 1) * (Margin + 1)
        BY <4>2, <4>3, <4>4
      <4> QED
        BY <1>6, <3>7, <4>1, <4>4, <4>5
    <3>8. y * y + x * x <= InflationSquared
      BY <3>4, <3>5
    <3> QED
      BY <3>4, <3>5, <3>6, <3>7, <3>8
  <2> QED
    BY <2>1, <2>5, <2>6, <2>7 DEF Overlooked, Unflagged, Stale, isSatisfyFrontier
<1> QED
  BY <1>7

\* A search leaves overlooked only groups too small for a cluster: one it looks
\* at would be found, the others were overlooked before.
LEMMA SearchOverlooksSmall ==
  ASSUME TypeInv, AllSmall(Overlooked), updateFrontierAndObject
  PROVE  AllSmall(Overlooked')
<1>1. PICK new \in SplitsOfAll(Found) :
        \E seen \in SUBSET ((active \ Removed) \cup new) : SearchAndRetire(new, seen)
  BY DEF updateFrontierAndObject
<1>2. PICK seen \in SUBSET ((active \ Removed) \cup new) : SearchAndRetire(new, seen)
  BY <1>1
<1>3. /\ \A c \in Cell : flag'[c] = IF c \in UNION seen THEN "DORMANT"
                                    ELSE IF c \in UNION new THEN "ACTIVE"
                                    ELSE IF c \in UNION Removed THEN "NONE" ELSE flag[c]
      /\ stray' = stray \cup ((UNION Removed) \ SearchRegion) /\ fresh' = 0
      /\ occupancy' = occupancy /\ inflated' = inflated
  BY <1>2 DEF SearchAndRetire, updateFrontierAndObject, sdfVars
<1>4. UNION new = UNION Found /\ Candidates \in SUBSET Cell
  BY NewClusters, FoundIsSound
<1>5. \A c \in Overlooked' : /\ c \in Cell /\ flag'[c] = "NONE" /\ c \notin stray'
                             /\ isSatisfyFrontier(c)
  <2>1. \A c \in Cell : isSatisfyFrontier(c)' => isSatisfyFrontier(c)
    BY <1>3 DEF isSatisfyFrontier
  <2> QED
    BY <2>1 DEF Overlooked, Unflagged
<1>6. \A c \in Overlooked' : /\ c \notin UNION Found
                             /\ c \in UNION Removed \/ flag[c] = "NONE"
  BY <1>3, <1>4, <1>5
<1>7. Overlooked' \in SUBSET Candidates
  BY <1>5, <1>6 DEF Candidates
<1>8. ASSUME NEW c \in Overlooked'
      PROVE  Cardinality(Component(c, Overlooked')) <= ClusterMin
  <2> DEFINE W == Overlooked'
             X == Component(c, W)
  <2>1. W \in SUBSET Cell /\ W \in SUBSET Candidates /\ c \in W
    BY <1>4, <1>7, <1>8
  <2> HIDE DEF W
  <2>2. IsFiniteSet(W) /\ IsFiniteSet(Candidates)
    BY <1>4, <2>1, GridFacts, FS_Subset
  <2>3. X \subseteq W
    BY <2>1, <2>2, ComponentIsWithin
  <2>4. CASE X \cap SearchRegion # {}
    <3>1. PICK d \in X : d \in SearchRegion
      BY <2>4
    <3> DEFINE Y == Component(d, Candidates)
    <3>2. X = Component(d, W) /\ d \in W
      BY <2>1, <3>1, SameComponent
    <3>3. d \in Candidates /\ Component(d, W) \subseteq Candidates
      BY <2>1, <2>3, <3>2
    <3>4. Cardinality(Component(d, W)) <= Cardinality(Y)
      BY <1>4, <2>1, <3>2, <3>3, GroupElsewhere
    <3>5. d \in Y
      BY <2>2, ComponentIsClosed
    <3>6. d \notin UNION Found
      BY <1>6, <3>2 DEF W
    <3>7. ~(Cardinality(Y) > ClusterMin)
      <4>1. Y \notin Found
        BY <3>5, <3>6
      <4> QED
        BY <3>1, <3>3, <4>1 DEF Found
    <3>8. Cardinality(Y) \in Nat /\ Cardinality(X) \in Nat /\ ClusterMin \in Nat
      <4>1. IsFiniteSet(Candidates \cup {d})
        BY <2>2, FS_AddElement
      <4>2. IsFiniteSet(Y)
        BY <2>2, <4>1, ComponentIsWithin, FS_Subset
      <4>3. IsFiniteSet(X)
        BY <2>2, <2>3, FS_Subset
      <4> QED
        BY <4>2, <4>3, FS_CardinalityType, FrontierAssumption
    <3> QED
      BY <3>2, <3>4, <3>7, <3>8 DEF W
  <2>5. CASE X \cap SearchRegion = {}
    <3>1. ASSUME NEW e \in X PROVE e \in Overlooked
      <4>1. /\ e \in Cell /\ e \notin stray' /\ isSatisfyFrontier(e) /\ e \notin SearchRegion
            /\ e \in UNION Removed \/ flag[e] = "NONE"
        BY <1>5, <1>6, <2>3, <2>5 DEF W
      <4>2. e \notin UNION Removed /\ e \notin stray
        BY <1>3, <4>1
      <4> QED
        BY <4>1, <4>2 DEF Overlooked, Unflagged, Stale
    <3>2. Overlooked \in SUBSET Cell
      BY DEF Overlooked, Unflagged
    <3> DEFINE Z == Component(c, Overlooked)
    <3>3. Cardinality(X) <= Cardinality(Z)
      BY <2>1, <3>1, <3>2, GroupElsewhere
    <3>4. c \in Overlooked
      <4>1. c \in X
        BY <2>2, ComponentIsClosed
      <4> QED
        BY <3>1, <4>1
    <3>5. Cardinality(Z) <= ClusterMin
      BY <3>4 DEF AllSmall
    <3>6. Cardinality(Z) \in Nat /\ Cardinality(X) \in Nat /\ ClusterMin \in Nat
      <4>1. IsFiniteSet(Overlooked)
        BY <3>2, GridFacts, FS_Subset
      <4>2. IsFiniteSet(Overlooked \cup {c})
        BY <4>1, FS_AddElement
      <4>3. IsFiniteSet(Z)
        BY <4>1, <4>2, ComponentIsWithin, FS_Subset
      <4>4. IsFiniteSet(X)
        BY <2>2, <2>3, FS_Subset
      <4> QED
        BY <4>3, <4>4, FS_CardinalityType, FrontierAssumption
    <3> QED
      BY <3>3, <3>5, <3>6 DEF W
  <2> QED
    BY <2>4, <2>5
<1> QED
  BY <1>8 DEF AllSmall

\* Every step keeps the groups of overlooked cells small.
LEMMA OverlookedStep ==
  ASSUME ScansPerUpdate = 1, Margin >= 1, InflationSquared < (Margin + 1) * (Margin + 1),
         OverlookedInv, [Next]_vars
  PROVE  OverlookedInv'
<1>0. TypeInv /\ AllSmall(Overlooked) /\ TypeInv' /\ fresh \in Nat
  BY TypeStep DEF OverlookedInv, TypeInv, TypeOK
<1>1. ASSUME AllSmall(Overlooked'), phase' # "world" => fresh' = 0
      PROVE  OverlookedInv'
  BY <1>0, <1>1 DEF OverlookedInv, AllSmall
<1>2. CASE \E scan \in Scans : Observe(scan)
  <2>1. PICK scan \in Scans : Observe(scan)
    BY <1>2
  <2>2. /\ fresh = 0 /\ fresh' = 1 /\ flag' = flag /\ stray' = stray
        /\ depthPoseCallback(scan) /\ phase' = "world"
    BY <1>0, <2>1 DEF Observe, frontierVars, history
  <2>3. AllSmall(Overlooked')
    BY <1>0, <2>2, ImageOverlooksNothing, FewerOverlooked
  <2> QED
    BY <1>1, <2>2, <2>3
<1>3. CASE IdleUpdate \/ StartPlanning
  <2>1. updateFrontierAndObject /\ fresh' = 0
    BY <1>3 DEF IdleUpdate, StartPlanning, updateFrontierAndObject
  <2> QED
    BY <1>0, <1>1, <2>1, SearchOverlooksSmall
<1>4. ASSUME NEW centre, NEW force, Follow(centre, force)
      PROVE  OverlookedInv'
  <2>1. \A c \in Cell : flag'[c] = flag[c] \/ flag'[c] = "FORCE_DORMANT"
    BY <1>4 DEF Follow, setForceDormantFrontier, frontierVars, Marked
  <2>2. /\ fresh' = fresh /\ updated' = updated /\ stray' = stray /\ phase' = "world"
        /\ occupancy' = occupancy /\ inflated' = inflated
    BY <1>4 DEF Follow, counters, sdfVars
  <2>3. Overlooked' \subseteq Overlooked
    BY <2>1, <2>2 DEF Overlooked, Unflagged, Stale, SearchRegion, isSatisfyFrontier
  <2> QED
    BY <1>0, <1>1, <2>2, <2>3, FewerOverlooked
<1>5. CASE Escape \/ SearchObject \/ UNCHANGED vars
  <2>1. /\ fresh' = fresh /\ updated' = updated /\ stray' = stray /\ flag' = flag
        /\ occupancy' = occupancy /\ inflated' = inflated
        /\ phase' = "world" \/ phase' = phase
    BY <1>5 DEF Escape, SearchObject, vars, counters, sdfVars, history, frontierVars
  <2>2. Overlooked' \subseteq Overlooked
    BY <2>1 DEF Overlooked, Unflagged, Stale, SearchRegion, isSatisfyFrontier
  <2> QED
    BY <1>0, <1>1, <2>1, <2>2, FewerOverlooked DEF OverlookedInv
<1>6. CASE \E cells \in StuckCells : GiveUpEscape(cells)
  <2>1. PICK cells \in StuckCells : GiveUpEscape(cells)
    BY <1>6
  <2>2. /\ fresh' = fresh /\ updated' = updated /\ stray' = stray /\ flag' = flag
        /\ inflated' = inflated /\ phase = "plan"
        /\ \A c \in Cell : occupancy'[c] = occupancy[c] \/ occupancy'[c] = "OCCUPIED"
    BY <2>1 DEF GiveUpEscape, setForceOccGrid, counters, history, frontierVars
  <2>3. \A c \in Cell : FourNeighbors(c) \subseteq Cell
    BY DEF FourNeighbors
  <2>4. Overlooked' \subseteq Overlooked
    BY <2>2, <2>3 DEF Overlooked, Unflagged, Stale, SearchRegion, isSatisfyFrontier
  <2> QED
    BY <1>0, <1>1, <2>2, <2>4, FewerOverlooked DEF OverlookedInv
<1>7. CASE \E K \in active \cup dormant, force \in BOOLEAN : ChooseTarget(K, force)
  BY <1>4, <1>7 DEF ChooseTarget
<1>8. CASE \E force \in BOOLEAN : KeepTarget(force)
  BY <1>4, <1>8 DEF KeepTarget
<1> QED
  BY <1>2, <1>3, <1>5, <1>6, <1>7, <1>8 DEF Next

\* Although a search looks only around the last image, no frontier of the map is
\* forgotten, if every update of the frontiers follows one image and the search
\* reaches further than obstacles are inflated.
THEOREM NothingIsForgotten ==
  ASSUME ScansPerUpdate = 1, Margin >= 1, InflationSquared < (Margin + 1) * (Margin + 1)
  PROVE  Spec => []NoFrontierForgotten
<1>1. Init => OverlookedInv
  <2> SUFFICES ASSUME Init PROVE OverlookedInv
    OBVIOUS
  <2>1. Overlooked = {}
    <3>1. \A c \in Cell : ~isSatisfyFrontier(c)
      BY DEF Init, SdfInit, isSatisfyFrontier, FourNeighbors
    <3> QED
      BY <3>1 DEF Overlooked, Unflagged
  <2>2. phase = "world"
    BY DEF Init
  <2> QED
    BY <2>1, <2>2, InitTypes DEF OverlookedInv, AllSmall
<1>2. OverlookedInv /\ [Next]_vars => OverlookedInv'
  BY OverlookedStep
<1>3. OverlookedInv => NoFrontierForgotten
  <2> SUFFICES ASSUME OverlookedInv, phase = "plan", NEW c \in Unflagged,
                      Component(c, Unflagged) \cap stray = {}
               PROVE  Cardinality(Component(c, Unflagged)) <= ClusterMin
    BY DEF NoFrontierForgotten, Unflagged
  <2>1. Overlooked = Unflagged \ stray /\ AllSmall(Overlooked)
    BY DEF OverlookedInv, Overlooked, Stale
  <2>2. Unflagged \in SUBSET Cell /\ Overlooked \in SUBSET Cell
    BY DEF Overlooked, Unflagged
  <2>3. IsFiniteSet(Unflagged) /\ IsFiniteSet(Overlooked)
    BY <2>2, GridFacts, FS_Subset
  <2>4. Component(c, Unflagged) \subseteq Overlooked
    BY <2>1, <2>3, ComponentIsWithin
  <2>5. c \in Overlooked
    BY <2>3, <2>4, ComponentIsClosed
  <2>6. Cardinality(Component(c, Unflagged)) <= Cardinality(Component(c, Overlooked))
    BY <2>2, <2>4, GroupElsewhere
  <2>7. Cardinality(Component(c, Overlooked)) <= ClusterMin
    BY <2>1, <2>5 DEF AllSmall
  <2>8. IsFiniteSet(Overlooked \cup {c})
    BY <2>3, FS_AddElement
  <2>9. IsFiniteSet(Component(c, Overlooked)) /\ IsFiniteSet(Component(c, Unflagged))
    BY <2>3, <2>4, <2>8, ComponentIsWithin, FS_Subset
  <2>10. /\ Cardinality(Component(c, Overlooked)) \in Nat /\ ClusterMin \in Nat
         /\ Cardinality(Component(c, Unflagged)) \in Nat
    BY <2>9, FS_CardinalityType, FrontierAssumption
  <2> QED
    BY <2>6, <2>7, <2>10
<1> QED
  BY <1>1, <1>2, <1>3, PTL DEF Spec
=============================================================================
