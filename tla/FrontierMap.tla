---------------------------- MODULE FrontierMap ----------------------------
(***************************************************************************)
(* The frontier clusters over the occupancy grid (FrontierMap2D). A        *)
(* cluster is its set of cells; the lists are sets of clusters.            *)
(*                                                                         *)
(* Abstracted: which clusters the robot sees, or that are too small to be  *)
(* worth a visit, is a free choice; the principal axis along which a large *)
(* cluster is split is one of four directions.                             *)
(***************************************************************************)
EXTENDS SDFMap, FiniteSetsExt

CONSTANTS
  Margin,             \* by how much a search exceeds the updated box
  ClusterMin,         \* cluster_min_
  ClusterSizeSquared, \* cluster_size_xy_ in cells, squared
  FinishPercent       \* min_view_finish_fraction_

ASSUME FrontierAssumption ==
  /\ Margin \in Nat /\ ClusterMin \in Nat
  /\ ClusterSizeSquared \in Nat \ {0} /\ FinishPercent \in 0 .. 100

VARIABLES
  flag,       \* frontier_flag_: "NONE", "ACTIVE", "DORMANT" or "FORCE_DORMANT"
  active,     \* frontiers_
  dormant     \* dormant_frontiers_

frontierVars == <<flag, active, dormant>>

FrontierInit ==
  /\ flag = [c \in Cell |-> "NONE"]
  /\ active = {} /\ dormant = {}

Close(c, d, n) == c[1] - d[1] \in -n .. n /\ c[2] - d[2] \in -n .. n
FourNeighbors(c) == {d \in Cell : Close(c, d, 1) /\ (c[1] = d[1]) # (c[2] = d[2])}

isSatisfyFrontier(c) ==
  /\ c \notin inflated /\ occupancy[c] = "UNKNOWN"
  /\ \E d \in FourNeighbors(c) : occupancy[d] = "FREE"

Marked(cells, f) == [c \in Cell |-> IF c \in cells THEN f ELSE flag[c]]

(* The cells a breadth-first search from c reaches within a set.           *)
Component(c, within) ==
  LET reached[n \in 0 .. Cardinality(within)] ==
        IF n = 0 THEN {c}
        ELSE LET r == reached[n - 1]
             IN  r \cup {d \in within : \E e \in r : Close(d, e, 1)}
  IN  reached[Cardinality(within)]

-----------------------------------------------------------------------------
(* Splitting; positions are multiplied by the size to stay integral.       *)

SumOf(K, i) == MapThenSumSet(LAMBDA c : c[i], K)

(* average_ as a cell, and a cell's offset from it times the cluster size. *)
Average(K) == LET n == Cardinality(K)
              IN  <<(2 * SumOf(K, 1) + n) \div (2 * n), (2 * SumOf(K, 2) + n) \div (2 * n)>>
Offset(c, K) == LET n == Cardinality(K)
                IN  <<n * c[1] - SumOf(K, 1), n * c[2] - SumOf(K, 2)>>
Dot(u, v) == u[1] * v[1] + u[2] * v[2]

TooLarge(K) ==
  \E c \in K : Dot(Offset(c, K), Offset(c, K))
               > ClusterSizeSquared * Cardinality(K) * Cardinality(K)

Halves(K) ==
  {A \in {{c \in K : Dot(Offset(c, K), axis) >= 0} :
            axis \in {<<1, 0>>, <<0, 1>>, <<1, 1>>, <<1, -1>>}} : A # K}

(* The ways splitHorizontally may cut a cluster.                           *)
Splits[K \in SUBSET Cell] ==
  IF TooLarge(K)
  THEN UNION {{P \cup Q : P \in Splits[A], Q \in Splits[K \ A]} : A \in Halves(K)}
  ELSE {{K}}

(* One way for each of several clusters, put together.                     *)
SplitsOfAll(Ks) ==
  FoldSet(LAMBDA K, ways : {P \cup Q : P \in Splits[K], Q \in ways}, {{}}, Ks)

-----------------------------------------------------------------------------
(* haveOverlap, with the boxes of cells for those of positions: rays end   *)
(* at cell centres here.                                                   *)
Overlaps(K) == BoxOf(K) \cap updated # {}
isFrontierChanged(K) == \E c \in K : ~isSatisfyFrontier(c)
Removed == {K \in active \cup dormant : Overlaps(K) /\ isFrontierChanged(K)}

(* Slips for the mutation runs: a search without margin, one that finds    *)
(* what was given up, and flags that outlive their cluster.                *)
SearchRegionUnwidened == updated
CandidatesForced ==
  {c \in Cell : (c \in UNION Removed \/ flag[c] \in {"NONE", "FORCE_DORMANT"})
                /\ isSatisfyFrontier(c)}
SearchAndRetireUnreset(new, seen) ==
  /\ active' = ((active \ Removed) \cup new) \ seen
  /\ dormant' = (dormant \ Removed) \cup seen
  /\ flag' = [c \in Cell |-> IF c \in UNION seen THEN "DORMANT"
                             ELSE IF c \in UNION new THEN "ACTIVE" ELSE flag[c]]

(* The cells the search starts from, and the cells it may add.             *)
SearchRegion == {c \in Cell : \E b \in updated : Close(c, b, Margin)}
Candidates ==
  {c \in Cell : (c \in UNION Removed \/ flag[c] = "NONE") /\ isSatisfyFrontier(c)}
Found == LET free == Candidates
         IN  {K \in {Component(c, free) : c \in SearchRegion \cap free} :
                Cardinality(K) > ClusterMin}

(* searchFrontiers and, right after it, dormantSeenFrontiers, which moves  *)
(* the clusters of "seen". The flags of a cluster follow its list.         *)
SearchAndRetire(new, seen) ==
  LET kept == (active \ Removed) \cup new
  IN  /\ active' = kept \ seen
      /\ dormant' = (dormant \ Removed) \cup seen
      /\ flag' = [c \in Cell |-> IF c \in UNION seen THEN "DORMANT"
                                 ELSE IF c \in UNION new THEN "ACTIVE"
                                 ELSE IF c \in UNION Removed THEN "NONE" ELSE flag[c]]

isAnyFrontierChanged ==
  \E K \in active \cup dormant :
    /\ Overlaps(K)
    /\ LET n == Cardinality({c \in K : ~isSatisfyFrontier(c)})
       IN  n > 0 /\ n >= (FinishPercent * Cardinality(K)) \div 100

(* The centre is marked whatever it is, and with it every cluster that     *)
(* touches it; a cluster leaves its list if its average cell is marked.    *)
setForceDormantFrontier(centre) ==
  LET region == Component(centre, {c \in Cell : flag[c] \in {"ACTIVE", "DORMANT"}})
      gone == {K \in active \cup dormant :
                 Average(K) \in region \/ flag[Average(K)] = "FORCE_DORMANT"}
  IN  /\ flag' = Marked(region, "FORCE_DORMANT")
      /\ active' = active \ gone
      /\ dormant' = dormant \ gone
=============================================================================
