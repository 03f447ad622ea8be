------------------------- MODULE FrontierProperties ------------------------
(***************************************************************************)
(* What occupancy grid and frontier clusters promise each other.           *)
(***************************************************************************)
EXTENDS FrontierCycle

\* The grid, the flags and the lists have the types of the code's buffers.
TypeOK ==
  /\ occupancy \in [Cell -> {"UNKNOWN", "FREE", "OCCUPIED"}]
  /\ inflated \subseteq Cell /\ updated \subseteq Cell
  /\ flag \in [Cell -> {"NONE", "ACTIVE", "DORMANT", "FORCE_DORMANT"}]
  /\ active \subseteq SUBSET Cell /\ dormant \subseteq SUBSET Cell
  /\ phase \in {"world", "plan", "stuck"}
  /\ fresh \in 0 .. ScansPerUpdate /\ scans \in 0 .. MaxScans /\ updates \in 0 .. MaxUpdates
  /\ stray \subseteq Cell /\ abandoned \subseteq Cell /\ changed \in BOOLEAN /\ unheeded \in BOOLEAN
  /\ dormantFlag \in BOOLEAN /\ exploring \in BOOLEAN
  /\ target \in Cell \cup {NoTarget, AnObject}

\* Inflation is left only where an obstacle is: what became free does not stay
\* closed to the path search (sdf_map2d.cpp:519-528).
NoGhostInflation == \A c \in inflated : \E o \in Near(c) : occupancy[o] = "OCCUPIED"

\* Inflation is complete: every cell closer to an obstacle than the robot is
\* wide is closed to the path search.
InflationSurrounds == \A o \in Cell : occupancy[o] = "OCCUPIED" => Near(o) \subseteq inflated

\* The lists and the flags, two copies of the same fact, agree: no cell is in two
\* clusters, a listed cell is never free to be found again, and no cell
\* is marked without a cluster that can release it, unless it was given up, with
\* the cells around the centre or as part of a cluster forced dormant.
ListsMatchFlags ==
  /\ \A K, L \in active \cup dormant : K # L => K \cap L = {}
  /\ \A K \in active, c \in Cell : c \in K => flag[c] \in {"ACTIVE", "FORCE_DORMANT"}
  /\ \A K \in dormant, c \in Cell : c \in K => flag[c] \in {"DORMANT", "FORCE_DORMANT"}
  /\ \A c \in Cell : \/ flag[c] \in {"NONE", "FORCE_DORMANT"} \/ c \in abandoned
                     \/ \E K \in active \cup dormant : c \in K

\* Although a search looks only around the last image, afterwards every frontier
\* of the whole map is in a cluster, except groups too small to be one and those
\* with a cell of a cluster that reached out of the search when it was released.
NoFrontierForgotten ==
  phase = "plan" =>
    LET free == {c \in Cell : flag[c] = "NONE" /\ isSatisfyFrontier(c)}
    IN  \A c \in free : LET group == Component(c, free)
                        IN  Cardinality(group) <= ClusterMin \/ group \cap stray # {}

\* Frontier cells the robot gave up never come back in the episode, unless they
\* are still in the list of a cluster that only touched the one given up.
ForcedStaysDormant ==
  [][\A c \in Cell \ UNION (active \cup dormant) :
       flag[c] = "FORCE_DORMANT" => flag'[c] = "FORCE_DORMANT"]_vars

\* The planner keeps a target only while that is the centre of a listed cluster,
\* unless a cluster was lost in a call that was escaping, or too few of its cells
\* had changed to be reported (exploration_fsm.cpp:165, frontier_map2d.cpp:376).
KeptTargetIsListed ==
  [][\A force \in BOOLEAN :
       KeepTarget(force) /\ ~unheeded => \E K \in active \cup dormant : Average(K) = target]_vars
=============================================================================
