------------------------------ MODULE SDFMap -------------------------------
(***************************************************************************)
(* The occupancy grid (SDFMap2D) as depth images change it, one image at a *)
(* time: the callback of MapROS runs to its end before anything reads it.  *)
(*                                                                         *)
(* Kept: which cells an image may turn, the bounding box of the image, the *)
(* cells whose inflation is cleared and those inflated again. Abstracted:  *)
(* log-odds, to whether a known cell changes side; rays, to the cells they *)
(* hit and cross, with their ends at cell centres; the map's edge, which   *)
(* no ray reaches. The distance field is left out.                         *)
(***************************************************************************)
EXTENDS Integers, FiniteSets

CONSTANTS
  Width, Height,      \* the grid
  InflationSquared,   \* obstacles_inflation_ in cells, squared
  Scans               \* the depth images: [sensor, hits, misses]

ASSUME SizeAssumption == Width \in Nat \ {0} /\ Height \in Nat \ {0}
ASSUME InflationAssumption == InflationSquared \in Nat

Cell == (1 .. Width) \X (1 .. Height)
Scan == [sensor : Cell, hits : SUBSET Cell, misses : SUBSET Cell]

(* A cell where rays end and that others cross is in hits or in misses, by *)
(* what is more frequent (a tie is a hit); an empty cloud leaves the map   *)
(* as it is and is no scan.                                                *)
ASSUME ScansAssumption ==
  /\ Scans \subseteq Scan
  /\ \A s \in Scans : s.hits \cap s.misses = {} /\ s.hits \cup s.misses # {}

VARIABLES
  occupancy,   \* occupancy_buffer_: "UNKNOWN", "FREE" or "OCCUPIED"
  inflated,    \* the cells set in occupancy_buffer_inflate_
  updated      \* the box local_update_min_ .. local_update_max_, as its cells

sdfVars == <<occupancy, inflated, updated>>

(* Slips a maintainer could make, for the mutation runs: a disc that is not *)
(* cut at the map's edge, an inflation that is never cleared.              *)
NearUncut(c) == {<<c[1] + dx, c[2] + dy>> : dx, dy \in {-1, 0, 1}}

Near(c) == {d \in Cell : (c[1] - d[1]) * (c[1] - d[1])
                         + (c[2] - d[2]) * (c[2] - d[2]) <= InflationSquared}

(* The bounding box of a set of cells.                                     *)
BoxOf(S) == {c \in Cell : /\ \E a, b \in S : a[1] <= c[1] /\ c[1] <= b[1]
                          /\ \E a, b \in S : a[2] <= c[2] /\ c[2] <= b[2]}

SdfInit ==
  /\ occupancy = [c \in Cell |-> "UNKNOWN"]
  /\ inflated = {}
  /\ updated = {<<1, 1>>}

(* The known cells an image contradicts; whether one changes side depends  *)
(* on how often it was seen before.                                        *)
Contradicted(scan) ==
  {c \in scan.hits : occupancy[c] = "FREE"} \cup {c \in scan.misses : occupancy[c] = "OCCUPIED"}

Fused(scan, turned) ==
  [c \in Cell |->
     IF c \in turned \/ (c \in scan.hits \cup scan.misses /\ occupancy[c] = "UNKNOWN")
     THEN IF c \in scan.hits THEN "OCCUPIED" ELSE "FREE"
     ELSE occupancy[c]]

ReinflatedUncleared(needClear, obstacles) ==
  inflated \cup UNION {Near(c) : c \in needClear \cup obstacles}

(* clearAndInflateLocalMap, given the cells that changed to free.  A cell  *)
(* counts as changed if it falls below the threshold it was above; at the  *)
(* threshold itself are the cells seen for the first time, and with the    *)
(* parameters of the launch files no other sum of hits and misses.         *)
Reinflated(needClear, obstacles) ==
  (inflated \ UNION {Near(c) : c \in needClear}) \cup UNION {Near(c) : c \in obstacles}

depthPoseCallback(scan) ==
  LET box == BoxOf({scan.sensor} \cup scan.hits \cup scan.misses)
  IN  \E turned \in SUBSET Contradicted(scan) :
        /\ occupancy' = Fused(scan, turned)
        /\ updated' = box
        /\ inflated' = Reinflated(turned \cap scan.misses,
                                  {c \in box : Fused(scan, turned)[c] = "OCCUPIED"})

(* The cells where the robot got stuck; they are inflated only when a      *)
(* later image's box covers them.                                          *)
setForceOccGrid(cells) ==
  /\ occupancy' = [c \in Cell |-> IF c \in cells THEN "OCCUPIED" ELSE occupancy[c]]
  /\ UNCHANGED <<inflated, updated>>
=============================================================================
