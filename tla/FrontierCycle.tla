--------------------------- MODULE FrontierCycle ---------------------------
(***************************************************************************)
(* Occupancy grid, frontier clusters and the part of the planning call     *)
(* that uses them, in simulation mode. All callbacks of the planner node   *)
(* run in one thread; a planning call is two steps here, with no depth     *)
(* image between them: the frontier update, and what becomes of it.        *)
(***************************************************************************)
EXTENDS FrontierMap

CONSTANTS
  ScansPerUpdate,   \* depth images handled between two frontier updates
  StuckCells,       \* the sets of cells a failed escape may mark
  MaxScans,         \* bound: depth images in an episode
  MaxUpdates        \* bound: frontier updates in an episode

ASSUME CycleAssumption ==
  /\ StuckCells \subseteq SUBSET Cell
  /\ ScansPerUpdate \in Nat \ {0} /\ MaxScans \in Nat /\ MaxUpdates \in Nat

NoTarget == <<>>
AnObject == <<0>>

VARIABLES
  phase,            \* "world" between callbacks; within a planning call "plan",
                    \* or "stuck" after an escape failed
  fresh,            \* images since the last frontier update
  scans, updates,   \* their numbers, for the bounds
  stray,            \* history: cells released by a search that did not look at them
  abandoned,        \* history: cells of the clusters that were forced dormant
  changed,          \* frontier_change_flag of this call
  unheeded,         \* a cluster has left the lists, and no choice followed
  dormantFlag,      \* dormant_frontier_flag_
  exploring,        \* final_result_ is EXPLORE
  target            \* ed_->next_pos_, as a cell; NoTarget before the first plan,
                    \* AnObject when it is none of a frontier

planVars == <<changed, unheeded, dormantFlag, exploring, target>>
counters == <<fresh, scans, updates>>
history == <<stray, abandoned>>
vars == <<sdfVars, frontierVars, phase, counters, history, planVars>>

Init ==
  /\ SdfInit /\ FrontierInit
  /\ phase = "world" /\ fresh = 0 /\ scans = 0 /\ updates = 0
  /\ stray = {} /\ abandoned = {}
  /\ changed = FALSE /\ unheeded = FALSE /\ dormantFlag = FALSE /\ exploring = FALSE
  /\ target = NoTarget

(* The evaluator publishes one image per turn and the planner updates the  *)
(* frontiers once per turn, but on topics of their own.                    *)
Observe(scan) ==
  /\ phase = "world" /\ fresh < ScansPerUpdate /\ scans < MaxScans
  /\ depthPoseCallback(scan)
  /\ fresh' = fresh + 1 /\ scans' = scans + 1
  /\ UNCHANGED <<frontierVars, phase, updates, history, planVars>>

updateFrontierAndObject ==
  /\ updates < MaxUpdates
  /\ \E new \in SplitsOfAll(Found) : \E seen \in SUBSET ((active \ Removed) \cup new) :
       /\ SearchAndRetire(new, seen)
       /\ changed' = (isAnyFrontierChanged \/ seen # {})
  /\ stray' = stray \cup ((UNION Removed) \ SearchRegion)
  /\ fresh' = 0 /\ updates' = updates + 1
  /\ UNCHANGED <<sdfVars, scans, abandoned>>

(* While the planner waits for the trigger and in the scripted turns the   *)
(* change flag is dropped; there is no target yet.                         *)
IdleUpdate ==
  /\ phase = "world" /\ target = NoTarget
  /\ updateFrontierAndObject
  /\ UNCHANGED <<phase, unheeded, dormantFlag, exploring, target>>

StartPlanning ==
  /\ phase = "world"
  /\ updateFrontierAndObject
  /\ phase' = "plan"
  /\ unheeded' = (unheeded \/ (Removed # {} /\ ~changed'))
  /\ UNCHANGED <<dormantFlag, exploring, target>>

(* During an escape the call ends here.                                    *)
Escape ==
  /\ phase = "plan" /\ target # NoTarget
  /\ phase' = "world"
  /\ unheeded' = (unheeded \/ changed)
  /\ UNCHANGED <<sdfVars, frontierVars, counters, history, changed, dormantFlag,
                 exploring, target>>

(* The escape failed: the cells ahead become obstacles, planning goes on.  *)
GiveUpEscape(cells) ==
  /\ phase = "plan" /\ target # NoTarget
  /\ phase' = "stuck"
  /\ setForceOccGrid(cells)
  /\ dormantFlag' = TRUE
  /\ UNCHANGED <<frontierVars, counters, history, changed, unheeded, exploring,
                 target>>

(* The rest of the call with a frontier as its target; the robot may be so *)
(* close to it, or have failed to reach it so often, that it is forced     *)
(* dormant.                                                                *)
Follow(centre, force) ==
  /\ phase \in {"plan", "stuck"}
  /\ phase' = "world" /\ exploring' = TRUE /\ target' = centre
  /\ dormantFlag' = force
  /\ IF force THEN setForceDormantFrontier(centre) ELSE UNCHANGED frontierVars
  /\ abandoned' = abandoned \cup UNION ((active \cup dormant) \ (active' \cup dormant'))
  /\ UNCHANGED <<sdfVars, counters, stray, changed>>

ReplanUnlessForced == ~exploring \/ changed   \* a slip, for the mutation runs
Replan == dormantFlag \/ ~exploring \/ changed

(* Dormant clusters are the last resort.                                   *)
ChooseTarget(K, force) == Replan /\ unheeded' = FALSE /\ Follow(Average(K), force)

(* planNextBestPoint still needs a frontier for EXPLORATION.               *)
KeepTarget(force) ==
  ~Replan /\ active \cup dormant # {} /\ Follow(target, force) /\ UNCHANGED unheeded

(* An object is the target.                                                *)
SearchObject ==
  /\ phase \in {"plan", "stuck"}
  /\ phase' = "world" /\ target' = AnObject
  /\ exploring' = FALSE /\ dormantFlag' = FALSE /\ unheeded' = FALSE
  /\ UNCHANGED <<sdfVars, frontierVars, counters, history, changed>>

Next ==
  \/ \E scan \in Scans : Observe(scan)
  \/ IdleUpdate \/ StartPlanning
  \/ Escape \/ \E cells \in StuckCells : GiveUpEscape(cells)
  \/ \E K \in active \cup dormant, force \in BOOLEAN : ChooseTarget(K, force)
  \/ \E force \in BOOLEAN : KeepTarget(force)
  \/ SearchObject

Spec == Init /\ [][Next]_vars
=============================================================================
