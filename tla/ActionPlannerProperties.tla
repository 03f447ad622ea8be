---------------------- MODULE ActionPlannerProperties ----------------------
(***************************************************************************)
(* What ActionPlanner must guarantee.                                      *)
(***************************************************************************)
EXTENDS ActionPlanner

(* The variables hold values of their types; the counters stay below the   *)
(* thresholds that reset them or end the episode.                          *)
TypeOK ==
  /\ phase \in {"plan", "execute", "over"} /\ episode \in 0..MaxEpisodes
  /\ phase # "over" => episode > 0
  /\ place \in Places /\ heading \in Headings /\ yaw \in Yaws(heading)
  /\ lastPlace \in Places \cup {"none"} /\ newestAction \in Motions
  /\ finalResult \in FINAL_RESULT \cup {"none"}
  /\ explResult \in EXPL_RESULT \cup {"none"}
  /\ dormantFlag \in BOOLEAN /\ escaping \in BOOLEAN /\ pathEmpty \in BOOLEAN
  /\ escapeCount \in 0..Len(Manoeuvre)
  /\ escapePose \in Pose \cup {NoPose} /\ stuckingPoints \subseteq Pose
  /\ stuckingActions \in 0..MaxStuckingCount
  /\ stuckingNextPos \in 0..(MaxStuckingNextPosCount - 1)
  /\ nextPos \in Target \cup {None} /\ lastNextPos \in Target \cup {None}
  /\ frontier \in [Frontiers -> FrontierState] /\ object \in [Objects -> ObjectState]
  /\ overDepth \in BOOLEAN /\ lastOverDepth \in Target \cup {None}

(* An action is only handed out by a call that goes on: the planner has a  *)
(* path, an escape repeats the verdict of an earlier plan (never the       *)
(* initial -1) and no counter has reached its limit.                       *)
ActionHasPlan ==
  phase = "execute" => /\ finalResult \in Continuing /\ ~pathEmpty
                       /\ stuckingActions < MaxStuckingCount

(* The episode ends with REACH_OBJECT only near a target that was chosen   *)
(* as an object, although frontier and object targets share next_pos_ and  *)
(* an earlier target may be restored.                                      *)
ReachedIsObject ==
  finalResult = "REACH_OBJECT" =>
    /\ nextPos # None /\ nextPos.id \notin Frontiers
    /\ DistanceTo(nextPos) < SOFT_REACH_DISTANCE

(* Once the planner has given up a target as too close or stuck at, the    *)
(* stability heuristic does not restore it in the next plan.               *)
AbandonedIsLeft ==
  [][phase = "plan" /\ dormantFlag /\ phase' = "execute" /\ ~escaping' => nextPos' # nextPos]_vars

(* A target perceived in an earlier episode is pursued only as the last    *)
(* resort, the extreme search.                                             *)
OldTargetsAreExtreme ==
  phase = "execute" /\ nextPos.since # episode => explResult = "SEARCH_EXTREME"

(* A robot that cannot leave its place does not act forever: the episode   *)
(* ends, although every target given up restarts the count of stuck        *)
(* actions and the calls of an escape are not counted.                     *)
StuckRobotStops == []<>(phase = "over") \/ []<><<place' # place>>_vars

(* "max consecutive stuck actions -> stop": as long as the robot does not  *)
(* move, each plan that goes on counts one more stuck action.              *)
StuckActionsAccumulate ==
  [][phase = "plan" /\ phase' = "execute" /\ ~Moved /\ ~escaping'
       => stuckingActions' = stuckingActions + 1]_vars
=============================================================================
