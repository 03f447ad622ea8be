--------------------------- MODULE ActionPlanner ---------------------------
(***************************************************************************)
(* One planning call of the planner node in simulation mode                *)
(* (ExplorationFSM::callActionPlanner), executed once per turn after the   *)
(* scripted turns, and the world's answer to the action it chose.          *)
(*                                                                         *)
(* Kept: the order of the call's early returns, the escape manoeuvre, the  *)
(* decision to keep the previous target, the two stuck counters, dormancy. *)
(* Abstracted: a place stands for the positions less than 5 cm apart,      *)
(* headings are multiples of a turn, each path search may succeed or time  *)
(* out, and the step towards a target may be any motion.                   *)
(***************************************************************************)
EXTENDS Integers, Sequences

CONSTANTS
  Frontiers,               \* bound: the frontier clusters one episode can discover
  Objects,                 \* clusters of the object map
  Places,
  Distance,                \* Distance[p, t]: from place p to target t, in cm
  Turns,                   \* headings of a full turn (12 in the code)
  MaxStuckingCount,        \* MAX_STUCKING_COUNT, 25 in the code
  MaxStuckingNextPosCount, \* MAX_STUCKING_NEXT_POS_COUNT, 14 in the code
  MaxEpisodes              \* bound: episodes served by one process

OverDepth == "over depth"
Ids == Frontiers \cup Objects \cup {OverDepth}

ASSUME TargetsAssumption == Frontiers \cap Objects = {} /\ OverDepth \notin Frontiers \cup Objects
ASSUME DistanceAssumption == Distance \in [Places \X Ids -> Nat]
ASSUME TurnsAssumption == Turns \in Nat \ {0}
ASSUME CountsAssumption ==
  /\ MaxStuckingCount \in Nat \ {0} /\ MaxStuckingNextPosCount \in Nat \ {0}
  /\ MaxEpisodes \in Nat \ {0}

REACH_DISTANCE == 20
SOFT_REACH_DISTANCE == 45
FORCE_DORMANT_DISTANCE == 35

Motions == {"MOVE_FORWARD", "TURN_LEFT", "TURN_RIGHT"}
Continuing == {"EXPLORE", "SEARCH_OBJECT"}
FINAL_RESULT == Continuing \cup {"STUCKING", "NO_FRONTIER", "REACH_OBJECT"}
EXPL_RESULT == {"EXPLORATION", "SEARCH_BEST_OBJECT", "SEARCH_OVER_DEPTH_OBJECT",
                "SEARCH_SUSPICIOUS_OBJECT", "NO_FRONTIER", "SEARCH_EXTREME"}

(* A target is a frontier's centre or a point of an object, and, for the   *)
(* properties only, the episode in which it was perceived.                 *)
Target == [id : Ids, since : 1..MaxEpisodes]
None == [id |-> "none", since |-> 0]

Headings == 0..(Turns - 1)
(* atan2 reports the half turn with either sign.                           *)
Yaws(h) == {y \in {h, h - Turns} : -Turns <= 2 * y /\ 2 * y <= Turns}
Yaw == UNION {Yaws(h) : h \in Headings}
Pose == [place : Places, yaw : Yaw]
NoPose == [place |-> "none", yaw |-> 0]   \* uninitialised in the code, and never read

VARIABLES
  phase,              \* "plan", "execute" or "over"
  episode,
  place, heading,     \* where the robot is
  yaw,                \* start_yaw_(0), as odometry reports it
  lastPlace,          \* last_start_pos_; "none" is (-100, -100)
  newestAction,       \* newest_action_
  finalResult,        \* final_result_; "none" is -1
  explResult,         \* the last message on /ros/expl_result
  dormantFlag,        \* dormant_frontier_flag_
  escaping,           \* escape_stucking_flag_
  escapeCount,        \* escape_stucking_count_
  escapePose,         \* escape_stucking_pos_, escape_stucking_yaw_
  stuckingPoints,     \* stucking_points_
  stuckingActions,    \* stucking_action_count_
  stuckingNextPos,    \* stucking_next_pos_count_
  nextPos,            \* ed_->next_pos_
  pathEmpty,          \* ed_->next_best_path_.empty()
  lastNextPos,        \* last_next_pos_
  frontier,           \* frontier map: unseen, active, dormant or gone
  object,             \* object map: none, other, suspicious or confident
  overDepth,          \* over_depth_object_cloud_ is not empty
  lastOverDepth       \* last_over_depth_object_cloud, a static local

robot == <<place, heading, yaw>>
escapeVars == <<escaping, escapeCount, escapePose, stuckingPoints>>
counters == <<stuckingActions, stuckingNextPos>>
goal == <<nextPos, pathEmpty, lastNextPos, explResult>>
seen == <<object, overDepth>>
vars == <<phase, episode, robot, lastPlace, newestAction, finalResult, dormantFlag,
          escapeVars, counters, goal, frontier, seen, lastOverDepth>>

Moved == place # lastPlace
DistanceTo(t) == Distance[place, t.id]

(***************************************************************************)
(* updateFrontierAndObject: frontiers are found, seen from close by        *)
(* (dormant) and removed; a cluster that is found again has a new centre.  *)
(* Becoming dormant sets the change flag, removal may or may not set it.   *)
(***************************************************************************)
FrontierState == {"unseen", "active", "dormant", "gone"}
Later(s) == CASE s = "unseen" -> FrontierState
              [] s = "active" -> {"active", "dormant", "gone"}
              [] s = "dormant" -> {"dormant", "gone"}
              [] s = "gone" -> {"gone"}

Updates == {f \in [Frontiers -> FrontierState] : \A i \in Frontiers : f[i] \in Later(frontier[i])}
Changed(f) ==
  IF \E i \in Frontiers : f[i] = "dormant" /\ frontier[i] # "dormant" THEN {TRUE}
  ELSE IF \E i \in Frontiers : f[i] = "gone" /\ frontier[i] \in {"active", "dormant"}
       THEN BOOLEAN ELSE {FALSE}

(* setForceDormantFrontier: the target's cluster leaves the map, and so    *)
(* may the clusters that touch it.                                         *)
ForcedDormant(f, t) ==
  {g \in [Frontiers -> FrontierState] :
     /\ t.id \in Frontiers => g[t.id] = "gone"
     /\ \A i \in Frontiers : g[i] = f[i] \/ (g[i] = "gone" /\ f[i] # "unseen")}

(***************************************************************************)
(* planNextBestPoint: the results it can return, each with its target.     *)
(***************************************************************************)
Listed == {o \in Objects : object[o] \in {"suspicious", "confident"}}
Fallback == IF Listed = {} THEN {o \in Objects : object[o] = "other"} ELSE {}
Now(i) == [id |-> i, since |-> episode]
Cached == IF overDepth THEN Now(OverDepth) ELSE lastOverDepth
OverDepthCached == {Cached} \ {None}
OverDepthNow == IF overDepth THEN {Now(OverDepth)} ELSE {}
(* A path search to a target may succeed or time out.                      *)
Perceived(S) == {Now(i) : i \in S}
PolicyChoice(f) == {i \in Frontiers : f[i] = "active"}
DormantChoice(f) == {i \in Frontiers : f[i] = "dormant"}

PlanNextBestPoint(f) ==
  ({"SEARCH_BEST_OBJECT"} \X Perceived({o \in Objects : object[o] = "confident"}))
  \cup ({"SEARCH_OVER_DEPTH_OBJECT"} \X OverDepthNow)
  \cup ({"EXPLORATION"} \X Perceived(PolicyChoice(f) \cup DormantChoice(f)))
  \cup ({"SEARCH_SUSPICIOUS_OBJECT"} \X Perceived(Listed))
  \cup ({"SEARCH_EXTREME"} \X (Perceived(Listed \cup Fallback) \cup OverDepthCached))
  \cup {<<"NO_FRONTIER", nextPos>>}

(* The static cloud is only refreshed when the extreme search gets to it.  *)
RefreshCache(r) ==
  \/ r \in {"SEARCH_EXTREME", "NO_FRONTIER"} /\ lastOverDepth' = Cached
  \/ r # "NO_FRONTIER" /\ lastOverDepth' = lastOverDepth

FinalOf(r) == CASE r = "EXPLORATION" -> "EXPLORE"
                [] r = "NO_FRONTIER" -> "NO_FRONTIER"
                [] OTHER -> "SEARCH_OBJECT"

(***************************************************************************)
(* callActionPlanner, one action for each way through it.                  *)
(***************************************************************************)
Return(r) ==
  /\ finalResult' = r
  /\ phase' = IF r \in Continuing THEN "execute" ELSE "over"

Blocked == ~escaping /\ ~Moved /\ newestAction = "MOVE_FORWARD"
AtObject(d) == finalResult = "SEARCH_OBJECT" /\ DistanceTo(nextPos) < d
Reached == AtObject(REACH_DISTANCE) \/ (Blocked /\ AtObject(SOFT_REACH_DISTANCE))

ReachObject ==
  /\ phase = "plan" /\ Reached
  /\ frontier' \in Updates
  /\ lastPlace' = place
  /\ Return("REACH_OBJECT")
  /\ UNCHANGED <<episode, robot, newestAction, dormantFlag, escapeVars, counters,
                 goal, seen, lastOverDepth>>

(* Two neighbouring headings compare as different or, by rounding, equal.  *)
PastPoint(d) ==
  \E s \in stuckingPoints : s.place = place /\ s.yaw - yaw <= d /\ yaw - s.yaw <= d
PastStucking == {PastPoint(0), PastPoint(1)}

Manoeuvre == <<"TURN_RIGHT", "MOVE_FORWARD", "TURN_RIGHT", "MOVE_FORWARD", "TURN_LEFT",
               "TURN_LEFT", "TURN_LEFT", "MOVE_FORWARD", "TURN_LEFT", "MOVE_FORWARD">>

Escape(count) ==
  /\ newestAction' = Manoeuvre[count + 1]
  /\ escapeCount' = count + 1
  /\ escaping' = TRUE
  /\ frontier' \in Updates
  /\ lastPlace' = place
  /\ Return(finalResult)
  /\ UNCHANGED <<episode, robot, dormantFlag, stuckingPoints, counters, goal, seen,
                 lastOverDepth>>

StartEscape ==
  /\ phase = "plan" /\ ~Reached
  /\ Blocked /\ FALSE \in PastStucking
  /\ escapePose' = [place |-> place, yaw |-> yaw]
  /\ Escape(0)

ContinueEscape ==
  /\ phase = "plan" /\ ~Reached
  /\ escaping /\ ~Moved /\ escapeCount < Len(Manoeuvre)
  /\ UNCHANGED escapePose
  /\ Escape(escapeCount)

(* The manoeuvre is over: the robot has moved, or all of it was in vain.   *)
GivesUp == escaping /\ ~Moved /\ escapeCount = Len(Manoeuvre)
LeaveEscape ==
  /\ escaping' = FALSE
  /\ stuckingPoints' = IF GivesUp THEN stuckingPoints \cup {escapePose} ELSE stuckingPoints
  /\ UNCHANGED <<escapeCount, escapePose>>

(* The previous target is kept while its frontiers have not changed.       *)
KeepsFromTheStart(changed) == ~dormantFlag /\ ~GivesUp /\ ~changed
KeepsAbandoned(changed) == ~GivesUp /\ finalResult = "EXPLORE" /\ ~changed
Keeps(changed) ==
  ~dormantFlag /\ ~GivesUp /\ finalResult = "EXPLORE" /\ ~changed
KeptForAnyResult(r, changed) == Keeps(changed)
Kept(r, changed) == r = "EXPLORATION" /\ Keeps(changed)

NoPath(f, r) ==
  /\ frontier' = f
  /\ dormantFlag' = FALSE
  /\ Return(r)
  /\ UNCHANGED <<lastNextPos, counters, newestAction>>

SameTarget(r, t) ==
  IF r # "EXPLORE" THEN stuckingNextPos
  ELSE IF t = lastNextPos /\ ~Moved THEN stuckingNextPos + 1 ELSE 0
TooLongOffByOne(r, t) == r = "EXPLORE" /\ SameTarget(r, t) > MaxStuckingNextPosCount
TooLong(r, t) == r = "EXPLORE" /\ SameTarget(r, t) >= MaxStuckingNextPosCount
TooClose(r, t) == r = "EXPLORE" /\ DistanceTo(t) < FORCE_DORMANT_DISTANCE
GivesUpTarget(r, t) == TooClose(r, t) \/ TooLong(r, t)
StuckActions(r, t) ==
  IF Moved THEN 0 ELSE 1 + (IF TooLong(r, t) THEN 0 ELSE stuckingActions)

Pursue(f, r, t) ==
  /\ lastNextPos' = t
  /\ stuckingNextPos' = IF TooLong(r, t) THEN 0 ELSE SameTarget(r, t)
  /\ stuckingActions' = StuckActions(r, t)
  /\ dormantFlag' = GivesUpTarget(r, t)
  /\ frontier' \in IF GivesUpTarget(r, t) THEN ForcedDormant(f, t) ELSE {f}
  /\ IF StuckActions(r, t) >= MaxStuckingCount
     THEN Return("STUCKING") /\ UNCHANGED newestAction
     ELSE Return(r) /\ newestAction' \in Motions

Replan ==
  /\ phase = "plan" /\ ~Reached
  /\ Blocked => TRUE \in PastStucking
  /\ escaping => Moved \/ GivesUp
  /\ lastPlace' = place
  /\ LeaveEscape
  /\ \E f \in Updates : \E changed \in Changed(f), p \in PlanNextBestPoint(f) :
       LET r == FinalOf(p[1])
           t == IF Kept(p[1], changed) THEN nextPos ELSE p[2]
           empty == IF Kept(p[1], changed) THEN pathEmpty ELSE r = "NO_FRONTIER"
       IN /\ explResult' = p[1] /\ nextPos' = t /\ pathEmpty' = empty
          /\ RefreshCache(p[1])
          /\ IF empty THEN NoPath(f, r) ELSE Pursue(f, r, t)
  /\ UNCHANGED <<episode, robot, seen>>

CallActionPlanner == ReachObject \/ StartEscape \/ ContinueEscape \/ Replan

(***************************************************************************)
(* The world: the action moves or turns the robot, or a forward move is    *)
(* blocked; what the new observation shows is arbitrary.                   *)
(***************************************************************************)
ObjectState == {"none", "other", "suspicious", "confident"}

Observe ==
  /\ yaw' \in Yaws(heading')
  /\ object' \in [Objects -> ObjectState]
  /\ overDepth' \in BOOLEAN

Execute ==
  /\ phase = "execute"
  /\ CASE newestAction = "MOVE_FORWARD" -> place' \in Places /\ heading' = heading
       [] newestAction = "TURN_LEFT" -> place' = place /\ heading' = (heading + 1) % Turns
       [] newestAction = "TURN_RIGHT" -> place' = place /\ heading' = (heading + Turns - 1) % Turns
  /\ Observe
  /\ phase' = "plan"
  /\ UNCHANGED <<episode, lastPlace, newestAction, finalResult, dormantFlag, escapeVars,
                 counters, goal, frontier, lastOverDepth>>

(* The step limit: the evaluator replaces the action by a STOP.  One more  *)
(* plan follows, whose action nobody executes before init(): what it can   *)
(* leave in the static cloud, a plan after an action that did not move the *)
(* robot leaves too.                                                       *)
StepLimit ==
  /\ phase = "execute"
  /\ phase' = "over"
  /\ UNCHANGED <<episode, robot, lastPlace, newestAction, finalResult, dormantFlag,
                 escapeVars, counters, goal, frontier, seen, lastOverDepth>>

(* init() makes everything anew but the static cloud; the scripted turns   *)
(* end with a left turn.                                                   *)
Fresh ==
  /\ phase' = "plan"
  /\ place' \in Places /\ heading' \in Headings
  /\ Observe
  /\ lastPlace' = "none" /\ newestAction' = "TURN_LEFT"
  /\ finalResult' = "none" /\ explResult' = "none"
  /\ dormantFlag' = FALSE
  /\ escaping' = FALSE /\ escapeCount' = 0
  /\ escapePose' = NoPose
  /\ stuckingPoints' = {}
  /\ stuckingActions' = 0 /\ stuckingNextPos' = 0
  /\ nextPos' = None /\ pathEmpty' = TRUE /\ lastNextPos' = None
  /\ frontier' = [i \in Frontiers |-> "unseen"]

NextEpisode ==
  /\ phase = "over" /\ episode < MaxEpisodes
  /\ episode' = episode + 1
  /\ Fresh
  /\ UNCHANGED lastOverDepth

(* Before the first episode.                                               *)
Init ==
  /\ phase = "over" /\ episode = 0
  /\ place \in Places /\ heading = 0 /\ yaw = 0
  /\ lastPlace = "none" /\ newestAction = "TURN_LEFT"
  /\ finalResult = "none" /\ explResult = "none" /\ dormantFlag = FALSE
  /\ escaping = FALSE /\ escapeCount = 0 /\ escapePose = NoPose /\ stuckingPoints = {}
  /\ stuckingActions = 0 /\ stuckingNextPos = 0
  /\ nextPos = None /\ pathEmpty = TRUE /\ lastNextPos = None
  /\ frontier = [i \in Frontiers |-> "unseen"]
  /\ object = [o \in Objects |-> "none"] /\ overDepth = FALSE /\ lastOverDepth = None

Next == CallActionPlanner \/ Execute \/ StepLimit \/ NextEpisode

Spec == Init /\ [][Next]_vars

(* Evaluator and planner keep taking turns: see EpisodeProtocol.           *)
FairSpec == Spec /\ WF_vars(CallActionPlanner) /\ WF_vars(Execute)
=============================================================================
