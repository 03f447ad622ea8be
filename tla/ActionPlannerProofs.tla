------------------------ MODULE ActionPlannerProofs ------------------------
(***************************************************************************)
(* Theorems about ActionPlanner, for every set of frontiers, objects and   *)
(* places, every distance, every number of headings and all thresholds.    *)
(***************************************************************************)
EXTENDS ActionPlannerProperties, TLAPS

(***************************************************************************)
(* The inductive invariant.                                                *)
(***************************************************************************)

(* Before each plan and each action no counter has reached its limit, and  *)
(* a verdict to go on comes with a path; an escape knows where it began.   *)
Ready ==
  /\ phase # "over" =>
       stuckingActions < MaxStuckingCount /\ (finalResult \in Continuing => ~pathEmpty)
  /\ phase = "execute" => finalResult \in Continuing
  /\ escaping => escapePose \in Pose

(* The target is what the last verdict says it is.                         *)
FrontierTarget == nextPos \in Target /\ nextPos.id \in Frontiers
ObjectTarget == nextPos \in Target /\ nextPos.id \notin Frontiers

TargetMatches ==
  /\ finalResult = "EXPLORE" =>
       FrontierTarget /\ nextPos.since = episode /\ explResult = "EXPLORATION"
  /\ finalResult = "SEARCH_OBJECT" =>
       ObjectTarget /\ (nextPos.since = episode \/ explResult = "SEARCH_EXTREME")
  /\ dormantFlag => FrontierTarget /\ frontier[nextPos.id] = "gone"
  /\ lastOverDepth # None => lastOverDepth.id = OverDepth

PlannerInv == TypeOK /\ Ready /\ TargetMatches /\ ReachedIsObject

(* The initial state.                                                      *)
LEMMA PlannerInit == Init => PlannerInv
<1> SUFFICES ASSUME Init PROVE PlannerInv
  OBVIOUS
<1> USE TurnsAssumption, CountsAssumption
<1>1. /\ dormantFlag = FALSE /\ dormantFlag \in BOOLEAN /\ escaping \in BOOLEAN
      /\ pathEmpty \in BOOLEAN /\ overDepth \in BOOLEAN
  BY Zenon DEF Init
<1>2. 0 \in Headings /\ 0 \in Yaws(0)
  BY DEF Headings, Yaws
<1>3. Len(Manoeuvre) = 10
  BY DEF Manoeuvre
<1>4. TypeOK
  <2>1. /\ phase = "over" /\ episode \in 0..MaxEpisodes /\ place \in Places
        /\ heading \in Headings /\ yaw \in Yaws(heading)
    BY <1>2 DEF Init
  <2>2. /\ lastPlace = "none" /\ newestAction \in Motions /\ finalResult = "none"
        /\ explResult = "none" /\ escapeCount = 0 /\ escapePose = NoPose /\ stuckingPoints = {}
    BY DEF Init, Motions
  <2>3. /\ stuckingActions = 0 /\ stuckingNextPos = 0 /\ nextPos = None /\ lastNextPos = None
        /\ lastOverDepth = None
    BY DEF Init
  <2>4. frontier \in [Frontiers -> FrontierState] /\ object \in [Objects -> ObjectState]
    BY DEF Init, FrontierState, ObjectState
  <2> QED
    BY <1>1, <1>3, <2>1, <2>2, <2>3, <2>4 DEF TypeOK
<1>5. Ready /\ TargetMatches /\ ReachedIsObject
  <2>1. ~escaping /\ ~dormantFlag
    BY Zenon DEF Init
  <2> QED
    BY <2>1 DEF Init, Ready, TargetMatches, ReachedIsObject, Continuing
<1> QED
  BY <1>4, <1>5 DEF PlannerInv

(* Updates of the frontier map keep its type, and what is gone stays gone. *)
LEMMA UpdatesKeep ==
  ASSUME TypeOK, NEW f \in Updates
  PROVE  /\ f \in [Frontiers -> FrontierState]
         /\ \A i \in Frontiers : frontier[i] = "gone" => f[i] = "gone"
BY DEF Updates, Later, TypeOK

(* Distances are numbers of centimetres.                                   *)
LEMMA DistanceType ==
  ASSUME TypeOK, NEW t \in Target
  PROVE  DistanceTo(t) \in Nat
<1>1. place \in Places /\ t.id \in Ids
  BY DEF TypeOK, Target
<1>2. <<place, t.id>> \in Places \X Ids
  BY <1>1
<1>3. Distance[<<place, t.id>>] \in Nat
  BY <1>2, DistanceAssumption
<1> QED
  BY <1>3, Zenon DEF DistanceTo

(* The robot has come close enough to an object.                           *)
LEMMA InvReachObject == PlannerInv /\ ReachObject => PlannerInv'
<1> SUFFICES ASSUME PlannerInv, ReachObject PROVE PlannerInv'
  OBVIOUS
<1>1. /\ frontier' \in Updates /\ lastPlace' = place /\ phase' = "over" /\ phase = "plan"
      /\ finalResult' = "REACH_OBJECT" /\ Reached
      /\ UNCHANGED <<episode, robot, newestAction, dormantFlag, escapeVars, counters,
                      goal, seen, lastOverDepth>>
  BY DEF ReachObject, Return, Continuing
<1>2. UNCHANGED <<episode, place, heading, yaw, newestAction, dormantFlag, escaping, escapeCount,
                  escapePose, stuckingPoints, stuckingActions, stuckingNextPos, nextPos,
                  pathEmpty, lastNextPos, explResult, object, overDepth, lastOverDepth>>
  BY <1>1 DEF robot, escapeVars, counters, goal, seen
<1>3. /\ frontier' \in [Frontiers -> FrontierState]
      /\ \A i \in Frontiers : frontier[i] = "gone" => frontier'[i] = "gone"
  BY <1>1, UpdatesKeep DEF PlannerInv
<1>4. TypeOK'
  BY <1>1, <1>2, <1>3 DEF PlannerInv, TypeOK, FINAL_RESULT
<1>5. Ready'
  BY <1>1, <1>2 DEF PlannerInv, Ready
<1>6. TargetMatches'
  BY <1>1, <1>2, <1>3 DEF PlannerInv, TargetMatches, FrontierTarget
<1>7. ReachedIsObject'
  <2>1. finalResult = "SEARCH_OBJECT"
        /\ (DistanceTo(nextPos) < REACH_DISTANCE \/ DistanceTo(nextPos) < SOFT_REACH_DISTANCE)
    BY <1>1 DEF Reached, AtObject
  <2>2. nextPos \in Target /\ nextPos.id \notin Frontiers
    BY <2>1 DEF PlannerInv, TargetMatches, ObjectTarget
  <2>3. DistanceTo(nextPos) \in Nat
    BY <2>2, DistanceType DEF PlannerInv
  <2>4. DistanceTo(nextPos) < SOFT_REACH_DISTANCE
    BY <2>1, <2>3 DEF REACH_DISTANCE, SOFT_REACH_DISTANCE
  <2>5. nextPos # None
    BY <2>2 DEF Target, None
  <2>6. nextPos' = nextPos /\ DistanceTo(nextPos)' = DistanceTo(nextPos)
    BY <1>2 DEF DistanceTo
  <2> QED
    BY <2>2, <2>4, <2>5, <2>6 DEF ReachedIsObject
<1> QED
  BY <1>4, <1>5, <1>6, <1>7 DEF PlannerInv

(* One action of an escape.                                                *)
LEMMA InvEscape ==
  ASSUME PlannerInv, phase = "plan", NEW count \in 0..(Len(Manoeuvre) - 1),
         escapePose' \in Pose, Escape(count)
  PROVE  PlannerInv'
<1>1. /\ newestAction' = Manoeuvre[count + 1] /\ escapeCount' = count + 1
      /\ frontier' \in Updates /\ lastPlace' = place
      /\ finalResult' = finalResult
      /\ phase' = IF finalResult \in Continuing THEN "execute" ELSE "over"
      /\ UNCHANGED <<episode, robot, dormantFlag, stuckingPoints, counters, goal, seen,
                     lastOverDepth>>
  BY DEF Escape, Return
<1>2. escaping' \in BOOLEAN
  BY Zenon DEF Escape
<1>3. UNCHANGED <<episode, place, heading, yaw, dormantFlag, stuckingPoints, stuckingActions,
                  stuckingNextPos, nextPos, pathEmpty, lastNextPos, explResult, object,
                  overDepth, lastOverDepth>>
  BY <1>1 DEF robot, counters, goal, seen
<1>4. /\ frontier' \in [Frontiers -> FrontierState]
      /\ \A i \in Frontiers : frontier[i] = "gone" => frontier'[i] = "gone"
  BY <1>1, UpdatesKeep DEF PlannerInv
<1>5. newestAction' \in Motions /\ escapeCount' \in 0..Len(Manoeuvre)
  <2>1. Len(Manoeuvre) = 10 /\ \A i \in 1..10 : Manoeuvre[i] \in Motions
    BY DEF Manoeuvre, Motions
  <2> QED
    BY <1>1, <2>1
<1>6. TypeOK'
  BY <1>1, <1>2, <1>3, <1>4, <1>5 DEF PlannerInv, TypeOK
<1>7. Ready'
  BY <1>1, <1>3 DEF PlannerInv, Ready
<1>8. TargetMatches'
  BY <1>1, <1>3, <1>4 DEF PlannerInv, TargetMatches, FrontierTarget, ObjectTarget
<1>9. ReachedIsObject'
  <2>1. DistanceTo(nextPos)' = DistanceTo(nextPos)
    BY <1>3 DEF DistanceTo
  <2> QED
    BY <1>1, <1>3, <2>1 DEF PlannerInv, ReachedIsObject
<1> QED
  BY <1>6, <1>7, <1>8, <1>9 DEF PlannerInv

(* An escape starts at a blocked move and goes on while the robot stays.   *)
LEMMA InvStartEscape == PlannerInv /\ StartEscape => PlannerInv'
<1> SUFFICES ASSUME PlannerInv, StartEscape PROVE PlannerInv'
  OBVIOUS
<1>1. phase = "plan" /\ escapePose' = [place |-> place, yaw |-> yaw] /\ Escape(0)
  BY DEF StartEscape
<1>2. place \in Places /\ yaw \in Yaw
  BY DEF PlannerInv, TypeOK, Yaw
<1>3. escapePose' \in Pose
  BY <1>1, <1>2 DEF Pose
<1>4. 0 \in 0..(Len(Manoeuvre) - 1)
  BY DEF Manoeuvre
<1> QED
  BY <1>1, <1>3, <1>4, InvEscape

(* See InvStartEscape.                                                     *)
LEMMA InvContinueEscape == PlannerInv /\ ContinueEscape => PlannerInv'
<1> SUFFICES ASSUME PlannerInv, ContinueEscape PROVE PlannerInv'
  OBVIOUS
<1>1. phase = "plan" /\ escaping /\ escapePose' = escapePose /\ Escape(escapeCount)
  BY DEF ContinueEscape
<1>2. escapePose' \in Pose
  BY <1>1 DEF PlannerInv, Ready
<1>3. escapeCount \in 0..(Len(Manoeuvre) - 1)
  <2>1. escapeCount \in 0..Len(Manoeuvre) /\ escapeCount < Len(Manoeuvre) /\ Len(Manoeuvre) = 10
    BY DEF PlannerInv, TypeOK, ContinueEscape, Manoeuvre
  <2> QED
    BY <2>1
<1> QED
  BY <1>1, <1>2, <1>3, InvEscape

(* What planNextBestPoint returns: each result describes its target.       *)
LEMMA PlanTargets ==
  ASSUME PlannerInv, phase = "plan", NEW f \in Updates, NEW p \in PlanNextBestPoint(f)
  PROVE  /\ p[1] \in EXPL_RESULT
         /\ p[1] = "EXPLORATION" =>
              /\ p[2] \in Target /\ p[2].id \in Frontiers /\ p[2].since = episode
              /\ f[p[2].id] # "gone"
         /\ p[1] \notin {"EXPLORATION", "NO_FRONTIER"} =>
              /\ p[2] \in Target /\ p[2].id \notin Frontiers
              /\ p[2].since = episode \/ p[1] = "SEARCH_EXTREME"
         /\ p[1] = "NO_FRONTIER" => p[2] = nextPos
<1>1. episode \in 1..MaxEpisodes
  BY CountsAssumption DEF PlannerInv, TypeOK
<1>2. \A i \in Ids : Now(i) \in Target /\ Now(i).id = i /\ Now(i).since = episode
  BY <1>1 DEF Now, Target
<1>3. Frontiers \subseteq Ids /\ Objects \subseteq Ids /\ OverDepth \in Ids
  BY DEF Ids
<1>4. /\ \A i \in Objects : i \notin Frontiers
      /\ OverDepth \notin Frontiers
  BY TargetsAssumption
<1>5. CASE p \in {"EXPLORATION"} \X Perceived(PolicyChoice(f) \cup DormantChoice(f))
  <2>1. PICK i \in PolicyChoice(f) \cup DormantChoice(f) : p = <<"EXPLORATION", Now(i)>>
    BY <1>5 DEF Perceived
  <2>2. i \in Frontiers /\ f[i] # "gone"
    BY DEF PolicyChoice, DormantChoice
  <2> QED
    BY <1>2, <1>3, <2>1, <2>2 DEF EXPL_RESULT
<1>6. CASE p \in {"SEARCH_OVER_DEPTH_OBJECT"} \X OverDepthNow
  <2>1. p = <<"SEARCH_OVER_DEPTH_OBJECT", Now(OverDepth)>>
    BY <1>6 DEF OverDepthNow
  <2> QED
    BY <1>2, <1>3, <1>4, <2>1 DEF EXPL_RESULT
<1>7. ASSUME NEW r \in {"SEARCH_BEST_OBJECT", "SEARCH_SUSPICIOUS_OBJECT", "SEARCH_EXTREME"},
             NEW i \in Objects, p = <<r, Now(i)>>
      PROVE  /\ p[1] \in EXPL_RESULT /\ p[1] \notin {"EXPLORATION", "NO_FRONTIER"}
             /\ p[2] \in Target /\ p[2].id \notin Frontiers /\ p[2].since = episode
  BY <1>2, <1>3, <1>4, <1>7 DEF EXPL_RESULT
<1>8. CASE p \in {"SEARCH_EXTREME"} \X OverDepthCached
  <2>1. p[1] = "SEARCH_EXTREME" /\ p[2] = Cached /\ Cached # None
    BY <1>8 DEF OverDepthCached
  <2>2. Cached \in Target /\ Cached.id = OverDepth
    BY <1>2, <1>3, <2>1 DEF Cached, PlannerInv, TypeOK, TargetMatches
  <2> QED
    BY <1>4, <2>1, <2>2 DEF EXPL_RESULT
<1>9. CASE p = <<"NO_FRONTIER", nextPos>>
  BY <1>9 DEF EXPL_RESULT
<1>10. CASE \E r \in {"SEARCH_BEST_OBJECT", "SEARCH_SUSPICIOUS_OBJECT", "SEARCH_EXTREME"},
               i \in Objects : p = <<r, Now(i)>>
  BY <1>7, <1>10
<1>11. \/ \E r \in {"SEARCH_BEST_OBJECT", "SEARCH_SUSPICIOUS_OBJECT", "SEARCH_EXTREME"},
               i \in Objects : p = <<r, Now(i)>>
       \/ p \in {"EXPLORATION"} \X Perceived(PolicyChoice(f) \cup DormantChoice(f))
       \/ p \in {"SEARCH_OVER_DEPTH_OBJECT"} \X OverDepthNow
       \/ p \in {"SEARCH_EXTREME"} \X OverDepthCached
       \/ p = <<"NO_FRONTIER", nextPos>>
  BY DEF PlanNextBestPoint, Perceived, Listed, Fallback
<1> QED
  BY <1>5, <1>6, <1>8, <1>9, <1>10, <1>11

(* The cached over-depth target stays one.                                 *)
LEMMA CacheKept ==
  ASSUME PlannerInv, phase = "plan", NEW r, RefreshCache(r)
  PROVE  /\ lastOverDepth' \in Target \cup {None}
         /\ lastOverDepth' # None => lastOverDepth'.id = OverDepth
<1>1. episode \in 1..MaxEpisodes
  BY CountsAssumption DEF PlannerInv, TypeOK
<1>2. Now(OverDepth) \in Target /\ Now(OverDepth).id = OverDepth
  BY <1>1 DEF Now, Target, Ids
<1>3. lastOverDepth' \in {lastOverDepth, Now(OverDepth)}
  BY DEF RefreshCache, Cached
<1> QED
  BY <1>2, <1>3 DEF PlannerInv, TypeOK, TargetMatches

(* The verdict that belongs to each result.                                *)
LEMMA FinalOfResult ==
  /\ FinalOf("EXPLORATION") = "EXPLORE"
  /\ FinalOf("NO_FRONTIER") = "NO_FRONTIER"
  /\ \A r : r \notin {"EXPLORATION", "NO_FRONTIER"} => FinalOf(r) = "SEARCH_OBJECT"
BY Zenon DEF FinalOf

(* The part of a plan that does not depend on whether a path was found.    *)
LEMMA ReplanCommon ==
  ASSUME PlannerInv, Replan
  PROVE  /\ phase = "plan" /\ lastPlace' = place
         /\ UNCHANGED <<episode, place, heading, yaw, object, overDepth, escapeCount, escapePose>>
         /\ escaping' \in BOOLEAN /\ ~escaping'
         /\ stuckingPoints' \subseteq Pose
<1>1. /\ phase = "plan" /\ lastPlace' = place /\ LeaveEscape /\ UNCHANGED <<episode, robot, seen>>
  BY DEF Replan
<1>2. escaping' \in BOOLEAN /\ ~escaping'
  BY <1>1, Zenon DEF LeaveEscape
<1>3. stuckingPoints' \subseteq Pose
  <2>1. CASE GivesUp
    BY <1>1, <2>1 DEF LeaveEscape, GivesUp, PlannerInv, Ready, TypeOK
  <2>2. CASE ~GivesUp
    BY <1>1, <2>2 DEF LeaveEscape, PlannerInv, TypeOK
  <2> QED
    BY <2>1, <2>2
<1> QED
  BY <1>1, <1>2, <1>3 DEF LeaveEscape, robot, seen

(* The counters after a plan with a path.                                  *)
LEMMA Counters ==
  ASSUME PlannerInv, phase = "plan", NEW r, NEW t
  PROVE  /\ StuckActions(r, t) \in 0..MaxStuckingCount
         /\ (IF TooLong(r, t) THEN 0 ELSE SameTarget(r, t)) \in 0..(MaxStuckingNextPosCount - 1)
<1>1. /\ stuckingActions \in 0..MaxStuckingCount /\ stuckingActions < MaxStuckingCount
      /\ stuckingNextPos \in 0..(MaxStuckingNextPosCount - 1)
      /\ MaxStuckingCount \in Nat \ {0} /\ MaxStuckingNextPosCount \in Nat \ {0}
  BY CountsAssumption DEF PlannerInv, TypeOK, Ready
<1>2. StuckActions(r, t) \in 0..MaxStuckingCount
  <2>1. StuckActions(r, t) \in {0, 1, 1 + stuckingActions}
    BY <1>1 DEF StuckActions
  <2> QED
    BY <1>1, <2>1
<1>3. CASE r # "EXPLORE"
  BY <1>1, <1>2, <1>3 DEF SameTarget, TooLong
<1>4. CASE r = "EXPLORE"
  <2>1. SameTarget(r, t) \in {0, stuckingNextPos + 1}
    BY <1>4 DEF SameTarget
  <2>2. TooLong(r, t) <=> SameTarget(r, t) >= MaxStuckingNextPosCount
    BY <1>4 DEF TooLong
  <2> QED
    BY <1>1, <1>2, <2>1, <2>2
<1> QED
  BY <1>3, <1>4

(* A plan.                                                                 *)
LEMMA InvReplan == PlannerInv /\ Replan => PlannerInv'
<1> SUFFICES ASSUME PlannerInv, Replan PROVE PlannerInv'
  OBVIOUS
<1>1. PICK f \in Updates : \E changed \in Changed(f), p \in PlanNextBestPoint(f) :
        LET r == FinalOf(p[1])
            t == IF Kept(p[1], changed) THEN nextPos ELSE p[2]
            empty == IF Kept(p[1], changed) THEN pathEmpty ELSE r = "NO_FRONTIER"
        IN /\ explResult' = p[1] /\ nextPos' = t /\ pathEmpty' = empty
           /\ RefreshCache(p[1])
           /\ IF empty THEN NoPath(f, r) ELSE Pursue(f, r, t)
  BY DEF Replan
<1>2. PICK changed \in Changed(f), p \in PlanNextBestPoint(f) :
        LET r == FinalOf(p[1])
            t == IF Kept(p[1], changed) THEN nextPos ELSE p[2]
            empty == IF Kept(p[1], changed) THEN pathEmpty ELSE r = "NO_FRONTIER"
        IN /\ explResult' = p[1] /\ nextPos' = t /\ pathEmpty' = empty
           /\ RefreshCache(p[1])
           /\ IF empty THEN NoPath(f, r) ELSE Pursue(f, r, t)
  BY <1>1
<1> DEFINE r == FinalOf(p[1])
           kept == Kept(p[1], changed)
           t == IF kept THEN nextPos ELSE p[2]
           empty == IF kept THEN pathEmpty ELSE r = "NO_FRONTIER"
<1>3. /\ explResult' = p[1] /\ nextPos' = t /\ RefreshCache(p[1])
      /\ IF empty THEN NoPath(f, r) ELSE Pursue(f, r, t)
  BY <1>2
<1>4. pathEmpty' = empty
  BY <1>2
<1>5. kept => p[1] = "EXPLORATION" /\ finalResult = "EXPLORE" /\ ~pathEmpty
              /\ FrontierTarget /\ nextPos.since = episode
  BY ReplanCommon DEF Kept, Keeps, PlannerInv, Ready, Continuing, TargetMatches
<1>6. /\ p[1] \in EXPL_RESULT
      /\ p[1] = "EXPLORATION" =>
           r = "EXPLORE" /\ t \in Target /\ t.id \in Frontiers /\ t.since = episode
      /\ p[1] \notin {"EXPLORATION", "NO_FRONTIER"} =>
           r = "SEARCH_OBJECT" /\ t \in Target /\ t.id \notin Frontiers
             /\ (t.since = episode \/ p[1] = "SEARCH_EXTREME")
      /\ p[1] = "NO_FRONTIER" => r = "NO_FRONTIER" /\ t = nextPos
  BY <1>5, PlanTargets, ReplanCommon, FinalOfResult DEF FrontierTarget
<1>7. empty <=> r = "NO_FRONTIER"
  BY <1>5, <1>6
<1>8. pathEmpty' \in BOOLEAN /\ (pathEmpty' <=> r = "NO_FRONTIER")
  BY <1>4, <1>7, Zenon DEF PlannerInv, TypeOK
<1>9. /\ lastOverDepth' \in Target \cup {None}
      /\ lastOverDepth' # None => lastOverDepth'.id = OverDepth
  BY <1>3, CacheKept, ReplanCommon
<1>10. /\ f \in [Frontiers -> FrontierState] /\ nextPos' \in Target \cup {None}
       /\ t \in Target \cup {None}
  BY <1>3, <1>6, UpdatesKeep DEF PlannerInv, TypeOK
<1> HIDE DEF r, kept, t, empty
<1>11. CASE empty
  <2>1. r = "NO_FRONTIER" /\ NoPath(f, r)
    BY <1>3, <1>7, <1>11
  <2>2. /\ frontier' = f /\ finalResult' = "NO_FRONTIER" /\ phase' = "over"
        /\ UNCHANGED <<lastNextPos, counters, newestAction>>
    BY <2>1 DEF NoPath, Return, Continuing
  <2>3. dormantFlag' \in BOOLEAN /\ ~dormantFlag'
    BY <2>1, Zenon DEF NoPath
  <2>4. TypeOK'
    BY <1>3, <1>6, <1>8, <1>9, <1>10, <2>2, <2>3, ReplanCommon
       DEF PlannerInv, TypeOK, FINAL_RESULT, counters
  <2>5. Ready'
    BY <2>2, ReplanCommon DEF Ready
  <2>6. TargetMatches' /\ ReachedIsObject'
    BY <1>9, <2>2, <2>3 DEF TargetMatches, ReachedIsObject
  <2> QED
    BY <2>4, <2>5, <2>6 DEF PlannerInv
<1>12. CASE ~empty
  <2>1. Pursue(f, r, t) /\ r \in {"EXPLORE", "SEARCH_OBJECT"}
    BY <1>3, <1>6, <1>7, <1>12
  <2>2. /\ lastNextPos' = t
        /\ stuckingNextPos' = IF TooLong(r, t) THEN 0 ELSE SameTarget(r, t)
        /\ stuckingActions' = StuckActions(r, t)
        /\ frontier' \in IF GivesUpTarget(r, t) THEN ForcedDormant(f, t) ELSE {f}
        /\ newestAction' \in Motions \cup {newestAction}
        /\ IF stuckingActions' >= MaxStuckingCount
           THEN finalResult' = "STUCKING" /\ phase' = "over"
           ELSE finalResult' = r /\ phase' = "execute"
    BY <2>1 DEF Pursue, Return, Continuing
  <2>3. dormantFlag' = GivesUpTarget(r, t)
    BY <2>1 DEF Pursue
  <2>4. dormantFlag' \in BOOLEAN /\ (dormantFlag' <=> GivesUpTarget(r, t))
    BY <2>3, Zenon DEF GivesUpTarget, TooClose, TooLong
  <2>5. frontier' \in [Frontiers -> FrontierState]
    BY <1>10, <2>2 DEF ForcedDormant
  <2>6. stuckingActions' \in 0..MaxStuckingCount
        /\ stuckingNextPos' \in 0..(MaxStuckingNextPosCount - 1)
    BY <2>2, Counters, ReplanCommon
  <2>7. TypeOK'
    <3>1. finalResult' \in FINAL_RESULT /\ phase' \in {"execute", "over"}
      BY <2>1, <2>2 DEF FINAL_RESULT, Continuing
    <3>2. episode' > 0 /\ episode' \in 0..MaxEpisodes
      BY ReplanCommon DEF PlannerInv, TypeOK
    <3>3. newestAction' \in Motions
      BY <2>2 DEF PlannerInv, TypeOK
    <3> QED
      BY <1>3, <1>6, <1>8, <1>9, <1>10, <2>2, <2>4, <2>5, <2>6, <3>1, <3>2, <3>3, ReplanCommon
         DEF PlannerInv, TypeOK
  <2>8. Ready'
    <3>1. ~pathEmpty'
      BY <1>8, <2>1
    <3>2. phase' # "over" => finalResult' = r /\ stuckingActions' < MaxStuckingCount
      BY <2>2, <2>6, CountsAssumption
    <3> QED
      BY <2>1, <3>1, <3>2, ReplanCommon DEF Ready, Continuing
  <2>9. TargetMatches'
    <3>1. finalResult' \in {"STUCKING", r}
      BY <2>2
    <3>2. finalResult' = "EXPLORE" =>
            FrontierTarget' /\ nextPos'.since = episode' /\ explResult' = "EXPLORATION"
      BY <1>3, <1>6, <2>1, <3>1, ReplanCommon DEF FrontierTarget
    <3>3. finalResult' = "SEARCH_OBJECT" =>
            ObjectTarget' /\ (nextPos'.since = episode' \/ explResult' = "SEARCH_EXTREME")
      BY <1>3, <1>6, <2>1, <3>1, ReplanCommon DEF ObjectTarget
    <3>4. dormantFlag' => FrontierTarget' /\ frontier'[nextPos'.id] = "gone"
      <4> SUFFICES ASSUME dormantFlag'
                   PROVE  FrontierTarget' /\ frontier'[nextPos'.id] = "gone"
        OBVIOUS
      <4>1. GivesUpTarget(r, t) /\ r = "EXPLORE"
        BY <2>4 DEF GivesUpTarget, TooClose, TooLong
      <4>2. t \in Target /\ t.id \in Frontiers
        BY <1>6, <4>1
      <4>3. frontier' \in ForcedDormant(f, t)
        BY <2>2, <4>1
      <4>4. frontier'[t.id] = "gone"
        BY <4>2, <4>3 DEF ForcedDormant
      <4> QED
        BY <1>3, <4>2, <4>4 DEF FrontierTarget
    <3> QED
      BY <1>9, <3>2, <3>3, <3>4 DEF TargetMatches
  <2>10. ReachedIsObject'
    BY <2>1, <2>2 DEF ReachedIsObject
  <2> QED
    BY <2>7, <2>8, <2>9, <2>10 DEF PlannerInv
<1> QED
  BY <1>11, <1>12

(* The world answers an action.                                            *)
LEMMA InvExecute == PlannerInv /\ Execute => PlannerInv'
<1> SUFFICES ASSUME PlannerInv, Execute PROVE PlannerInv'
  OBVIOUS
<1>1. /\ phase = "execute" /\ phase' = "plan" /\ Observe
      /\ UNCHANGED <<episode, lastPlace, newestAction, finalResult, dormantFlag, escapeVars,
                     counters, goal, frontier, lastOverDepth>>
  BY DEF Execute
<1>2. UNCHANGED <<episode, lastPlace, newestAction, finalResult, dormantFlag, escaping,
                  escapeCount, escapePose, stuckingPoints, stuckingActions, stuckingNextPos,
                  nextPos, pathEmpty, lastNextPos, explResult, frontier, lastOverDepth>>
  BY <1>1 DEF escapeVars, counters, goal
<1>3. place \in Places /\ heading \in Headings /\ newestAction \in Motions /\ episode > 0
  BY <1>1 DEF PlannerInv, TypeOK
<1>4. place' \in Places /\ heading' \in Headings
  <2>1. CASE newestAction = "MOVE_FORWARD"
    <3>1. place' \in Places /\ heading' = heading
      BY <2>1, Zenon DEF Execute
    <3> QED
      BY <1>3, <3>1
  <2>2. CASE newestAction = "TURN_LEFT"
    <3>1. place' = place /\ heading' = (heading + 1) % Turns
      BY <2>2, Zenon DEF Execute
    <3>2. (heading + 1) % Turns \in 0..(Turns - 1)
      BY <1>3, TurnsAssumption DEF Headings
    <3> QED
      BY <1>3, <3>1, <3>2 DEF Headings
  <2>3. CASE newestAction = "TURN_RIGHT"
    <3>1. place' = place /\ heading' = (heading + Turns - 1) % Turns
      BY <2>3, Zenon DEF Execute
    <3>2. (heading + Turns - 1) % Turns \in 0..(Turns - 1)
      BY <1>3, TurnsAssumption DEF Headings
    <3> QED
      BY <1>3, <3>1, <3>2 DEF Headings
  <2> QED
    BY <1>3, <2>1, <2>2, <2>3 DEF Motions
<1>5. yaw' \in Yaws(heading)' /\ object' \in [Objects -> ObjectState] /\ overDepth' \in BOOLEAN
  BY <1>1 DEF Observe, Yaws
<1>6. TypeOK'
  BY <1>1, <1>2, <1>3, <1>4, <1>5 DEF PlannerInv, TypeOK
<1>7. Ready'
  BY <1>1, <1>2 DEF PlannerInv, Ready
<1>8. TargetMatches'
  BY <1>2 DEF PlannerInv, TargetMatches, FrontierTarget, ObjectTarget
<1>9. ReachedIsObject'
  BY <1>1, <1>2 DEF PlannerInv, Ready, ReachedIsObject, Continuing
<1> QED
  BY <1>6, <1>7, <1>8, <1>9 DEF PlannerInv

(* The step limit ends an episode.                                         *)
LEMMA InvStepLimit == PlannerInv /\ StepLimit => PlannerInv'
<1> SUFFICES ASSUME PlannerInv, StepLimit PROVE PlannerInv'
  OBVIOUS
<1>1. /\ phase = "execute" /\ phase' = "over"
      /\ UNCHANGED <<episode, place, heading, yaw, lastPlace, newestAction, finalResult,
                     dormantFlag, escaping, escapeCount, escapePose, stuckingPoints,
                     stuckingActions, stuckingNextPos, nextPos, pathEmpty, lastNextPos,
                     explResult, frontier, object, overDepth, lastOverDepth>>
  BY DEF StepLimit, robot, escapeVars, counters, goal, seen
<1>2. TypeOK'
  BY <1>1 DEF PlannerInv, TypeOK
<1>3. Ready' /\ TargetMatches'
  BY <1>1 DEF PlannerInv, Ready, TargetMatches, FrontierTarget, ObjectTarget
<1>4. ReachedIsObject'
  BY <1>1 DEF PlannerInv, Ready, ReachedIsObject, Continuing
<1> QED
  BY <1>2, <1>3, <1>4 DEF PlannerInv

(* The planner re-initialises itself for the next episode.                 *)
LEMMA InvNextEpisode == PlannerInv /\ NextEpisode => PlannerInv'
<1> SUFFICES ASSUME PlannerInv, NextEpisode PROVE PlannerInv'
  OBVIOUS
<1>1. Fresh /\ episode < MaxEpisodes /\ episode' = episode + 1 /\ lastOverDepth' = lastOverDepth
  BY DEF NextEpisode
<1>2. episode' \in 0..MaxEpisodes /\ episode' > 0
  BY <1>1, CountsAssumption DEF PlannerInv, TypeOK
<1>3. /\ dormantFlag' \in BOOLEAN /\ ~dormantFlag' /\ escaping' \in BOOLEAN /\ ~escaping'
      /\ pathEmpty' \in BOOLEAN
  BY <1>1, Zenon DEF Fresh
<1>4. /\ phase' = "plan" /\ place' \in Places /\ heading' \in Headings
      /\ yaw' \in Yaws(heading)' /\ object' \in [Objects -> ObjectState] /\ overDepth' \in BOOLEAN
  BY <1>1 DEF Fresh, Observe, Yaws
<1>5. /\ lastPlace' = "none" /\ newestAction' \in Motions /\ finalResult' = "none"
      /\ explResult' = "none" /\ escapeCount' \in 0..Len(Manoeuvre)
      /\ escapePose' = NoPose /\ stuckingPoints' = {}
      /\ stuckingActions' = 0 /\ stuckingNextPos' = 0 /\ nextPos' = None /\ lastNextPos' = None
  BY <1>1 DEF Fresh, Motions, Manoeuvre
<1>6. frontier' \in [Frontiers -> FrontierState]
  BY <1>1 DEF Fresh, FrontierState
<1>7. TypeOK'
  BY <1>1, <1>2, <1>3, <1>4, <1>5, <1>6, CountsAssumption DEF PlannerInv, TypeOK
<1>8. Ready'
  BY <1>3, <1>4, <1>5, CountsAssumption DEF Ready, Continuing
<1>9. TargetMatches' /\ ReachedIsObject'
  BY <1>1, <1>3, <1>5 DEF PlannerInv, TargetMatches, ReachedIsObject
<1> QED
  BY <1>7, <1>8, <1>9 DEF PlannerInv

(* Nothing happens.                                                        *)
LEMMA InvStutter == PlannerInv /\ UNCHANGED vars => PlannerInv'
<1> SUFFICES ASSUME PlannerInv, UNCHANGED vars PROVE PlannerInv'
  OBVIOUS
<1>1. UNCHANGED <<phase, episode, place, heading, yaw, lastPlace, newestAction, finalResult,
                  dormantFlag, escaping, escapeCount, escapePose, stuckingPoints,
                  stuckingActions, stuckingNextPos, nextPos, pathEmpty, lastNextPos,
                  explResult, frontier, object, overDepth, lastOverDepth>>
  BY DEF vars, robot, escapeVars, counters, goal, seen
<1>2. TypeOK'
  BY <1>1 DEF PlannerInv, TypeOK
<1>3. Ready' /\ TargetMatches'
  BY <1>1 DEF PlannerInv, Ready, TargetMatches, FrontierTarget, ObjectTarget
<1>4. ReachedIsObject'
  BY <1>1 DEF PlannerInv, ReachedIsObject, DistanceTo
<1> QED
  BY <1>2, <1>3, <1>4 DEF PlannerInv

(* The invariant is inductive.                                             *)
LEMMA PlannerInductive == PlannerInv /\ [Next]_vars => PlannerInv'
BY InvReachObject, InvStartEscape, InvContinueEscape, InvReplan, InvExecute, InvStepLimit,
   InvNextEpisode, InvStutter DEF Next, CallActionPlanner

(***************************************************************************)
(* The theorems.                                                           *)
(***************************************************************************)

(* The variables of the planning call hold values of their types; the      *)
(* stuck counters never pass the thresholds that reset or end.             *)
THEOREM PlannerTypeCorrect == Spec => []TypeOK
<1>1. PlannerInv => TypeOK
  BY DEF PlannerInv
<1> QED
  BY PlannerInit, PlannerInductive, <1>1, PTL DEF Spec

(* No action is handed out without a path and a verdict to go on, the      *)
(* repeated verdict of an escape included.                                 *)
THEOREM ActionHasPlanHolds == Spec => []ActionHasPlan
<1>1. PlannerInv => ActionHasPlan
  BY DEF PlannerInv, Ready, ActionHasPlan
<1> QED
  BY PlannerInit, PlannerInductive, <1>1, PTL DEF Spec

(* REACH_OBJECT is only returned near a target chosen as an object.        *)
THEOREM ReachedIsObjectHolds == Spec => []ReachedIsObject
<1>1. PlannerInv => ReachedIsObject
  BY DEF PlannerInv
<1> QED
  BY PlannerInit, PlannerInductive, <1>1, PTL DEF Spec

(* The static over-depth cloud of an earlier episode is pursued only as    *)
(* the last resort.                                                        *)
THEOREM OldTargetsAreExtremeHolds == Spec => []OldTargetsAreExtreme
<1>1. PlannerInv => OldTargetsAreExtreme
  BY DEF PlannerInv, Ready, TargetMatches, OldTargetsAreExtreme, Continuing
<1> QED
  BY PlannerInit, PlannerInductive, <1>1, PTL DEF Spec

(* A target given up as too close or stuck at is not restored by the next  *)
(* plan.                                                                   *)
THEOREM AbandonedIsLeftHolds == Spec => AbandonedIsLeft
<1> DEFINE Left ==
      phase = "plan" /\ dormantFlag /\ phase' = "execute" /\ ~escaping' => nextPos' # nextPos
<1>1. PlannerInv /\ [Next]_vars => [Left]_vars
  <2> SUFFICES ASSUME PlannerInv, Next, phase = "plan", dormantFlag, phase' = "execute", ~escaping'
               PROVE  nextPos' # nextPos
    OBVIOUS
  <2>1. Replan
    <3>1. ~Execute /\ ~StepLimit /\ ~NextEpisode
      BY DEF Execute, StepLimit, NextEpisode
    <3>2. ~ReachObject
      BY DEF ReachObject, Return, Continuing
    <3>3. ~StartEscape /\ ~ContinueEscape
      BY Zenon DEF StartEscape, ContinueEscape, Escape
    <3> QED
      BY <3>1, <3>2, <3>3 DEF Next, CallActionPlanner
  <2>2. PICK f \in Updates : \E p \in PlanNextBestPoint(f) :
          nextPos' = p[2] /\ p[1] # "NO_FRONTIER"
    <3>1. \A r, changed : ~Kept(r, changed)
      BY DEF Kept, Keeps
    <3>2. \E f \in Updates : \E p \in PlanNextBestPoint(f) :
            /\ nextPos' = p[2]
            /\ IF FinalOf(p[1]) = "NO_FRONTIER" THEN NoPath(f, FinalOf(p[1])) ELSE TRUE
      BY <2>1, <3>1 DEF Replan
    <3> QED
      BY <3>2, FinalOfResult DEF NoPath, Return, Continuing
  <2>3. FrontierTarget /\ f[nextPos.id] = "gone"
    BY UpdatesKeep DEF PlannerInv, TargetMatches, FrontierTarget
  <2> QED
    BY <2>2, <2>3, PlanTargets DEF FrontierTarget
<1> QED
  BY PlannerInit, PlannerInductive, <1>1, PTL DEF Spec, AbandonedIsLeft
=============================================================================
