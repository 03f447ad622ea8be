----------------------------- MODULE Trajectories -----------------------------
(***************************************************************************)
(* Trajectories in time, as the planner (LocalTrajectory in optimizer.h)   *)
(* and the trajectory server (traj_id_, start_time_, traj_duration_) hold  *)
(* them.  A trajectory is its id, its age (the time since start_time,      *)
(* negative before it starts) and its duration, in ticks.  Ages stop       *)
(* growing at AgeCap, beyond every duration.                               *)
(***************************************************************************)
EXTENDS Integers

CONSTANTS
  MaxDuration,   \* bound on the duration of a trajectory
  ReplanTime,    \* how far in the future a trajectory may start (replan_time)
  AgeCap         \* bound on the age of a trajectory

ASSUME DurationAssumption == MaxDuration \in Nat \ {0}
ASSUME ReplanTimeAssumption == ReplanTime \in Nat
ASSUME AgeCapAssumption == AgeCap \in Nat /\ AgeCap >= MaxDuration + 2

Ages == -ReplanTime .. AgeCap

\* Before the first plan: start time and duration are 0.  A server that has
\* received nothing has a start time only; it reads its id and its duration once
\* a trajectory has set them.
NoTrajectory == [id |-> 0, age |-> AgeCap, dur |-> 0]

Aged(t) == [t EXCEPT !.age = IF @ < AgeCap THEN @ + 1 ELSE @]
=============================================================================
