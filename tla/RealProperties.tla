---------------------------- MODULE RealProperties ----------------------------
(***************************************************************************)
(* What the real-world mode promises.                                      *)
(***************************************************************************)
EXTENDS RealRobot

Delivered == mail = <<>>

\* The trajectory the planner sent last: the one it watches, but for a goal pose
\* in EXEC_TRAJ, after which the older newest_traj_ is sent behind the goal's.
LastSent == IF crossed THEN newest ELSE local

\* While a trajectory is being watched, the server holds the one that was sent
\* last, of the same age.  Without a goal pose between a plan and its sending
\* (goalCallback has no guard against it) that is the watched one: replanning
\* (FSMCallback in REPLAN) and the safety checks (safetyCallback) look at the
\* trajectory the robot is on, although they read local_trajectory_ and the
\* server was sent newest_traj_.
WatchesWhatItFollows ==
  state = "REPLAN" /\ Delivered => traj.id = LastSent.id /\ traj.age = LastSent.age

\* A plan that starts where the trajectory under way leads (PLAN_TRAJ without
\* static_state_) is made while the robot does drive that trajectory, to its end:
\* no stop has cut it short, whatever stops and goal poses came before, unless a
\* stop was late.
PlansFromWhatItFollows ==
  state = "PLAN_TRAJ" /\ ~staticState /\ Delivered =>
    /\ traj.id = LastSent.id /\ traj.age = LastSent.age
    /\ ~overtaken => traj.dur = LastSent.dur

\* The server holds a trajectory that has not started, while the state machine
\* waits for that start itself: only a goal pose whose plan failed sends it.
AwaitsStart == traj.age < 0 /\ traj.id = newest.id /\ state = "EXEC_TRAJ" /\ goals > 0

\* The base moves along a trajectory only on the strength of the one the server
\* holds, between its start and its end: the base keeps its last velocity, so
\* a command timer that stays silent (no trajectory, or one that starts later)
\* must find the base at rest.  Only while AwaitsStart does it drive on blindly.
CommandIsCurrent ==
  base.kind = "follow" /\ ~cmdDue =>
    /\ receiving
    /\ \/ base.id = traj.id /\ 0 <= traj.age /\ ~Elapsed(traj)
       \/ AwaitsStart

\* Once an emergency stop has been delivered, the trajectory it was for is not
\* followed any more, unless the stop overtook that very trajectory, a goal pose
\* whose plan failed had it sent again, or the server has meanwhile been given
\* one that has yet to start (AwaitsStart).
StopPending == \E i \in 1 .. Len(mail) : mail[i].topic = "stop"
CondemnedIsAbandoned ==
  condemned > 0 /\ base.kind = "follow" /\ ~StopPending /\ ~cmdDue /\ ~overtaken =>
    \/ base.id > condemned
    \/ revived /\ base.id = condemned
    \/ AwaitsStart

\* Exploration ends with the robot at rest for good, although no stop is sent
\* then: the trajectory under way is driven to its end.
FinishComesToRest == (state = "FINISH") ~> [](base = Rest)

\* exploration_data.h:64 "Track if robot is static or moving".
StaticMeansAtRest == staticState /\ Delivered /\ ~cmdDue => base.kind # "follow"
=============================================================================
