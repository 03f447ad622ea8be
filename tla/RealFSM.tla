------------------------------- MODULE RealFSM -------------------------------
(***************************************************************************)
(* The planner's finite state machine of the real-world mode               *)
(* (exploration_fsm_traj.cpp).  All its callbacks run in one thread.  What *)
(* it publishes for the trajectory server, trajectories on one topic and   *)
(* stops on another, is in mail until it is delivered.                     *)
(***************************************************************************)
EXTENDS Trajectories, Sequences

CONSTANTS
  EndThreshold,    \* replan_traj_end_threshold, in ticks
  ChangeDelay,     \* replan_frontier_change_delay
  ReplanTimeout,   \* replan_timeout
  MaxPlans,        \* bound on the trajectories planned
  MaxGoals         \* bound on the goal poses

VARIABLES
  state,            \* state_
  haveOdom, haveConfidence,
  staticState,      \* static_state_
  exploring,        \* final_result_ = EXPLORE
  local,            \* gcopter_->local_trajectory_
  newest,           \* newest_traj_
  mail,             \* messages to the trajectory server, oldest first
  goals             \* goal poses received

fsmVars == <<state, haveOdom, haveConfidence, staticState, exploring, local, newest, mail,
             goals>>
inputs == <<haveOdom, haveConfidence>>

States == {"INIT", "WAIT_TRIGGER", "PLAN_TRAJ", "EXEC_TRAJ", "REPLAN", "FINISH"}

FsmTrajectory == [id : 0 .. MaxPlans, age : Ages, dur : 0 .. MaxDuration]

Message == [topic : {"trajectory", "stop"}, traj : FsmTrajectory]
TrajectoryMessage(t) == [topic |-> "trajectory", traj |-> t]
StopMessage == [topic |-> "stop", traj |-> NoTrajectory]

FsmTypeOK ==
  /\ state \in States
  /\ haveOdom \in BOOLEAN /\ haveConfidence \in BOOLEAN
  /\ staticState \in BOOLEAN /\ exploring \in BOOLEAN
  /\ local \in FsmTrajectory /\ newest \in FsmTrajectory
  /\ mail \in Seq(Message)
  /\ goals \in 0 .. MaxGoals

FsmInit ==
  /\ state = "INIT"
  /\ haveOdom = FALSE /\ haveConfidence = FALSE
  /\ staticState = TRUE /\ exploring = FALSE
  /\ local = NoTrajectory /\ newest = NoTrajectory
  /\ mail = <<>>
  /\ goals = 0

\* odometryCallback and confidenceThresholdCallback, the first time.
Odometry ==
  /\ ~haveOdom /\ haveOdom' = TRUE
  /\ UNCHANGED <<state, haveConfidence, staticState, exploring, local, newest, mail, goals>>
Confidence ==
  /\ ~haveConfidence /\ haveConfidence' = TRUE
  /\ UNCHANGED <<state, haveOdom, staticState, exploring, local, newest, mail, goals>>

\* FSMCallback in INIT; triggerCallback.
Ready ==
  /\ state = "INIT" /\ haveOdom /\ haveConfidence
  /\ state' = "WAIT_TRIGGER"
  /\ UNCHANGED <<inputs, staticState, exploring, local, newest, mail, goals>>
Trigger ==
  /\ state = "WAIT_TRIGGER"
  /\ state' = "PLAN_TRAJ"
  /\ UNCHANGED <<inputs, staticState, exploring, local, newest, mail, goals>>

\* FSMCallback in FINISH.
Finish ==
  /\ state = "FINISH"
  /\ staticState' = TRUE
  /\ UNCHANGED <<state, inputs, exploring, local, newest, mail, goals>>

\* A start time to which replan_time is added twice.
PlannedLater(d, age) == [id |-> local.id + 1, age |-> age - ReplanTime, dur |-> d]

\* What minco_plan leaves in local_trajectory_ when a trajectory is found; its
\* start is the time of the call.
Planned(d, age) == [id |-> local.id + 1, age |-> age, dur |-> d]

\* FSMCallback in PLAN_TRAJ.  There is nothing left to do ...
PlanComplete ==
  /\ state = "PLAN_TRAJ"
  /\ state' = "FINISH"
  /\ exploring' = FALSE
  /\ UNCHANGED <<inputs, staticState, local, newest, mail, goals>>

\* ... no trajectory is found ...
PlanFails(e) ==
  /\ state = "PLAN_TRAJ"
  /\ staticState' = TRUE
  /\ exploring' = e
  /\ UNCHANGED <<state, inputs, local, newest, mail, goals>>

\* A plan that is not copied to newest_traj_.
PlanSucceedsUncopied(e, d, ahead) ==
  /\ state = "PLAN_TRAJ" /\ local.id < MaxPlans
  /\ state' = "EXEC_TRAJ"
  /\ exploring' = e
  /\ local' = Planned(d, -ahead)
  /\ UNCHANGED <<newest, inputs, staticState, mail, goals>>

\* ... or one that starts ahead ticks from now, what is left of replan_time.
PlanSucceeds(e, d, ahead) ==
  /\ state = "PLAN_TRAJ" /\ local.id < MaxPlans
  /\ state' = "EXEC_TRAJ"
  /\ exploring' = e
  /\ local' = Planned(d, -ahead)
  /\ newest' = local'
  /\ UNCHANGED <<inputs, staticState, mail, goals>>

\* A trajectory that is sent as soon as it is planned.
StartedOrNot(t) == TRUE

\* The trajectory is sent once its start time is past, which it is during tick 0.
Started(t) == t.age >= 0

\* FSMCallback in EXEC_TRAJ.
Execute ==
  /\ state = "EXEC_TRAJ" /\ Started(newest)
  /\ mail' = Append(mail, TrajectoryMessage(newest))
  /\ staticState' = FALSE
  /\ state' = "REPLAN"
  /\ UNCHANGED <<inputs, exploring, local, newest, goals>>

\* FSMCallback in REPLAN: the trajectory is almost finished, a frontier changed
\* (which the map may report or not), or the trajectory is old.
Replan ==
  /\ state = "REPLAN"
  /\ \/ local.dur - local.age < EndThreshold
     \/ local.age > ChangeDelay /\ exploring
     \/ local.age > ReplanTimeout
  /\ state' = "PLAN_TRAJ"
  /\ UNCHANGED <<inputs, staticState, exploring, local, newest, mail, goals>>

\* An emergency stop after which the next plan starts where the trajectory would
\* have led.
EmergencyStopMoving ==
  /\ state = "REPLAN"
  /\ mail' = Append(mail, StopMessage)
  /\ state' = "PLAN_TRAJ"
  /\ UNCHANGED <<inputs, staticState, exploring, local, newest, goals>>

\* safetyCallback: the robot is off the trajectory or the trajectory hits an
\* obstacle; emergencyStop.
EmergencyStop ==
  /\ state = "REPLAN"
  /\ staticState' = TRUE
  /\ mail' = Append(mail, StopMessage)
  /\ state' = "PLAN_TRAJ"
  /\ UNCHANGED <<inputs, exploring, local, newest, goals>>

\* goalCallback, for a goal away from the robot, in any state: the local
\* trajectory is sent whether or not planTrajectory found a new one.
Goal(found, d) ==
  /\ goals < MaxGoals
  /\ found => local.id < MaxPlans
  /\ local' = IF found THEN Planned(d, 0) ELSE local
  /\ mail' = Append(mail, TrajectoryMessage(local'))
  /\ goals' = goals + 1
  /\ UNCHANGED <<state, inputs, staticState, exploring, newest>>

FsmStep ==
  \/ Odometry \/ Confidence \/ Ready \/ Trigger \/ Finish
  \/ PlanComplete
  \/ \E e \in BOOLEAN : PlanFails(e)
  \/ \E e \in BOOLEAN, d \in 1 .. MaxDuration, ahead \in 0 .. ReplanTime :
       PlanSucceeds(e, d, ahead)
  \/ Execute \/ Replan
=============================================================================
