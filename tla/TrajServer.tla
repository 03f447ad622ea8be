------------------------------ MODULE TrajServer ------------------------------
(***************************************************************************)
(* The trajectory server of the real-world mode (traj_server.cpp) and the  *)
(* base it drives.  The server holds one trajectory and, on a timer, sends *)
(* the velocity that follows it; the base keeps the last velocity it was   *)
(* given.                                                                  *)
(***************************************************************************)
EXTENDS Trajectories

VARIABLES
  traj,        \* traj_id_, start_time_ (as an age), traj_duration_
  receiving,   \* receive_traj_
  rotating,    \* has_target_angle_
  base         \* the velocity the base keeps

serverVars == <<traj, receiving, rotating, base>>

Rest == [kind |-> "rest", id |-> 0]
Turn == [kind |-> "turn", id |-> 0]
Follow(t) == [kind |-> "follow", id |-> t.id]

ServerTypeOK ==
  /\ traj \in [id : Nat, age : Ages, dur : Int]
  /\ receiving \in BOOLEAN /\ rotating \in BOOLEAN
  /\ base \in [kind : {"rest", "turn", "follow"}, id : Nat]

ServerInit ==
  /\ traj = NoTrajectory
  /\ receiving = FALSE /\ rotating = FALSE
  /\ base = Rest

\* polyTrajCallback: the new trajectory replaces whatever was followed.
ReceiveTrajectory(t) ==
  /\ traj' = t
  /\ receiving' = TRUE
  /\ UNCHANGED <<rotating, base>>

\* A stop that extends the trajectory instead of cutting it.
ReceiveStopMax ==
  /\ traj' = [traj EXCEPT !.dur = IF traj.age - 1 < @ THEN @ ELSE traj.age - 1]
  /\ UNCHANGED <<receiving, rotating, base>>

\* stopCallback: the trajectory ends now.  The next command is sent later than
\* the stop, when its elapsed time exceeds this duration.
ReceiveStop ==
  /\ traj' = [traj EXCEPT !.dur = IF traj.age - 1 < @ THEN traj.age - 1 ELSE @]
  /\ UNCHANGED <<receiving, rotating, base>>

\* targetAngleCallback.
ReceiveTargetAngle ==
  /\ rotating' = TRUE
  /\ UNCHANGED <<traj, receiving, base>>

\* executeRotationToTarget: a rotation comes before any trajectory.
CommandRotation ==
  /\ rotating
  /\ base' = Turn
  /\ UNCHANGED <<traj, receiving, rotating>>

CommandTargetReached ==
  /\ rotating
  /\ base' = Rest
  /\ rotating' = FALSE
  /\ UNCHANGED <<traj, receiving>>

Elapsed(t) == t.age > t.dur

\* The end of a trajectory without the zero velocity.
CommandTrajectorySilentEnd ==
  /\ ~rotating
  /\ \/ /\ ~receiving \/ traj.age < 0
        /\ UNCHANGED <<base, receiving>>
     \/ /\ receiving /\ traj.age >= 0 /\ Elapsed(traj)
        /\ receiving' = FALSE
        /\ UNCHANGED base
     \/ /\ receiving /\ traj.age >= 0 /\ ~Elapsed(traj)
        /\ base' = Follow(traj)
        /\ UNCHANGED receiving
  /\ UNCHANGED <<traj, rotating>>

\* cmdCallBack at a tick without rotation: nothing is sent without a trajectory
\* or before its start, a zero velocity once at its end.
CommandTrajectory ==
  /\ ~rotating
  /\ \/ /\ ~receiving \/ traj.age < 0
        /\ UNCHANGED <<base, receiving>>
     \/ /\ receiving /\ traj.age >= 0 /\ Elapsed(traj)
        /\ base' = Rest
        /\ receiving' = FALSE
     \/ /\ receiving /\ traj.age >= 0 /\ ~Elapsed(traj)
        /\ base' = Follow(traj)
        /\ UNCHANGED receiving
  /\ UNCHANGED <<traj, rotating>>
=============================================================================
