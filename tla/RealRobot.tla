------------------------------ MODULE RealRobot ------------------------------
(***************************************************************************)
(* The real-world mode: the planner's finite state machine, the trajectory *)
(* server and the base, with the messages and the time between them.       *)
(*                                                                         *)
(* The two topics are two connections: each keeps its order, and a message *)
(* of one may overtake those of the other.  The command timer is faster    *)
(* than a tick: it runs at least once in each.                             *)
(***************************************************************************)
EXTENDS RealFSM, TrajServer

CONSTANT MaxTurns   \* bound on the target angles received

ASSUME ThresholdsAssumption ==
  EndThreshold \in Nat /\ ChangeDelay \in Nat /\ ReplanTimeout \in Nat
ASSUME BoundsAssumption ==
  MaxPlans \in Nat /\ MaxGoals \in Nat /\ MaxTurns \in Nat

VARIABLES
  cmdDue,      \* the command timer has yet to run on what the server holds
  turns,       \* target angles received
  overtaken,   \* history: some message overtook another
  condemned,   \* history: id of the last trajectory stopped in an emergency
  revived,     \* history: a goal pose had that trajectory sent again
  crossed      \* history: a goal's trajectory was sent before the newest plan

goalHistory == <<revived, crossed>>
vars == <<fsmVars, serverVars, cmdDue, turns, overtaken, condemned, goalHistory>>

TypeOK ==
  /\ FsmTypeOK /\ ServerTypeOK
  /\ cmdDue \in BOOLEAN /\ overtaken \in BOOLEAN
  /\ revived \in BOOLEAN /\ crossed \in BOOLEAN
  /\ turns \in 0 .. MaxTurns
  /\ condemned \in 0 .. MaxPlans

Init ==
  /\ FsmInit /\ ServerInit
  /\ cmdDue = FALSE /\ turns = 0 /\ overtaken = FALSE /\ condemned = 0
  /\ revived = FALSE /\ crossed = FALSE

Planning ==
  /\ FsmStep
  /\ crossed' = (crossed /\ newest' = newest)
  /\ UNCHANGED <<serverVars, cmdDue, turns, overtaken, condemned, revived>>

GoalPose(found, d) ==
  /\ Goal(found, d)
  /\ crossed' = (state = "EXEC_TRAJ" /\ (found \/ crossed))
  /\ revived' = (revived \/ local'.id = condemned)
  /\ UNCHANGED <<serverVars, cmdDue, turns, overtaken, condemned>>

Safety ==
  /\ EmergencyStop
  /\ condemned' = local.id
  /\ revived' = FALSE
  /\ UNCHANGED <<serverVars, cmdDue, turns, overtaken, crossed>>

\* The first message of a topic that is still on its way.
FirstOfTopic(i) == \A j \in 1 .. i - 1 : mail[j].topic # mail[i].topic

Without(s, i) == SubSeq(s, 1, i - 1) \o SubSeq(s, i + 1, Len(s))

Deliver(i) ==
  /\ FirstOfTopic(i)
  /\ IF mail[i].topic = "stop" THEN ReceiveStop ELSE ReceiveTrajectory(mail[i].traj)
  /\ mail' = Without(mail, i)
  /\ cmdDue' = TRUE
  /\ overtaken' = (overtaken \/ i > 1)
  /\ UNCHANGED <<state, haveOdom, haveConfidence, staticState, exploring, local, newest,
                 goals, turns, condemned, goalHistory>>

TargetAngle ==
  /\ turns < MaxTurns /\ haveOdom
  /\ ReceiveTargetAngle
  /\ turns' = turns + 1
  /\ cmdDue' = TRUE
  /\ UNCHANGED <<fsmVars, overtaken, condemned, goalHistory>>

Command ==
  /\ cmdDue /\ cmdDue' = FALSE
  /\ CommandRotation \/ CommandTargetReached \/ CommandTrajectory
  /\ UNCHANGED <<fsmVars, turns, overtaken, condemned, goalHistory>>

Tick ==
  /\ ~cmdDue /\ cmdDue' = TRUE
  /\ local' = Aged(local) /\ newest' = Aged(newest) /\ traj' = Aged(traj)
  /\ mail' = [i \in DOMAIN mail |-> [mail[i] EXCEPT !.traj = Aged(@)]]
  /\ UNCHANGED <<state, haveOdom, haveConfidence, staticState, exploring, goals,
                 receiving, rotating, base, turns, overtaken, condemned, goalHistory>>

Next ==
  \/ Planning \/ Safety
  \/ \E found \in BOOLEAN, d \in 1 .. MaxDuration : GoalPose(found, d)
  \/ \E i \in 1 .. Len(mail) : Deliver(i)
  \/ TargetAngle \/ Command \/ Tick

Spec == Init /\ [][Next]_vars

\* Messages arrive, timers run, time passes, and a rotation that is commanded
\* again and again reaches its angle.
FairSpec ==
  /\ Spec
  /\ WF_vars(\E i \in 1 .. Len(mail) : Deliver(i))
  /\ WF_vars(Command)
  /\ WF_vars(Tick)
  /\ SF_vars(Command /\ CommandTargetReached)
=============================================================================
