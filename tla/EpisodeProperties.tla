------------------------- MODULE EpisodeProperties -------------------------
(***************************************************************************)
(* What EpisodeProtocol must guarantee.                                    *)
(***************************************************************************)
EXTENDS EpisodeProtocol

(* The variables hold values of their types; no queue exceeds its size.    *)
Queues(M, size) == {q \in Seq(M) : Len(q) <= size}

TypeOK ==
  /\ evPc \in {"Reset", "ArmWait", "WaitReady", "Poll", "Translate", "Clear",
               "Step", "Finish", "Report", "Done"}
  /\ episode \in Nat /\ feasible \in BOOLEAN /\ episodeOver \in BOOLEAN
  /\ countSteps \in 0..MaxSteps
  /\ globalAction \in ActionMsg \cup {NoAction}
  /\ takenAction \in ActionMsg \cup {NoAction}
  /\ rosState \in ROS_STATE
  /\ finalState \in ResultMsg \cup {NoResult}
  /\ armed \in BOOLEAN
  /\ state \in ROS_STATE
  /\ inits \in Nat /\ initCount \in 0..InitActions
  /\ newestAction \in {"GO", "none"}
  /\ finalResult \in FINAL_RESULT \cup {"none"}
  /\ haveOdom \in BOOLEAN /\ haveConfidence \in BOOLEAN /\ haveFinished \in BOOLEAN
  /\ odom \in Pose
  /\ habitatQ \in Queues(HABITAT_STATE, QueueSize)
  /\ odomQ \in Queues(Pose, StatusQueueSize)
  /\ confQ \in 0..StatusQueueSize /\ trigQ \in 0..StatusQueueSize
  /\ actionQ \in Queues(ActionMsg, QueueSize)
  /\ rosQ \in Queues(ROS_STATE, StatusQueueSize)
  /\ explQ \in Queues(ResultMsg, QueueSize)

(***************************************************************************)
(* The turn to act is somewhere: announced by an ACTION_FINISH, with the   *)
(* planner that plans or publishes, in an action on its way, in the slot,  *)
(* or with the evaluator's main thread that executes an action.            *)
(***************************************************************************)
Announced == {i \in DOMAIN habitatQ : habitatQ[i] = "ACTION_FINISH"}
PlannerBusy == state \in {"PLAN_ACTION", "PUB_ACTION"} \/ (state = "FINISH" /\ ~haveFinished)
EvaluatorBusy == evPc \in {"Clear", "Step", "Finish"}
SlotFull == globalAction # NoAction /\ evPc # "Clear"

Turns ==
  {<<"announced", i>> : i \in Announced} \cup {<<"action", i>> : i \in DOMAIN actionQ}
  \cup {<<"planner", i>> : i \in {j \in {0} : PlannerBusy}}
  \cup {<<"evaluator", i>> : i \in {j \in {0} : EvaluatorBusy}}
  \cup {<<"slot", i>> : i \in {j \in {0} : SlotFull}}

(* There is never more than one turn, although the evaluator clears        *)
(* global_action after reading it, re-sends ACTION_FINISH from a watchdog  *)
(* and the planner plans once more after the last step of an episode: no   *)
(* action is overwritten unread and none is planned ahead of its turn.     *)
OneTurn == \A s, t \in Turns : s = t

(* An action is executed in the episode it was planned in, although the    *)
(* planner may issue one after the last step of an episode.                *)
NoStaleAction == evPc \in {"Clear", "Step", "Finish"} => takenAction.inc = episode

(* Past the scripted turns, the planner plans from the pose the last       *)
(* executed action led to, though pose and ACTION_FINISH are two topics.   *)
PlansFromLatestPose ==
  state = "PLAN_ACTION" /\ initCount >= InitActions
    => odom = [episode |-> episode, step |-> countSteps]

(* When check_failure classifies a feasible episode, final_state is this   *)
(* episode's, never the one an earlier episode left behind; if the planner *)
(* ended the episode, it is the decision it ended it with.                 *)
VerdictFromThisEpisode ==
  evPc = "Report" /\ feasible =>
    /\ finalState.inc = episode
    /\ countSteps < MaxSteps =>
         finalState.result = finalResult /\ finalResult \notin Continuing

(* A planner that has decided to finish leaves FINISH only by              *)
(* re-initialising, although its STOP is answered by an ACTION_FINISH.     *)
FinishIsFinal == [][state = "FINISH" => state' = "FINISH" \/ inits' = inits + 1]_vars

(* When the evaluator stops triggering the planner and starts to poll for  *)
(* actions, the planner has been initialised for this very episode and has *)
(* taken the trigger, although /ros/state does not say whose it is.        *)
ReadyForThisEpisode ==
  evPc \in {"Poll", "Translate", "Clear", "Step", "Finish"} =>
    inits = episode /\ state \notin {"INIT", "WAIT_TRIGGER"}

(* All episodes get evaluated: no episode waits forever for the planner to *)
(* be ready, for an action or for an ACTION_FINISH.                        *)
AllEpisodesEvaluated == <>(evPc = "Done")

(***************************************************************************)
(* Refinement: the protocol implements Lockstep.                           *)
(***************************************************************************)
Issued ==
  \/ state = "PUB_ACTION" \/ (state = "FINISH" /\ ~haveFinished)
  \/ actionQ # <<>> \/ globalAction # NoAction
  \/ evPc \in {"Translate", "Clear", "Step"}

Turn ==
  CASE evPc \in {"Reset", "Done", "ArmWait", "WaitReady"} -> "idle"
    [] evPc = "Report" \/ (evPc \in {"Poll", "Finish"} /\ episodeOver) -> "over"
    [] OTHER -> IF Issued THEN "act" ELSE "plan"

Abstract == INSTANCE Lockstep WITH steps <- countSteps, turn <- Turn

(* Evaluator and planner alternate strictly, see Lockstep.                 *)
ImplementsLockstep == Abstract!Spec
=============================================================================
