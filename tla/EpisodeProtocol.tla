-------------------------- MODULE EpisodeProtocol --------------------------
(***************************************************************************)
(* The episode protocol between the evaluator (habitat_evaluation.py, a    *)
(* Python process with a main thread and rospy callback threads) and the   *)
(* planner node in simulation mode (ExplorationFSM, a single-threaded      *)
(* roscpp node).  The two only share ROS topics.                           *)
(*                                                                         *)
(* One episode: the evaluator resets the environment and starts a timer    *)
(* that publishes odometry, the detector's confidence threshold and a      *)
(* trigger until /ros/state shows that the planner has left its waiting    *)
(* states; then planner and evaluator alternate, one action at a time,     *)
(* until the planner's STOP or the step limit ends the episode; then       *)
(* EPISODE_FINISH makes the planner re-initialise itself.                  *)
(*                                                                         *)
(* What the planner computes is left to ActionPlanner: here a planning     *)
(* call returns any FINAL_RESULT.  A motion action is "GO".                *)
(***************************************************************************)
EXTENDS Naturals, Sequences

CONSTANTS
  MaxEpisodes,     \* bound: number_of_episodes
  MaxSteps,        \* max_episode_steps (500 in config/)
  InitActions,     \* length of the scripted first turns (1+12+1+12 in the code)
  QueueSize,       \* queue_size of the event topics (10 in the code)
  StatusQueueSize, \* queue_size of the periodically repeated topics; 1 models
                   \* "a newer message replaces the one still in flight"
  InOrderDelivery, \* a node's message is handled after the node's earlier
                   \* messages on other topics
  SettledReset,    \* the end-of-episode work of the evaluator, up to the clearing
                   \* of the slot, outlasts the planner's reaction to
                   \* EPISODE_FINISH
  AccurateWatchdog,\* action_finish_watchdog_sec outlasts planning and delivery
  LossyActions     \* the actions that may be lost on /habitat/plan_action

ASSUME EpisodesAssumption == MaxEpisodes \in Nat \ {0}
ASSUME StepsAssumption == InitActions \in Nat /\ MaxSteps \in Nat /\ MaxSteps > InitActions
ASSUME QueueAssumption == QueueSize \in Nat /\ QueueSize >= 4 /\ StatusQueueSize \in Nat \ {0}
ASSUME TimingAssumption ==
  /\ {InOrderDelivery, SettledReset, AccurateWatchdog} \subseteq BOOLEAN
  /\ LossyActions \subseteq {"GO", "STOP"}

ROS_STATE == {"INIT", "WAIT_TRIGGER", "PLAN_ACTION", "WAIT_ACTION_FINISH",
              "PUB_ACTION", "FINISH"}
HABITAT_STATE == {"ACTION_EXEC", "ACTION_FINISH", "EPISODE_FINISH"}
FINAL_RESULT == {"EXPLORE", "SEARCH_OBJECT", "STUCKING", "NO_FRONTIER", "REACH_OBJECT"}
Continuing == {"EXPLORE", "SEARCH_OBJECT"}
Actions == {"GO", "STOP"}

(* A message of the planner carries, for the properties only, the number   *)
(* of the incarnation (the count of init calls) that sent it; a pose is    *)
(* identified by the episode and the number of steps that led to it.       *)
ActionMsg == [act : Actions, inc : Nat]
ResultMsg == [result : FINAL_RESULT, inc : Nat]
Pose == [episode : Nat, step : Nat]

NoAction == [act |-> "none", inc |-> 0]
NoResult == [result |-> "none", inc |-> 0]
NoPose == [episode |-> 0, step |-> 0]

VARIABLES
  (* the evaluator *)
  evPc,         \* where the main thread is
  episode,      \* number of the current episode
  feasible,     \* is_feasible: the target is on the robot's floor
  episodeOver,  \* env.episode_over
  countSteps,   \* count_steps
  globalAction, \* the slot filled by ros_action_callback
  takenAction,  \* action, the translated one
  rosState,     \* ros_state, as last received
  finalState,   \* final_state, as last received
  armed,        \* wait_action_since is not None
  (* the planner *)
  state,        \* state_
  inits,        \* number of init() calls
  initCount,    \* init_action_count_
  newestAction, \* newest_action_
  finalResult,  \* final_result_
  haveOdom, haveConfidence, haveFinished,
  odom,         \* odom_pos_, odom_yaw_
  (* messages in flight *)
  habitatQ,     \* /habitat/state
  odomQ,        \* /odom_world
  confQ,        \* number of messages on /detector/confidence_threshold
  trigQ,        \* number of messages on /move_base_simple/goal
  actionQ,      \* /habitat/plan_action
  rosQ,         \* /ros/state
  explQ         \* /ros/expl_state

evCore == <<episode, feasible, episodeOver, countSteps>>
evHeard == <<rosState, finalState>>
evVars == <<evPc, evCore, globalAction, takenAction, evHeard, armed>>
fsmData == <<inits, initCount, newestAction, finalResult, haveOdom,
             haveConfidence, haveFinished, odom>>
fsmVars == <<state, fsmData>>
toFsm == <<habitatQ, odomQ, confQ, trigQ>>
toEval == <<actionQ, rosQ, explQ>>
vars == <<evVars, fsmVars, toFsm, toEval>>

(* A bounded ROS topic: the oldest message gives way to the newest.        *)
Publish(q, m, size) == IF Len(q) < size THEN Append(q, m) ELSE Append(Tail(q), m)
Raise(n) == IF n < StatusQueueSize THEN n + 1 ELSE n
Suffixes(q) == {SubSeq(q, i, Len(q)) : i \in 1..(Len(q) + 1)}

(***************************************************************************)
(* The planner: FSMCallback, every 10 ms.  A tick first publishes state_.  *)
(***************************************************************************)
PublishState == rosQ' = Publish(rosQ, state, StatusQueueSize)

TickInit ==
  /\ state = "INIT"
  /\ PublishState
  /\ state' = IF haveOdom /\ haveConfidence THEN "WAIT_TRIGGER" ELSE "INIT"
  /\ UNCHANGED <<evVars, fsmData, toFsm, actionQ, explQ>>

TickIdle ==
  /\ state \in {"WAIT_TRIGGER", "WAIT_ACTION_FINISH"} \/ (state = "FINISH" /\ haveFinished)
  /\ PublishState
  /\ UNCHANGED <<evVars, fsmVars, toFsm, actionQ, explQ>>

TickFinish ==
  /\ state = "FINISH" /\ ~haveFinished
  /\ PublishState
  /\ haveFinished' = TRUE
  /\ actionQ' = Publish(actionQ, [act |-> "STOP", inc |-> inits], QueueSize)
  /\ UNCHANGED <<evVars, state, inits, initCount, newestAction, finalResult,
                 haveOdom, haveConfidence, odom, toFsm, explQ>>

(* The first turns of an episode follow a script and plan nothing.         *)
ScriptedOnceMore == initCount <= InitActions
Scripted == initCount < InitActions

TickInitAction ==
  /\ state = "PLAN_ACTION" /\ Scripted
  /\ PublishState
  /\ newestAction' = "GO"
  /\ initCount' = initCount + 1
  /\ state' = "PUB_ACTION"
  /\ UNCHANGED <<evVars, inits, finalResult, haveOdom, haveConfidence,
                 haveFinished, odom, toFsm, actionQ, explQ>>

ReportContinuing(r) ==
  explQ' = IF r \in Continuing
           THEN Publish(explQ, [result |-> r, inc |-> inits], QueueSize) ELSE explQ
ReportResult(r) == explQ' = Publish(explQ, [result |-> r, inc |-> inits], QueueSize)

TickPlan ==
  /\ state = "PLAN_ACTION" /\ ~Scripted
  /\ PublishState
  /\ \E r \in FINAL_RESULT :
       /\ finalResult' = r
       /\ ReportResult(r)
       /\ state' = IF r \in Continuing THEN "PUB_ACTION" ELSE "FINISH"
       /\ newestAction' = IF r \in Continuing THEN "GO" ELSE newestAction
  /\ UNCHANGED <<evVars, inits, initCount, haveOdom, haveConfidence,
                 haveFinished, odom, toFsm, actionQ>>

TickPub ==
  /\ state = "PUB_ACTION"
  /\ PublishState
  /\ actionQ' = Publish(actionQ, [act |-> newestAction, inc |-> inits], QueueSize)
  /\ state' = "WAIT_ACTION_FINISH"
  /\ UNCHANGED <<evVars, fsmData, toFsm, explQ>>

FSMCallback ==
  TickInit \/ TickIdle \/ TickFinish \/ TickInitAction \/ TickPlan \/ TickPub

(***************************************************************************)
(* The planner: subscriber callbacks.                                      *)
(***************************************************************************)
EarlierDelivered == InOrderDelivery => odomQ = <<>> /\ confQ = 0 /\ trigQ = 0

(* init(): fresh FSMParam, FSMData and ExplorationManager; the re-made     *)
(* subscribers drop what their predecessors had queued.                    *)
ReInit ==
  /\ state' = "INIT"
  /\ inits' = inits + 1
  /\ initCount' = 0
  /\ newestAction' = "none"
  /\ finalResult' = "none"
  /\ haveOdom' = FALSE /\ haveConfidence' = FALSE /\ haveFinished' = FALSE
  /\ odom' = NoPose
  /\ habitatQ' \in Suffixes(Tail(habitatQ))
  /\ odomQ' \in Suffixes(odomQ)
  /\ confQ' \in 0..confQ
  /\ trigQ' \in 0..trigQ

(* The planner reacts to ACTION_FINISH, and only while it waits for it.    *)
ResumesOnAny(m) == state = "WAIT_ACTION_FINISH"
ResumesAnywhere(m) == m = "ACTION_FINISH"
Resumes(m) == m = "ACTION_FINISH" /\ state = "WAIT_ACTION_FINISH"

HabitatStateCallback ==
  /\ habitatQ # <<>>
  /\ EarlierDelivered
  /\ \/ /\ Head(habitatQ) = "EPISODE_FINISH"
        /\ ReInit
     \/ /\ Head(habitatQ) # "EPISODE_FINISH"
        /\ habitatQ' = Tail(habitatQ)
        /\ state' = IF Resumes(Head(habitatQ)) THEN "PLAN_ACTION" ELSE state
        /\ UNCHANGED <<fsmData, odomQ, confQ, trigQ>>
  /\ UNCHANGED <<evVars, toEval>>

OdometryOnce ==
  /\ odomQ # <<>>
  /\ odom' = IF haveOdom THEN odom ELSE Head(odomQ)
  /\ haveOdom' = TRUE
  /\ odomQ' = Tail(odomQ)
  /\ UNCHANGED <<evVars, state, inits, initCount, newestAction, finalResult,
                 haveConfidence, haveFinished, habitatQ, confQ, trigQ, toEval>>

OdometryCallback ==
  /\ odomQ # <<>>
  /\ odom' = Head(odomQ)
  /\ haveOdom' = TRUE
  /\ odomQ' = Tail(odomQ)
  /\ UNCHANGED <<evVars, state, inits, initCount, newestAction, finalResult,
                 haveConfidence, haveFinished, habitatQ, confQ, trigQ, toEval>>

ConfidenceThresholdCallback ==
  /\ confQ > 0
  /\ haveConfidence' = TRUE
  /\ confQ' = confQ - 1
  /\ UNCHANGED <<evVars, state, inits, initCount, newestAction, finalResult,
                 haveOdom, haveFinished, odom, habitatQ, odomQ, trigQ, toEval>>

TriggerCallback ==
  /\ trigQ > 0
  /\ state' = IF state = "WAIT_TRIGGER" THEN "PLAN_ACTION" ELSE state
  /\ trigQ' = trigQ - 1
  /\ UNCHANGED <<evVars, fsmData, habitatQ, odomQ, confQ, toEval>>

(***************************************************************************)
(* The evaluator: rospy callback threads, concurrent with the main thread. *)
(***************************************************************************)
ActionArrives == actionQ # <<>> /\ (InOrderDelivery => explQ = <<>>)

ActionCallback ==
  /\ ActionArrives
  /\ globalAction' = Head(actionQ)
  /\ actionQ' = Tail(actionQ)
  /\ UNCHANGED <<evPc, evCore, takenAction, evHeard, armed, fsmVars, toFsm, rosQ, explQ>>

RosStateCallback ==
  /\ rosQ # <<>>
  /\ rosState' = Head(rosQ)
  /\ rosQ' = Tail(rosQ)
  /\ UNCHANGED <<evPc, evCore, globalAction, takenAction, finalState, armed,
                 fsmVars, toFsm, actionQ, explQ>>

FinalStateCallback ==
  /\ explQ # <<>>
  /\ finalState' = Head(explQ)
  /\ explQ' = Tail(explQ)
  /\ UNCHANGED <<evPc, evCore, globalAction, takenAction, rosState, armed,
                 fsmVars, toFsm, actionQ, rosQ>>

(* pub_timer, every 0.25 s between its creation and its shutdown; its      *)
(* three publications count as one, and a call that is under way at the    *)
(* shutdown, which does not wait for it, as done.                          *)
PublishObservations ==
  /\ evPc \in {"ArmWait", "WaitReady"}
  /\ odomQ' = Publish(odomQ, [episode |-> episode, step |-> 0], StatusQueueSize)
  /\ confQ' = Raise(confQ)
  /\ trigQ' = Raise(trigQ)
  /\ UNCHANGED <<evVars, fsmVars, habitatQ, toEval>>

(***************************************************************************)
(* The evaluator: main thread.                                             *)
(***************************************************************************)
PlannerSettled ==
  /\ inits = episode + 1 /\ state = "INIT"
  /\ habitatQ = <<>> /\ odomQ = <<>> /\ confQ = 0 /\ trigQ = 0
  /\ actionQ = <<>> /\ explQ = <<>> /\ rosQ \in Seq({"INIT"})

(* The slot is cleared before env.reset(), which is when the episode       *)
(* begins; with SettledReset nothing can arrive between the two.           *)
ResetEpisodeOnly ==
  /\ evPc = "Reset" /\ episode < MaxEpisodes
  /\ SettledReset => PlannerSettled
  /\ episode' = episode + 1
  /\ feasible' \in BOOLEAN
  /\ episodeOver' = FALSE
  /\ countSteps' = 0
  /\ evPc' = "ArmWait"
  /\ UNCHANGED <<globalAction, takenAction, evHeard, armed, fsmVars, toFsm, toEval>>

ResetEpisode ==
  /\ evPc = "Reset" /\ episode < MaxEpisodes
  /\ SettledReset => PlannerSettled
  /\ episode' = episode + 1
  /\ feasible' \in BOOLEAN
  /\ episodeOver' = FALSE
  /\ countSteps' = 0
  /\ globalAction' = NoAction
  /\ evPc' = "ArmWait"
  /\ UNCHANGED <<takenAction, evHeard, armed, fsmVars, toFsm, toEval>>

ArmWaitOnly ==
  /\ evPc = "ArmWait"
  /\ evPc' = "WaitReady"
  /\ UNCHANGED <<evCore, globalAction, takenAction, evHeard, armed, fsmVars, toFsm, toEval>>

ArmWait ==
  /\ evPc = "ArmWait"
  /\ rosState' = "INIT"
  /\ evPc' = "WaitReady"
  /\ UNCHANGED <<evCore, globalAction, takenAction, finalState, armed, fsmVars, toFsm, toEval>>

LeaveWait ==
  /\ evPc = "WaitReady"
  /\ rosState \notin {"INIT", "WAIT_TRIGGER"}
  /\ armed' = FALSE
  /\ evPc' = "Poll"
  /\ UNCHANGED <<evCore, globalAction, takenAction, evHeard, fsmVars, toFsm, toEval>>

LeaveLoop ==
  /\ evPc = "Poll"
  /\ episodeOver \/ ~feasible
  /\ evPc' = "Report"
  /\ UNCHANGED <<evCore, globalAction, takenAction, evHeard, armed, fsmVars, toFsm, toEval>>

Polling == evPc = "Poll" /\ ~episodeOver /\ feasible

(* The last step the limit allows is always a STOP.                        *)
TakeAction ==
  /\ Polling
  /\ globalAction # NoAction
  /\ globalAction' = IF countSteps = MaxSteps - 1
                     THEN [act |-> "STOP", inc |-> episode] ELSE globalAction
  /\ evPc' = "Translate"
  /\ UNCHANGED <<evCore, takenAction, evHeard, armed, fsmVars, toFsm, toEval>>

(* The comparisons with the slot count as one reading of it: they differ   *)
(* only if a second action arrives between two of them, and that action is *)
(* then lost with the first, as it would be before ClearAction.            *)
TranslateAction ==
  /\ evPc = "Translate"
  /\ takenAction' = globalAction
  /\ evPc' = "Clear"
  /\ UNCHANGED <<evCore, globalAction, evHeard, armed, fsmVars, toFsm, toEval>>

KeepAction ==
  /\ evPc = "Clear"
  /\ evPc' = "Step"
  /\ UNCHANGED <<evCore, globalAction, takenAction, evHeard, armed, fsmVars, toFsm, toEval>>

ClearAction ==
  /\ evPc = "Clear"
  /\ globalAction' = NoAction
  /\ evPc' = "Step"
  /\ UNCHANGED <<evCore, takenAction, evHeard, armed, fsmVars, toFsm, toEval>>

StepEnv ==
  /\ evPc = "Step"
  /\ armed' = FALSE
  /\ countSteps' = countSteps + 1
  /\ habitatQ' = Publish(habitatQ, "ACTION_EXEC", QueueSize)
  /\ episodeOver' = (takenAction.act = "STOP" \/ countSteps' = MaxSteps)
  /\ odomQ' = Publish(odomQ, [episode |-> episode, step |-> countSteps'], StatusQueueSize)
  /\ evPc' = "Finish"
  /\ UNCHANGED <<episode, feasible, globalAction, takenAction, evHeard,
                 fsmVars, confQ, trigQ, toEval>>

FinishAction ==
  /\ evPc = "Finish"
  /\ habitatQ' = Publish(habitatQ, "ACTION_FINISH", QueueSize)
  /\ evPc' = "Poll"
  /\ UNCHANGED <<evCore, globalAction, takenAction, evHeard, armed,
                 fsmVars, odomQ, confQ, trigQ, toEval>>

PollIdleUnarmed ==
  /\ Polling
  /\ globalAction = NoAction
  /\ armed' = FALSE
  /\ UNCHANGED <<evPc, evCore, globalAction, takenAction, evHeard, fsmVars, toFsm, toEval>>

(* One poll that finds no action: wait_action_since follows ros_state.     *)
PollIdle ==
  /\ Polling
  /\ globalAction = NoAction
  /\ armed' = (rosState = "WAIT_ACTION_FINISH")
  /\ UNCHANGED <<evPc, evCore, globalAction, takenAction, evHeard, fsmVars, toFsm, toEval>>

NothingPending ==
  /\ state = "WAIT_ACTION_FINISH"
  /\ habitatQ = <<>> /\ odomQ = <<>> /\ actionQ = <<>>

Heartbeat ==
  /\ Polling
  /\ globalAction = NoAction
  /\ armed /\ rosState = "WAIT_ACTION_FINISH"
  /\ AccurateWatchdog => NothingPending
  /\ habitatQ' = Publish(habitatQ, "ACTION_FINISH", QueueSize)
  /\ UNCHANGED <<evVars, fsmVars, odomQ, confQ, trigQ, toEval>>

ReportEpisode ==
  /\ evPc = "Report"
  /\ habitatQ' = Publish(habitatQ, "EPISODE_FINISH", QueueSize)
  /\ evPc' = IF episode = MaxEpisodes THEN "Done" ELSE "Reset"
  /\ UNCHANGED <<evCore, globalAction, takenAction, evHeard, armed,
                 fsmVars, odomQ, confQ, trigQ, toEval>>

MainThread ==
  \/ ResetEpisode \/ ArmWait \/ LeaveWait \/ LeaveLoop
  \/ TakeAction \/ TranslateAction \/ ClearAction \/ StepEnv \/ FinishAction
  \/ PollIdle \/ Heartbeat \/ ReportEpisode

(* The transport loses an action instead of delivering it.                 *)
LoseAction ==
  /\ ActionArrives
  /\ Head(actionQ).act \in LossyActions
  /\ actionQ' = Tail(actionQ)
  /\ UNCHANGED <<evVars, fsmVars, toFsm, rosQ, explQ>>

(***************************************************************************)
(* The specification.                                                      *)
(***************************************************************************)
Init ==
  /\ evPc = "Reset" /\ episode = 0 /\ feasible = TRUE /\ episodeOver = FALSE
  /\ countSteps = 0 /\ globalAction = NoAction /\ takenAction = NoAction
  /\ rosState = "INIT" /\ finalState = NoResult /\ armed = FALSE
  /\ state = "INIT" /\ inits = 1 /\ initCount = 0
  /\ newestAction = "none" /\ finalResult = "none"
  /\ haveOdom = FALSE /\ haveConfidence = FALSE /\ haveFinished = FALSE
  /\ odom = NoPose
  /\ habitatQ = <<>> /\ odomQ = <<>> /\ confQ = 0 /\ trigQ = 0
  /\ actionQ = <<>> /\ rosQ = <<>> /\ explQ = <<>>

FsmCallbacks ==
  HabitatStateCallback \/ OdometryCallback \/ ConfidenceThresholdCallback \/ TriggerCallback

EvaluatorCallbacks == ActionCallback \/ RosStateCallback \/ FinalStateCallback

Next ==
  \/ FSMCallback \/ FsmCallbacks
  \/ EvaluatorCallbacks \/ PublishObservations \/ MainThread
  \/ LoseAction

Spec == Init /\ [][Next]_vars

(* Timers fire, messages in flight are handled and threads make progress.  *)
(* Loss is never forced, and an action that is sent again and again gets   *)
(* through: strong fairness on its delivery.                               *)
Fairness ==
  /\ WF_vars(FSMCallback)
  /\ WF_vars(HabitatStateCallback) /\ WF_vars(OdometryCallback)
  /\ WF_vars(ConfidenceThresholdCallback) /\ WF_vars(TriggerCallback)
  /\ SF_vars(ActionCallback) /\ WF_vars(RosStateCallback) /\ WF_vars(FinalStateCallback)
  /\ WF_vars(PublishObservations) /\ WF_vars(MainThread)

FairSpec == Spec /\ Fairness
=============================================================================
