----------------------- MODULE EpisodeProtocolProofs -----------------------
(***************************************************************************)
(* Theorems about EpisodeProtocol, for every number of episodes, steps and *)
(* scripted turns, every queue size and any set of actions that may be     *)
(* lost.  Each theorem names the timing it depends on: that episodes do    *)
(* not mix needs the planner to have re-initialised itself before the next *)
(* one is set up (SettledReset), and that there is one turn at a time      *)
(* needs as well that messages of one node are handled in order            *)
(* (InOrderDelivery) and that the watchdog outlasts planning               *)
(* (AccurateWatchdog).                                                     *)
(***************************************************************************)
EXTENDS EpisodeProperties, SequenceTheorems, TLAPS

(***************************************************************************)
(* Lemmas about bounded topics.                                            *)
(***************************************************************************)

(* Publishing keeps a topic within its queue size, whether or not the      *)
(* oldest message has to give way.                                         *)
LEMMA PublishType ==
  ASSUME NEW M, NEW size \in Nat \ {0}, NEW q \in Queues(M, size), NEW m \in M
  PROVE  Publish(q, m, size) \in Queues(M, size)
<1>1. q \in Seq(M) /\ Len(q) <= size
  BY DEF Queues
<1>2. CASE Len(q) < size
  BY <1>1, <1>2 DEF Publish, Queues
<1>3. CASE ~(Len(q) < size)
  <2>1. Len(q) = size /\ q # <<>>
    BY <1>1, <1>3
  <2>2. Tail(q) \in Seq(M) /\ Len(Tail(q)) = size - 1
    BY <1>1, <2>1
  <2> QED
    BY <1>3, <2>2 DEF Publish, Queues
<1> QED
  BY <1>2, <1>3

(* Delivering the oldest message keeps the type of a topic.                *)
LEMMA DeliverType ==
  ASSUME NEW M, NEW size \in Nat, NEW q \in Queues(M, size), q # <<>>
  PROVE  Head(q) \in M /\ Tail(q) \in Queues(M, size)
BY DEF Queues

(* So does dropping any number of the oldest messages.                     *)
LEMMA SuffixType ==
  ASSUME NEW M, NEW size \in Nat, NEW q \in Queues(M, size), NEW r \in Suffixes(q)
  PROVE  r \in Queues(M, size)
<1>1. PICK i \in 1..(Len(q) + 1) : r = SubSeq(q, i, Len(q))
  BY DEF Suffixes
<1>2. q \in Seq(M) /\ Len(q) \in Nat /\ Len(q) <= size
  BY DEF Queues
<1>3. \A j \in i..Len(q) : q[j] \in M
  BY <1>2
<1>4. r \in Seq(M)
  BY <1>1, <1>2, <1>3
<1>5. Len(r) <= Len(q)
  BY <1>1, <1>2
<1> QED
  BY <1>2, <1>4, <1>5 DEF Queues

(* Every queue has room for a message.                                     *)
LEMMA Sizes == QueueSize \in Nat \ {0} /\ StatusQueueSize \in Nat \ {0}
BY QueueAssumption

(***************************************************************************)
(* Type correctness.  TypeOK alone is not inductive: counting a step needs *)
(* that the limit has not been reached, and publishing newest_action_ that *)
(* one has been chosen.                                                    *)
(***************************************************************************)
StepsLeft ==
  /\ countSteps = MaxSteps => episodeOver
  /\ evPc \in {"Translate", "Clear", "Step"} => ~episodeOver
ActionChosen == state = "PUB_ACTION" => newestAction = "GO"
TypeInv == TypeOK /\ StepsLeft /\ ActionChosen

(* The initial state.                                                      *)
LEMMA TypeInit == Init => TypeInv
<1> SUFFICES ASSUME Init PROVE TypeInv
  OBVIOUS
<1>1. /\ habitatQ \in Queues(HABITAT_STATE, QueueSize)
      /\ odomQ \in Queues(Pose, StatusQueueSize)
      /\ actionQ \in Queues(ActionMsg, QueueSize)
      /\ rosQ \in Queues(ROS_STATE, StatusQueueSize)
      /\ explQ \in Queues(ResultMsg, QueueSize)
  BY Sizes DEF Init, Queues
<1>2. NoPose \in Pose
  BY DEF NoPose, Pose
<1>3. /\ feasible \in BOOLEAN /\ episodeOver \in BOOLEAN /\ armed \in BOOLEAN
      /\ haveOdom \in BOOLEAN /\ haveConfidence \in BOOLEAN /\ haveFinished \in BOOLEAN
  BY Zenon DEF Init
<1>4. TypeOK
  BY <1>1, <1>2, <1>3, Sizes, StepsAssumption DEF Init, TypeOK, ROS_STATE
<1> QED
  BY <1>4, StepsAssumption DEF Init, TypeInv, StepsLeft, ActionChosen

(* Every tick of the planner.                                              *)
LEMMA TypeTick == TypeInv /\ FSMCallback => TypeInv'
<1> SUFFICES ASSUME TypeInv, FSMCallback PROVE TypeInv'
  OBVIOUS
<1> USE Sizes DEF TypeInv, ActionChosen, StepsLeft
<1>1. rosQ' \in Queues(ROS_STATE, StatusQueueSize)
  <2>1. PublishState
    BY DEF FSMCallback, TickInit, TickIdle, TickFinish, TickInitAction, TickPlan, TickPub
  <2> QED
    BY <2>1, PublishType DEF PublishState, TypeOK
<1>2. UNCHANGED <<evVars, toFsm>>
  BY DEF FSMCallback, TickInit, TickIdle, TickFinish, TickInitAction, TickPlan, TickPub, fsmVars
<1>3. StepsLeft'
  BY <1>2 DEF evVars, evCore
<1>4. CASE TickInit
  BY <1>1, <1>2, <1>3, <1>4 DEF TickInit, TypeOK, fsmData, toFsm, evVars, evCore, evHeard, ROS_STATE
<1>5. CASE TickIdle
  BY <1>1, <1>2, <1>3, <1>5 DEF TickIdle, TypeOK, fsmVars, fsmData, toFsm, evVars, evCore, evHeard
<1>6. CASE TickFinish
  <2>1. [act |-> "STOP", inc |-> inits] \in ActionMsg
    BY DEF TypeOK, ActionMsg, Actions
  <2>2. actionQ' \in Queues(ActionMsg, QueueSize)
    BY <1>6, <2>1, PublishType DEF TickFinish, TypeOK
  <2> QED
    BY <1>1, <1>2, <1>3, <1>6, <2>2 DEF TickFinish, TypeOK, toFsm, evVars, evCore, evHeard
<1>7. CASE TickInitAction
  BY <1>1, <1>2, <1>3, <1>7, StepsAssumption
     DEF TickInitAction, Scripted, TypeOK, toFsm, evVars, evCore, evHeard, ROS_STATE
<1>8. CASE TickPlan
  <2>1. PICK r \in FINAL_RESULT :
          /\ finalResult' = r
          /\ ReportResult(r)
          /\ state' = IF r \in Continuing THEN "PUB_ACTION" ELSE "FINISH"
          /\ newestAction' = IF r \in Continuing THEN "GO" ELSE newestAction
    BY <1>8 DEF TickPlan
  <2>2. [result |-> r, inc |-> inits] \in ResultMsg
    BY DEF TypeOK, ResultMsg
  <2>3. explQ' \in Queues(ResultMsg, QueueSize)
    BY <2>1, <2>2, PublishType DEF ReportResult, TypeOK
  <2> QED
    BY <1>1, <1>2, <1>3, <1>8, <2>1, <2>3
       DEF TickPlan, TypeOK, toFsm, evVars, evCore, evHeard, ROS_STATE
<1>9. CASE TickPub
  <2>1. [act |-> newestAction, inc |-> inits] \in ActionMsg
    BY <1>9 DEF TickPub, TypeOK, ActionMsg, Actions
  <2>2. actionQ' \in Queues(ActionMsg, QueueSize)
    BY <1>9, <2>1, PublishType DEF TickPub, TypeOK
  <2> QED
    BY <1>1, <1>2, <1>3, <1>9, <2>2
       DEF TickPub, TypeOK, fsmData, toFsm, evVars, evCore, evHeard, ROS_STATE
<1> QED
  BY <1>4, <1>5, <1>6, <1>7, <1>8, <1>9 DEF FSMCallback

(* Every subscriber callback of the planner.                               *)
LEMMA TypeFsmCallbacks == TypeInv /\ FsmCallbacks => TypeInv'
<1> SUFFICES ASSUME TypeInv, FsmCallbacks PROVE TypeInv'
  OBVIOUS
<1> USE Sizes DEF TypeInv, ActionChosen, StepsLeft
<1>1. CASE HabitatStateCallback
  <2>1. /\ habitatQ # <<>> /\ UNCHANGED <<evVars, toEval>>
        /\ Tail(habitatQ) \in Queues(HABITAT_STATE, QueueSize)
    BY <1>1, DeliverType DEF HabitatStateCallback, TypeOK
  <2>2. CASE ReInit
    <3>1. habitatQ' \in Queues(HABITAT_STATE, QueueSize)
      BY <2>1, <2>2, SuffixType DEF ReInit
    <3>2. odomQ' \in Queues(Pose, StatusQueueSize)
      BY <2>2, SuffixType DEF ReInit, TypeOK
    <3>3. confQ' \in 0..StatusQueueSize /\ trigQ' \in 0..StatusQueueSize
      BY <2>2 DEF ReInit, TypeOK
    <3>4. NoPose \in Pose
      BY DEF NoPose, Pose
    <3>5. haveOdom' \in BOOLEAN /\ haveConfidence' \in BOOLEAN /\ haveFinished' \in BOOLEAN
      BY <2>2, Zenon DEF ReInit
    <3> QED
      BY <2>1, <2>2, <3>1, <3>2, <3>3, <3>4, <3>5, StepsAssumption
         DEF ReInit, TypeOK, evVars, evCore, evHeard, toEval, ROS_STATE
  <2>3. CASE ~ReInit
    <3>1. /\ habitatQ' = Tail(habitatQ) /\ UNCHANGED <<fsmData, odomQ, confQ, trigQ>>
          /\ state' \in {state, "PLAN_ACTION"}
      BY <1>1, <2>3, Zenon DEF HabitatStateCallback
    <3> QED
      BY <2>1, <3>1 DEF TypeOK, evVars, evCore, evHeard, toEval, fsmData, ROS_STATE
  <2> QED
    BY <2>2, <2>3
<1>2. CASE OdometryCallback
  <2>1. Head(odomQ) \in Pose /\ Tail(odomQ) \in Queues(Pose, StatusQueueSize)
    BY <1>2, DeliverType DEF OdometryCallback, TypeOK
  <2> QED
    BY <1>2, <2>1 DEF OdometryCallback, TypeOK, evVars, evCore, evHeard, toEval
<1>3. CASE ConfidenceThresholdCallback
  BY <1>3 DEF ConfidenceThresholdCallback, TypeOK, evVars, evCore, evHeard, toEval
<1>4. CASE TriggerCallback
  BY <1>4 DEF TriggerCallback, TypeOK, evVars, evCore, evHeard, toEval, fsmData, ROS_STATE
<1> QED
  BY <1>1, <1>2, <1>3, <1>4 DEF FsmCallbacks

(* Every callback of the evaluator, its timer and the loss of an action.   *)
LEMMA TypeEvaluatorCallbacks ==
  TypeInv /\ (EvaluatorCallbacks \/ PublishObservations \/ LoseAction) => TypeInv'
<1> SUFFICES ASSUME TypeInv, EvaluatorCallbacks \/ PublishObservations \/ LoseAction
             PROVE TypeInv'
  OBVIOUS
<1> USE Sizes DEF TypeInv, ActionChosen, StepsLeft
<1>1. CASE ActionCallback
  <2>1. Head(actionQ) \in ActionMsg /\ Tail(actionQ) \in Queues(ActionMsg, QueueSize)
    BY <1>1, DeliverType DEF ActionCallback, ActionArrives, TypeOK
  <2> QED
    BY <1>1, <2>1 DEF ActionCallback, TypeOK, evCore, evHeard, fsmVars, fsmData, toFsm
<1>2. CASE RosStateCallback
  <2>1. Head(rosQ) \in ROS_STATE /\ Tail(rosQ) \in Queues(ROS_STATE, StatusQueueSize)
    BY <1>2, DeliverType DEF RosStateCallback, TypeOK
  <2> QED
    BY <1>2, <2>1 DEF RosStateCallback, TypeOK, evCore, evHeard, fsmVars, fsmData, toFsm
<1>3. CASE FinalStateCallback
  <2>1. Head(explQ) \in ResultMsg /\ Tail(explQ) \in Queues(ResultMsg, QueueSize)
    BY <1>3, DeliverType DEF FinalStateCallback, TypeOK
  <2> QED
    BY <1>3, <2>1 DEF FinalStateCallback, TypeOK, evCore, evHeard, fsmVars, fsmData, toFsm
<1>4. CASE PublishObservations
  <2>1. [episode |-> episode, step |-> 0] \in Pose
    BY DEF TypeOK, Pose
  <2>2. odomQ' \in Queues(Pose, StatusQueueSize)
    BY <1>4, <2>1, PublishType DEF PublishObservations, TypeOK
  <2>3. confQ' \in 0..StatusQueueSize /\ trigQ' \in 0..StatusQueueSize
    BY <1>4 DEF PublishObservations, Raise, TypeOK
  <2> QED
    BY <1>4, <2>2, <2>3
       DEF PublishObservations, TypeOK, evVars, evCore, evHeard, fsmVars, fsmData, toEval
<1>5. CASE LoseAction
  <2>1. Tail(actionQ) \in Queues(ActionMsg, QueueSize)
    BY <1>5, DeliverType DEF LoseAction, ActionArrives, TypeOK
  <2> QED
    BY <1>5, <2>1
       DEF LoseAction, TypeOK, evVars, evCore, evHeard, fsmVars, fsmData, toFsm
<1> QED
  BY <1>1, <1>2, <1>3, <1>4, <1>5 DEF EvaluatorCallbacks

(* Every step of the evaluator's main thread.                              *)
LEMMA TypeMainThread == TypeInv /\ MainThread => TypeInv'
<1> SUFFICES ASSUME TypeInv, MainThread PROVE TypeInv'
  OBVIOUS
<1> USE Sizes, StepsAssumption DEF TypeInv, ActionChosen, StepsLeft
<1>0. \A m \in HABITAT_STATE : Publish(habitatQ, m, QueueSize) \in Queues(HABITAT_STATE, QueueSize)
  BY PublishType DEF TypeOK
<1>1. CASE ResetEpisode
  <2>1. feasible' \in BOOLEAN /\ episodeOver' = FALSE /\ episodeOver' \in BOOLEAN
    BY <1>1, Zenon DEF ResetEpisode
  <2> QED
    BY <1>1, <2>1 DEF ResetEpisode, TypeOK, evHeard, fsmVars, fsmData, toFsm, toEval
<1>2. CASE ArmWait
  BY <1>2 DEF ArmWait, TypeOK, evCore, fsmVars, fsmData, toFsm, toEval, ROS_STATE
<1>3. CASE LeaveWait
  BY <1>3 DEF LeaveWait, TypeOK, evCore, evHeard, fsmVars, fsmData, toFsm, toEval
<1>4. CASE LeaveLoop
  BY <1>4 DEF LeaveLoop, TypeOK, evCore, evHeard, fsmVars, fsmData, toFsm, toEval
<1>5. CASE TakeAction
  <2>1. [act |-> "STOP", inc |-> episode] \in ActionMsg
    BY DEF TypeOK, ActionMsg, Actions
  <2> QED
    BY <1>5, <2>1
       DEF TakeAction, Polling, TypeOK, evCore, evHeard, fsmVars, fsmData, toFsm, toEval
<1>6. CASE TranslateAction
  BY <1>6 DEF TranslateAction, TypeOK, evCore, evHeard, fsmVars, fsmData, toFsm, toEval
<1>7. CASE ClearAction
  BY <1>7 DEF ClearAction, TypeOK, evCore, evHeard, fsmVars, fsmData, toFsm, toEval
<1>8. CASE StepEnv
  <2>1. countSteps' \in 0..MaxSteps
    BY <1>8 DEF StepEnv, TypeOK
  <2>2. [episode |-> episode, step |-> countSteps'] \in Pose
    BY <2>1 DEF TypeOK, Pose
  <2>3. odomQ' \in Queues(Pose, StatusQueueSize)
    BY <1>8, <2>2, PublishType DEF StepEnv, TypeOK
  <2>4. habitatQ' \in Queues(HABITAT_STATE, QueueSize)
    BY <1>0, <1>8 DEF StepEnv, HABITAT_STATE
  <2>5. episodeOver' = (takenAction.act = "STOP" \/ countSteps' = MaxSteps)
    BY <1>8 DEF StepEnv
  <2>6. episodeOver' \in BOOLEAN /\ (countSteps' = MaxSteps => episodeOver')
    BY <2>5, Zenon
  <2> QED
    BY <1>8, <2>1, <2>3, <2>4, <2>6 DEF StepEnv, TypeOK, evHeard, fsmVars, fsmData, toEval
<1>9. CASE FinishAction
  BY <1>0, <1>9
     DEF FinishAction, TypeOK, evCore, evHeard, fsmVars, fsmData, toEval, HABITAT_STATE
<1>10. CASE PollIdle
  BY <1>10 DEF PollIdle, Polling, TypeOK, evCore, evHeard, fsmVars, fsmData, toFsm, toEval
<1>11. CASE Heartbeat
  BY <1>0, <1>11
     DEF Heartbeat, TypeOK, evVars, evCore, evHeard, fsmVars, fsmData, toEval, HABITAT_STATE
<1>12. CASE ReportEpisode
  BY <1>0, <1>12
     DEF ReportEpisode, TypeOK, evCore, evHeard, fsmVars, fsmData, toEval, HABITAT_STATE
<1> QED
  BY <1>1, <1>2, <1>3, <1>4, <1>5, <1>6, <1>7, <1>8, <1>9, <1>10, <1>11, <1>12 DEF MainThread

(* Nothing happens.                                                        *)
LEMMA TypeStutter == TypeInv /\ UNCHANGED vars => TypeInv'
BY DEF TypeInv, TypeOK, StepsLeft, ActionChosen, vars, evVars, evCore, evHeard,
       fsmVars, fsmData, toFsm, toEval

(* The variables of the protocol hold values of their types: no topic      *)
(* outgrows its queue and no episode takes more steps than the limit.      *)
THEOREM TypeCorrect == Spec => []TypeOK
<1>1. TypeInv /\ [Next]_vars => TypeInv'
  BY TypeTick, TypeFsmCallbacks, TypeEvaluatorCallbacks, TypeMainThread, TypeStutter DEF Next
<1>2. TypeInv => TypeOK
  BY DEF TypeInv
<1> QED
  BY TypeInit, <1>1, <1>2, PTL DEF Spec

(***************************************************************************)
(* Episodes do not mix.  This much needs only that the evaluator's work    *)
(* between two episodes outlasts the planner's reaction to EPISODE_FINISH: *)
(* whatever order messages are handled in, and however early the watchdog  *)
(* fires.                                                                  *)
(***************************************************************************)

(* While an episode runs, planner, topics and slot belong to it.           *)
Running == evPc \notin {"Reset", "Done"}
OwnAction == [act : Actions, inc : {episode}]

ThisEpisode ==
  Running =>
    /\ inits = episode
    /\ habitatQ \in Queues({"ACTION_EXEC", "ACTION_FINISH"}, QueueSize)
    /\ actionQ \in Queues(OwnAction, QueueSize)
    /\ globalAction \in OwnAction \cup {NoAction}
    /\ evPc \in {"Clear", "Step", "Finish"} => takenAction \in OwnAction
    /\ evPc = "Translate" => globalAction # NoAction

(* The evaluator still waits for a planner that has not been triggered,    *)
(* and will hear of no state that ends the wait before it is.              *)
Waiting == {"INIT", "WAIT_TRIGGER"}

Awaited ==
  Running /\ state \in Waiting =>
    /\ evPc \in {"ArmWait", "WaitReady"}
    /\ rosQ \in Queues(Waiting, StatusQueueSize)
    /\ evPc = "WaitReady" => rosState \in Waiting

EpisodeInv == TypeInv /\ ThisEpisode /\ Awaited

(* No action on its way is mistaken for an empty slot.                     *)
LEMMA RealAction == \A m \in ActionMsg : m # NoAction
BY DEF ActionMsg, NoAction, Actions

(* Every tick of the planner.                                              *)
LEMMA EpisodeTick == EpisodeInv /\ FSMCallback => (ThisEpisode /\ Awaited)'
<1> SUFFICES ASSUME EpisodeInv, FSMCallback PROVE (ThisEpisode /\ Awaited)'
  OBVIOUS
<1> USE Sizes DEF EpisodeInv
<1>1. UNCHANGED <<evVars, toFsm, inits>> /\ PublishState
  BY DEF FSMCallback, TickInit, TickIdle, TickFinish, TickInitAction, TickPlan, TickPub,
         fsmVars, fsmData
<1>2. UNCHANGED <<habitatQ, globalAction, takenAction, evPc, episode, rosState>>
  BY <1>1 DEF evVars, evCore, evHeard, toFsm
<1>3. \/ actionQ' = actionQ
      \/ \E m \in ActionMsg : m.inc = inits /\ actionQ' = Publish(actionQ, m, QueueSize)
  <2>1. CASE TickFinish
    <3>1. [act |-> "STOP", inc |-> inits] \in ActionMsg
      BY DEF TypeInv, TypeOK, ActionMsg, Actions
    <3> QED
      BY <2>1, <3>1 DEF TickFinish
  <2>2. CASE TickPub
    <3>1. [act |-> newestAction, inc |-> inits] \in ActionMsg
      BY <2>2 DEF TickPub, TypeInv, TypeOK, ActionChosen, ActionMsg, Actions
    <3> QED
      BY <2>2, <3>1 DEF TickPub
  <2> QED
    BY <2>1, <2>2 DEF FSMCallback, TickInit, TickIdle, TickInitAction, TickPlan
<1>4. ThisEpisode'
  <2> SUFFICES ASSUME Running PROVE actionQ' \in Queues(OwnAction, QueueSize)
    BY <1>1, <1>2 DEF ThisEpisode, Running, OwnAction
  <2>1. actionQ \in Queues(OwnAction, QueueSize)
    BY DEF ThisEpisode
  <2>2. ASSUME NEW m \in ActionMsg, m.inc = inits PROVE m \in OwnAction
    BY <2>2 DEF ThisEpisode, OwnAction, ActionMsg
  <2> QED
    BY <1>3, <2>1, <2>2, PublishType
<1>5. state' \in Waiting => state \in Waiting
  BY Zenon DEF FSMCallback, TickInit, TickIdle, TickFinish, TickInitAction, TickPlan, TickPub,
         Waiting, fsmVars
<1>6. Awaited'
  <2> SUFFICES ASSUME Running, state \in Waiting
               PROVE  rosQ' \in Queues(Waiting, StatusQueueSize)
    BY <1>2, <1>5 DEF Awaited, Running
  <2>1. rosQ \in Queues(Waiting, StatusQueueSize)
    BY DEF Awaited
  <2> QED
    BY <1>1, <2>1, PublishType DEF PublishState
<1> QED
  BY <1>4, <1>6

(* Every subscriber callback of the planner: EPISODE_FINISH finds the      *)
(* evaluator between two episodes.                                         *)
LEMMA EpisodeFsmCallbacks == EpisodeInv /\ FsmCallbacks => (ThisEpisode /\ Awaited)'
<1> SUFFICES ASSUME EpisodeInv, FsmCallbacks PROVE (ThisEpisode /\ Awaited)'
  OBVIOUS
<1> USE Sizes DEF EpisodeInv
<1>1. UNCHANGED <<evVars, toEval>>
  BY DEF FsmCallbacks, HabitatStateCallback, OdometryCallback, ConfidenceThresholdCallback,
         TriggerCallback
<1>2. UNCHANGED <<evPc, episode, globalAction, takenAction, rosState, actionQ, rosQ>>
  BY <1>1 DEF evVars, evCore, evHeard, toEval
<1>3. CASE ~Running
  BY <1>2, <1>3 DEF ThisEpisode, Awaited, Running
<1>4. CASE Running
  <2>1. habitatQ \in Queues({"ACTION_EXEC", "ACTION_FINISH"}, QueueSize)
    BY <1>4 DEF ThisEpisode
  <2>2. habitatQ' \in Queues({"ACTION_EXEC", "ACTION_FINISH"}, QueueSize) /\ inits' = inits
        /\ (state' = state \/ state' = "PLAN_ACTION")
    <3>1. CASE HabitatStateCallback
      <4>1. habitatQ # <<>>
        BY <3>1 DEF HabitatStateCallback
      <4>2. /\ Head(habitatQ) \in {"ACTION_EXEC", "ACTION_FINISH"}
            /\ Tail(habitatQ) \in Queues({"ACTION_EXEC", "ACTION_FINISH"}, QueueSize)
        BY <2>1, <4>1, DeliverType
      <4>3. /\ habitatQ' = Tail(habitatQ) /\ UNCHANGED fsmData
            /\ (state' = state \/ state' = "PLAN_ACTION")
        <5>1. Head(habitatQ) # "EPISODE_FINISH"
          BY <4>2
        <5> QED
          BY <3>1, <5>1, Zenon DEF HabitatStateCallback
      <4> QED
        BY <4>2, <4>3 DEF fsmData
    <3>2. CASE OdometryCallback \/ ConfidenceThresholdCallback
      BY <2>1, <3>2 DEF OdometryCallback, ConfidenceThresholdCallback
    <3>3. CASE TriggerCallback
      BY <2>1, <3>3 DEF TriggerCallback, fsmData
    <3> QED
      BY <3>1, <3>2, <3>3 DEF FsmCallbacks
  <2>3. ThisEpisode'
    BY <1>2, <2>2 DEF ThisEpisode, Running, OwnAction
  <2>4. Awaited'
    BY <1>2, <2>2 DEF Awaited, Running, Waiting
  <2> QED
    BY <2>3, <2>4
<1> QED
  BY <1>3, <1>4

(* Every callback of the evaluator, its timer and the loss of an action.   *)
LEMMA EpisodeEvaluatorCallbacks ==
  EpisodeInv /\ (EvaluatorCallbacks \/ PublishObservations \/ LoseAction)
    => (ThisEpisode /\ Awaited)'
<1> SUFFICES ASSUME EpisodeInv, EvaluatorCallbacks \/ PublishObservations \/ LoseAction
             PROVE  (ThisEpisode /\ Awaited)'
  OBVIOUS
<1> USE Sizes DEF EpisodeInv
<1>1. UNCHANGED <<evPc, evCore, takenAction, fsmVars, habitatQ>>
  BY DEF EvaluatorCallbacks, ActionCallback, RosStateCallback, FinalStateCallback,
         PublishObservations, LoseAction, evVars, toFsm
<1>2. UNCHANGED <<evPc, episode, takenAction, state, inits, habitatQ>>
  BY <1>1 DEF evCore, fsmVars, fsmData
<1>3. \/ UNCHANGED <<actionQ, globalAction>>
      \/ /\ actionQ # <<>> /\ actionQ' = Tail(actionQ)
         /\ globalAction' \in {globalAction, Head(actionQ)}
  BY DEF EvaluatorCallbacks, ActionCallback, RosStateCallback, FinalStateCallback,
         PublishObservations, LoseAction, ActionArrives, evVars, toEval
<1>4. \/ UNCHANGED <<rosQ, rosState>>
      \/ rosQ # <<>> /\ rosState' = Head(rosQ) /\ rosQ' = Tail(rosQ)
  BY DEF EvaluatorCallbacks, ActionCallback, RosStateCallback, FinalStateCallback,
         PublishObservations, LoseAction, evVars, evHeard, toEval
<1>5. ThisEpisode'
  <2> SUFFICES ASSUME Running PROVE ThisEpisode'
    BY <1>2 DEF ThisEpisode, Running
  <2>1. CASE UNCHANGED <<actionQ, globalAction>>
    BY <1>2, <2>1 DEF ThisEpisode, Running, OwnAction
  <2>2. CASE actionQ # <<>> /\ actionQ' = Tail(actionQ)
             /\ globalAction' \in {globalAction, Head(actionQ)}
    <3>1. Head(actionQ) \in OwnAction /\ Tail(actionQ) \in Queues(OwnAction, QueueSize)
      BY <2>2, DeliverType DEF ThisEpisode
    <3>2. Head(actionQ) # NoAction
      BY <3>1, <2>2, DeliverType, RealAction DEF TypeInv, TypeOK
    <3> QED
      BY <1>2, <2>2, <3>1, <3>2 DEF ThisEpisode, Running, OwnAction
  <2> QED
    BY <1>3, <2>1, <2>2
<1>6. Awaited'
  <2>1. ASSUME Running, state \in Waiting
        PROVE  /\ rosQ' \in Queues(Waiting, StatusQueueSize)
               /\ rosState' \in Waiting \cup {rosState}
    <3>1. rosQ \in Queues(Waiting, StatusQueueSize)
      BY <2>1 DEF Awaited
    <3>2. rosQ # <<>> => /\ Head(rosQ) \in Waiting
                         /\ Tail(rosQ) \in Queues(Waiting, StatusQueueSize)
      BY <3>1, DeliverType
    <3> QED
      BY <1>4, <3>1, <3>2
  <2> QED
    BY <1>2, <2>1 DEF Awaited, Running
<1> QED
  BY <1>5, <1>6

(* Between two episodes, and while it waits for the planner to be ready.   *)
LEMMA EpisodeBeforeActions ==
  ASSUME SettledReset
  PROVE  EpisodeInv /\ (ResetEpisode \/ ArmWait \/ LeaveWait \/ LeaveLoop)
           => (ThisEpisode /\ Awaited)'
<1> SUFFICES ASSUME EpisodeInv, ResetEpisode \/ ArmWait \/ LeaveWait \/ LeaveLoop
             PROVE  (ThisEpisode /\ Awaited)'
  OBVIOUS
<1> USE Sizes DEF EpisodeInv
<1>1. CASE ResetEpisode
  <2>1. PlannerSettled /\ episode' = episode + 1 /\ globalAction' = NoAction /\ evPc' = "ArmWait"
        /\ UNCHANGED <<fsmVars, toFsm, toEval>>
    BY <1>1 DEF ResetEpisode
  <2>2. /\ inits' = episode' /\ habitatQ' = <<>> /\ actionQ' = <<>>
        /\ rosQ \in Seq({"INIT"}) /\ rosQ' = rosQ
    BY <2>1 DEF PlannerSettled, fsmVars, fsmData, toFsm, toEval
  <2>3. /\ habitatQ' \in Queues({"ACTION_EXEC", "ACTION_FINISH"}, QueueSize)
        /\ actionQ' \in Queues(OwnAction, QueueSize)'
    BY <2>2 DEF Queues
  <2>4. rosQ' \in Queues(Waiting, StatusQueueSize)
    BY <2>2 DEF TypeInv, TypeOK, Queues, Waiting
  <2> QED
    BY <2>1, <2>2, <2>3, <2>4 DEF ThisEpisode, Awaited
<1>2. CASE ArmWait \/ LeaveWait \/ LeaveLoop
  <2>1. UNCHANGED <<evCore, globalAction, takenAction, fsmVars, toFsm, toEval>>
    BY <1>2 DEF ArmWait, LeaveWait, LeaveLoop
  <2>2. UNCHANGED <<episode, globalAction, takenAction, state, inits, habitatQ, actionQ, rosQ>>
    BY <2>1 DEF evCore, fsmVars, fsmData, toFsm, toEval
  <2>3. /\ evPc \in {"ArmWait", "WaitReady", "Poll"} /\ evPc' \in {"WaitReady", "Poll", "Report"}
        /\ evPc' = "WaitReady" => rosState' = "INIT"
        /\ evPc = "WaitReady" => rosState \notin Waiting
        /\ evPc = "ArmWait" => evPc' = "WaitReady"
    BY <1>2 DEF ArmWait, LeaveWait, LeaveLoop, Waiting
  <2>4. ThisEpisode'
    BY <2>2, <2>3 DEF ThisEpisode, Running, OwnAction
  <2>5. Awaited'
    BY <2>2, <2>3 DEF Awaited, Running, Waiting
  <2> QED
    BY <2>4, <2>5
<1> QED
  BY <1>1, <1>2

(* The evaluator polls, takes and executes actions and reports.            *)
LEMMA EpisodeActions ==
  EpisodeInv /\ (TakeAction \/ TranslateAction \/ ClearAction \/ StepEnv \/ FinishAction
                   \/ PollIdle \/ Heartbeat \/ ReportEpisode)
    => (ThisEpisode /\ Awaited)'
<1> SUFFICES ASSUME EpisodeInv,
                    TakeAction \/ TranslateAction \/ ClearAction \/ StepEnv \/ FinishAction
                      \/ PollIdle \/ Heartbeat \/ ReportEpisode
             PROVE  (ThisEpisode /\ Awaited)'
  OBVIOUS
<1> USE Sizes DEF EpisodeInv
<1>1. /\ UNCHANGED <<episode, fsmVars, toEval>>
      /\ evPc \in {"Poll", "Translate", "Clear", "Step", "Finish", "Report"}
  BY DEF TakeAction, TranslateAction, ClearAction, StepEnv, FinishAction, PollIdle, Heartbeat,
         ReportEpisode, Polling, evVars, evCore
<1>2. UNCHANGED <<state, inits, actionQ>> /\ Running
  BY <1>1 DEF fsmVars, fsmData, toEval, Running
<1>3. Awaited'
  BY <1>1, <1>2 DEF Awaited
<1>4. CASE ReportEpisode
  <2>1. ~Running'
    BY <1>4 DEF ReportEpisode, Running
  <2> QED
    BY <1>3, <2>1 DEF ThisEpisode
<1>5. CASE TakeAction \/ TranslateAction \/ ClearAction \/ PollIdle
  <2>1. UNCHANGED habitatQ
    BY <1>5 DEF TakeAction, TranslateAction, ClearAction, PollIdle, toFsm
  <2>2. globalAction' \in OwnAction \cup {NoAction}
    BY <1>2, <1>5 DEF ThisEpisode, OwnAction, Actions, TakeAction, TranslateAction, ClearAction,
       PollIdle
  <2>3. /\ evPc' \in {"Clear", "Step", "Finish"} => takenAction' \in OwnAction
        /\ evPc' = "Translate" => globalAction' # NoAction
    BY <1>2, <1>5 DEF ThisEpisode, NoAction, TakeAction, TranslateAction, ClearAction,
       PollIdle, Polling
  <2> QED
    BY <1>1, <1>2, <1>3, <2>1, <2>2, <2>3 DEF ThisEpisode, OwnAction
<1>6. CASE StepEnv \/ FinishAction \/ Heartbeat
  <2>1. /\ UNCHANGED <<globalAction, takenAction>>
        /\ evPc' \in {"Finish", "Poll"} /\ (evPc' = "Finish" => evPc = "Step")
        /\ \E m \in {"ACTION_EXEC", "ACTION_FINISH"} : habitatQ' = Publish(habitatQ, m, QueueSize)
    BY <1>6 DEF StepEnv, FinishAction, Heartbeat, Polling, evVars
  <2>2. habitatQ' \in Queues({"ACTION_EXEC", "ACTION_FINISH"}, QueueSize)
    BY <1>2, <2>1, PublishType DEF ThisEpisode
  <2> QED
    BY <1>1, <1>2, <1>3, <2>1, <2>2 DEF ThisEpisode, OwnAction
<1> QED
  BY <1>4, <1>5, <1>6

(* The initial state.                                                      *)
LEMMA EpisodeInit == Init => EpisodeInv
BY TypeInit DEF Init, EpisodeInv, ThisEpisode, Awaited, Running

(* The invariant is inductive.                                             *)
LEMMA EpisodeInductive ==
  ASSUME SettledReset
  PROVE  EpisodeInv /\ [Next]_vars => EpisodeInv'
<1>1. EpisodeInv /\ Next => (ThisEpisode /\ Awaited)'
  BY EpisodeTick, EpisodeFsmCallbacks, EpisodeEvaluatorCallbacks, EpisodeBeforeActions,
     EpisodeActions DEF Next, MainThread
<1>2. EpisodeInv /\ Next => TypeInv'
  BY TypeTick, TypeFsmCallbacks, TypeEvaluatorCallbacks, TypeMainThread DEF Next, EpisodeInv
<1>3. EpisodeInv /\ UNCHANGED vars => EpisodeInv'
  BY TypeStutter DEF EpisodeInv, ThisEpisode, Awaited, Running, OwnAction, vars, evVars, evCore,
     evHeard, fsmVars, fsmData, toFsm, toEval
<1> QED
  BY <1>1, <1>2, <1>3 DEF EpisodeInv

(* It holds in every reachable state.                                      *)
LEMMA EpisodeInvariant ==
  ASSUME SettledReset
  PROVE  Spec => []EpisodeInv
<1>1. EpisodeInv /\ [Next]_vars => EpisodeInv'
  BY EpisodeInductive
<1> QED
  BY EpisodeInit, <1>1, PTL DEF Spec

(* An action is executed in the episode it was planned in: one that the    *)
(* planner issues after the last step of an episode never reaches the next.*)
THEOREM NoStaleActionHolds ==
  ASSUME SettledReset
  PROVE  Spec => []NoStaleAction
<1>1. EpisodeInv => NoStaleAction
  BY DEF EpisodeInv, ThisEpisode, Running, OwnAction, NoStaleAction
<1> QED
  BY EpisodeInvariant, <1>1, PTL

(* The evaluator polls for actions only of a planner that has been         *)
(* initialised and triggered for this very episode.                        *)
THEOREM ReadyForThisEpisodeHolds ==
  ASSUME SettledReset
  PROVE  Spec => []ReadyForThisEpisode
<1>1. EpisodeInv => ReadyForThisEpisode
  BY DEF EpisodeInv, ThisEpisode, Awaited, Running, Waiting, ReadyForThisEpisode
<1> QED
  BY EpisodeInvariant, <1>1, PTL

(***************************************************************************)
(* One turn at a time: the inductive invariant.                            *)
(***************************************************************************)

(* At most one, and no ACTION_FINISH is under way.                         *)
Lone(q) == \A i, j \in DOMAIN q : q[i] = "ACTION_FINISH" /\ q[j] = "ACTION_FINISH" => i = j
Silent == habitatQ \in Queues({"ACTION_EXEC", "EPISODE_FINISH"}, QueueSize)

(* OneTurn, place by place.                                                *)
LoneTurn ==
  /\ Lone(habitatQ)
  /\ Len(actionQ) <= 1
  /\ actionQ # <<>> => Silent
  /\ PlannerBusy => Silent /\ actionQ = <<>> /\ ~EvaluatorBusy /\ ~SlotFull
  /\ EvaluatorBusy => Silent /\ actionQ = <<>> /\ ~SlotFull
  /\ SlotFull => Silent /\ actionQ = <<>>

(* A planner that can be triggered finds no turn anywhere, and none can be *)
(* triggered between two episodes.                                         *)
Untriggered ==
  state \in Waiting =>
    \/ /\ evPc \in {"ArmWait", "WaitReady"}
       /\ Silent /\ actionQ = <<>> /\ globalAction = NoAction
    \/ /\ evPc \in {"Reset", "Done"}
       /\ state = "INIT" /\ confQ = 0 /\ ~haveConfidence

TurnInv == EpisodeInv /\ LoneTurn /\ Untriggered

(***************************************************************************)
(* Lemmas about the announcements in /habitat/state.                       *)
(***************************************************************************)

(* Whatever is published on a silent topic, at most one ACTION_FINISH is   *)
(* under way.                                                              *)
LEMMA LoneAfterSilence ==
  ASSUME NEW m \in HABITAT_STATE, Silent
  PROVE  Lone(Publish(habitatQ, m, QueueSize))
<1>1. habitatQ \in Seq({"ACTION_EXEC", "EPISODE_FINISH"}) /\ Len(habitatQ) \in Nat
  BY DEF Silent, Queues
<1>2. \A i \in DOMAIN habitatQ : habitatQ[i] # "ACTION_FINISH"
  BY <1>1
<1>3. CASE Len(habitatQ) < QueueSize
  BY <1>1, <1>2, <1>3 DEF Lone, Publish
<1>4. CASE ~(Len(habitatQ) < QueueSize)
  <2>1. habitatQ # <<>>
    BY <1>1, <1>4, Sizes
  <2>2. Tail(habitatQ) \in Seq({"ACTION_EXEC", "EPISODE_FINISH"})
    BY <1>1, <2>1
  <2>3. \A i \in DOMAIN Tail(habitatQ) : Tail(habitatQ)[i] # "ACTION_FINISH"
    BY <2>2
  <2> QED
    BY <1>4, <2>2, <2>3 DEF Lone, Publish
<1> QED
  BY <1>3, <1>4

(* Delivering a message leaves at most one announcement, and none if it    *)
(* was one.                                                                *)
LEMMA LoneTail ==
  ASSUME NEW q \in Queues(HABITAT_STATE, QueueSize), q # <<>>, Lone(q)
  PROVE  /\ Lone(Tail(q))
         /\ Head(q) = "ACTION_FINISH" =>
              Tail(q) \in Queues({"ACTION_EXEC", "EPISODE_FINISH"}, QueueSize)
<1>1. q \in Seq(HABITAT_STATE) /\ Len(q) \in Nat \ {0} /\ Len(q) <= QueueSize
  BY DEF Queues
<1>2. /\ Tail(q) \in Seq(HABITAT_STATE) /\ Len(Tail(q)) = Len(q) - 1
      /\ \A i \in 1..(Len(q) - 1) : Tail(q)[i] = q[i + 1]
  BY <1>1
<1>3. Lone(Tail(q))
  BY <1>1, <1>2 DEF Lone
<1>4. ASSUME Head(q) = "ACTION_FINISH"
      PROVE  Tail(q) \in Queues({"ACTION_EXEC", "EPISODE_FINISH"}, QueueSize)
  <2>1. q[1] = "ACTION_FINISH"
    BY <1>1, <1>4
  <2>2. \A i \in 2..Len(q) : q[i] \in {"ACTION_EXEC", "EPISODE_FINISH"}
    <3> SUFFICES ASSUME NEW i \in 2..Len(q)
                 PROVE  q[i] \in {"ACTION_EXEC", "EPISODE_FINISH"}
      OBVIOUS
    <3> QED
      BY <1>1, <2>1 DEF Lone, HABITAT_STATE
  <2>3. SubSeq(q, 2, Len(q)) \in Seq({"ACTION_EXEC", "EPISODE_FINISH"})
    BY <1>1, <2>2, SubSeqProperties
  <2>4. Tail(q) = SubSeq(q, 2, Len(q))
    BY <1>1, TailIsSubSeq
  <2>5. Tail(q) \in Seq({"ACTION_EXEC", "EPISODE_FINISH"})
    BY <2>3, <2>4, Zenon
  <2>6. Len(Tail(q)) <= QueueSize
    BY <1>1, <1>2, Sizes
  <2> QED
    BY <2>5, <2>6 DEF Queues
<1> QED
  BY <1>3, <1>4

(* Publishing anything else announces nothing.                             *)
LEMMA LoneOther ==
  ASSUME NEW q \in Queues(HABITAT_STATE, QueueSize), Lone(q),
         NEW m \in HABITAT_STATE, m # "ACTION_FINISH"
  PROVE  Lone(Publish(q, m, QueueSize))
<1>1. q \in Seq(HABITAT_STATE) /\ Len(q) \in Nat
  BY DEF Queues
<1>2. CASE Len(q) < QueueSize
  BY <1>1, <1>2 DEF Lone, Publish
<1>3. CASE ~(Len(q) < QueueSize)
  <2>1. q # <<>>
    BY <1>1, <1>3, Sizes
  <2>2. Tail(q) \in Seq(HABITAT_STATE) /\ Lone(Tail(q))
    BY <1>1, <2>1, LoneTail
  <2> QED
    BY <1>3, <2>2 DEF Lone, Publish
<1> QED
  BY <1>2, <1>3

(* Nor do the messages that a re-made subscriber still receives.           *)
LEMMA LoneSuffix ==
  ASSUME NEW q \in Queues(HABITAT_STATE, QueueSize), Lone(q), NEW r \in Suffixes(q)
  PROVE  Lone(r)
<1>1. PICK i \in 1..(Len(q) + 1) : r = SubSeq(q, i, Len(q))
  BY DEF Suffixes
<1>2. q \in Seq(HABITAT_STATE) /\ Len(q) \in Nat
  BY DEF Queues
<1>3. DOMAIN r = 1..(Len(q) - i + 1) /\ \A k \in 1..(Len(q) - i + 1) : r[k] = q[i + k - 1]
  BY <1>1, <1>2
<1>4. \A k \in 1..(Len(q) - i + 1) : i + k - 1 \in DOMAIN q
  BY <1>2
<1> QED
  BY <1>2, <1>3, <1>4 DEF Lone

(***************************************************************************)
(* Every step preserves the invariant.                                     *)
(***************************************************************************)

(* A topic that carries at most one action is empty once it is delivered   *)
(* and one that carries none has room for one.                             *)
LEMMA OneAction ==
  /\ \A q \in Queues(ActionMsg, QueueSize) : q # <<>> /\ Len(q) <= 1 => Tail(q) = <<>>
  /\ \A m : Publish(<<>>, m, QueueSize) = <<m>>
<1>1. ASSUME NEW q \in Queues(ActionMsg, QueueSize), q # <<>>, Len(q) <= 1
      PROVE  Tail(q) = <<>>
  <2>1. q \in Seq(ActionMsg) /\ q # <<>> /\ Len(q) <= 1
    BY <1>1 DEF Queues
  <2>2. Len(q) \in Nat /\ Len(q) # 0
    BY <2>1
  <2>3. Len(q) = 1
    <3>1. \A n \in Nat : n # 0 /\ n <= 1 => n = 1
      OBVIOUS
    <3> QED
      BY <2>1, <2>2, <3>1, Zenon
  <2>4. Tail(q) \in Seq(ActionMsg) /\ Len(Tail(q)) = 0
    BY <2>1, <2>3
  <2> QED
    BY <2>4, EmptySeq
<1>2. \A m : Publish(<<>>, m, QueueSize) = <<m>>
  BY Sizes DEF Publish
<1> QED
  BY <1>1, <1>2

(* Every tick of the planner.                                              *)
LEMMA TurnTick == TurnInv /\ FSMCallback => (LoneTurn /\ Untriggered)'
<1> SUFFICES ASSUME TurnInv, FSMCallback PROVE (LoneTurn /\ Untriggered)'
  OBVIOUS
<1> USE Sizes DEF TurnInv, EpisodeInv
<1>1. UNCHANGED <<evVars, toFsm, inits>>
  BY DEF FSMCallback, TickInit, TickIdle, TickFinish, TickInitAction, TickPlan, TickPub,
         fsmVars, fsmData
<1>2. UNCHANGED <<habitatQ, globalAction, takenAction, evPc, episode, confQ, rosState>>
  BY <1>1 DEF evVars, evCore, evHeard, toFsm
<1>3. (Silent' <=> Silent) /\ (EvaluatorBusy' <=> EvaluatorBusy) /\ (SlotFull' <=> SlotFull)
      /\ (Lone(habitatQ)' <=> Lone(habitatQ))
  BY <1>2 DEF Silent, EvaluatorBusy, SlotFull, Lone
<1>4. state \in Waiting => UNCHANGED <<actionQ, haveConfidence>>
  BY DEF FSMCallback, TickInit, TickIdle, TickFinish, TickInitAction, TickPlan, TickPub,
         Waiting, fsmVars, fsmData
<1>5. state' \in Waiting =>
        state \in Waiting /\ (state = "INIT" /\ ~haveConfidence => state' = "INIT")
  BY Zenon DEF FSMCallback, TickInit, TickIdle, TickFinish, TickInitAction, TickPlan, TickPub,
         Waiting, fsmVars, fsmData
<1>6. Untriggered'
  BY <1>2, <1>3, <1>4, <1>5 DEF Untriggered
<1>7. ASSUME PlannerBusy, ~PlannerBusy', UNCHANGED inits,
             \E m \in ActionMsg : m.inc = inits /\ actionQ' = Publish(actionQ, m, QueueSize)
      PROVE  LoneTurn'
  <2>1. actionQ = <<>> /\ Silent /\ ~EvaluatorBusy /\ ~SlotFull
    BY <1>7 DEF LoneTurn
  <2>2. PICK m \in ActionMsg : m.inc = inits /\ actionQ' = <<m>>
    BY <1>7, <2>1, OneAction
  <2>3. Len(actionQ') = 1
    BY <2>2
  <2>4. Lone(habitatQ)' /\ Silent' /\ ~PlannerBusy' /\ ~EvaluatorBusy' /\ ~SlotFull'
    BY <1>3, <1>7, <2>1 DEF LoneTurn
  <2> QED
    BY <2>3, <2>4 DEF LoneTurn
<1>8. ASSUME UNCHANGED actionQ, PlannerBusy' => PlannerBusy
      PROVE  LoneTurn'
  BY <1>3, <1>8 DEF LoneTurn
<1>9. CASE TickInit
  <2>1. UNCHANGED actionQ
    BY <1>9 DEF TickInit
  <2>2. ~PlannerBusy'
    BY <1>9, Zenon DEF TickInit, PlannerBusy
  <2> QED
    BY <1>6, <1>8, <2>1, <2>2
<1>10. CASE TickIdle
  <2>1. UNCHANGED <<actionQ, state, haveFinished>>
    BY <1>10 DEF TickIdle, fsmVars, fsmData
  <2>2. PlannerBusy' <=> PlannerBusy
    BY <2>1 DEF PlannerBusy
  <2> QED
    BY <1>6, <1>8, <2>1, <2>2
<1>11. CASE TickFinish
  <2>1. [act |-> "STOP", inc |-> inits] \in ActionMsg
    BY DEF TypeInv, TypeOK, ActionMsg, Actions
  <2>2. state = "FINISH" /\ ~haveFinished /\ haveFinished' /\ UNCHANGED <<state, inits>>
    BY <1>11, Zenon DEF TickFinish
  <2>3. PlannerBusy /\ ~PlannerBusy'
    BY <2>2, Zenon DEF PlannerBusy
  <2>4. actionQ' = Publish(actionQ, [act |-> "STOP", inc |-> inits], QueueSize)
    BY <1>11 DEF TickFinish
  <2>5. \E m \in ActionMsg : m.inc = inits /\ actionQ' = Publish(actionQ, m, QueueSize)
    BY <2>1, <2>4
  <2> QED
    BY <1>6, <1>7, <2>2, <2>3, <2>5
<1>12. CASE TickInitAction
  <2>1. UNCHANGED actionQ
    BY <1>12 DEF TickInitAction
  <2>2. PlannerBusy
    BY <1>12 DEF TickInitAction, PlannerBusy
  <2> QED
    BY <1>6, <1>8, <2>1, <2>2
<1>13. CASE TickPlan
  <2>1. UNCHANGED actionQ
    BY <1>13 DEF TickPlan
  <2>2. PlannerBusy
    BY <1>13 DEF TickPlan, PlannerBusy
  <2> QED
    BY <1>6, <1>8, <2>1, <2>2
<1>14. CASE TickPub
  <2>1. [act |-> newestAction, inc |-> inits] \in ActionMsg
    BY <1>14 DEF TickPub, TypeInv, TypeOK, ActionChosen, ActionMsg, Actions
  <2>2. PlannerBusy
    BY <1>14 DEF TickPub, PlannerBusy
  <2>3. state' = "WAIT_ACTION_FINISH" /\ UNCHANGED inits
    BY <1>14 DEF TickPub, fsmData
  <2>4. ~PlannerBusy'
    BY <2>3 DEF PlannerBusy
  <2>5. actionQ' = Publish(actionQ, [act |-> newestAction, inc |-> inits], QueueSize)
    BY <1>14 DEF TickPub
  <2>6. \E m \in ActionMsg : m.inc = inits /\ actionQ' = Publish(actionQ, m, QueueSize)
    BY <2>1, <2>5
  <2> QED
    BY <1>6, <1>7, <2>2, <2>3, <2>4, <2>6
<1>15. LoneTurn'
  BY <1>9, <1>10, <1>11, <1>12, <1>13, <1>14 DEF FSMCallback
<1> QED
  BY <1>6, <1>15

(* A topic on which nothing is announced stays so as messages are handled. *)
LEMMA SilentSuffix ==
  ASSUME Silent, habitatQ # <<>>
  PROVE  /\ Tail(habitatQ) \in Queues({"ACTION_EXEC", "EPISODE_FINISH"}, QueueSize)
         /\ \A r \in Suffixes(Tail(habitatQ)) :
              r \in Queues({"ACTION_EXEC", "EPISODE_FINISH"}, QueueSize)
         /\ Head(habitatQ) # "ACTION_FINISH"
<1>1. /\ Tail(habitatQ) \in Queues({"ACTION_EXEC", "EPISODE_FINISH"}, QueueSize)
      /\ Head(habitatQ) \in {"ACTION_EXEC", "EPISODE_FINISH"}
  BY DeliverType, Sizes DEF Silent
<1> QED
  BY <1>1, SuffixType, Sizes

(* EPISODE_FINISH finds the evaluator between two episodes.                *)
LEMMA TurnReInit ==
  ASSUME InOrderDelivery
  PROVE  TurnInv /\ HabitatStateCallback /\ Head(habitatQ) = "EPISODE_FINISH"
           => (LoneTurn /\ Untriggered)'
<1> SUFFICES ASSUME TurnInv, HabitatStateCallback, Head(habitatQ) = "EPISODE_FINISH"
             PROVE  (LoneTurn /\ Untriggered)'
  OBVIOUS
<1>1. habitatQ # <<>> /\ confQ = 0 /\ ReInit /\ UNCHANGED <<evVars, toEval>>
  BY Zenon DEF HabitatStateCallback, EarlierDelivered
<1>2. UNCHANGED <<evPc, globalAction, actionQ>>
  BY <1>1 DEF evVars, toEval
<1>3. state' = "INIT" /\ habitatQ' \in Suffixes(Tail(habitatQ)) /\ confQ' \in 0..confQ
  BY <1>1 DEF ReInit
<1>4. haveConfidence' = FALSE
  BY <1>1, Zenon DEF ReInit
<1>5. evPc \in {"Reset", "Done"}
  <2>1. habitatQ \notin Queues({"ACTION_EXEC", "ACTION_FINISH"}, QueueSize)
    BY <1>1, DeliverType, Sizes
  <2> QED
    BY <2>1 DEF TurnInv, EpisodeInv, ThisEpisode, Running
<1>6. Untriggered'
  BY <1>1, <1>2, <1>3, <1>4, <1>5 DEF Untriggered
<1>7. Lone(habitatQ)'
  <2>1. habitatQ \in Queues(HABITAT_STATE, QueueSize) /\ Lone(habitatQ)
    BY DEF TurnInv, EpisodeInv, TypeInv, TypeOK, LoneTurn
  <2>2. Tail(habitatQ) \in Queues(HABITAT_STATE, QueueSize) /\ Lone(Tail(habitatQ))
    BY <1>1, <2>1, LoneTail, DeliverType, Sizes
  <2>3. Lone(habitatQ')
    BY <1>3, <2>2, LoneSuffix
  <2> QED
    BY <2>3 DEF Lone
<1>8. Silent => Silent'
  BY <1>1, <1>3, SilentSuffix DEF Silent
<1>9. ~PlannerBusy' /\ ~EvaluatorBusy' /\ (SlotFull' => SlotFull)
  BY <1>2, <1>3, <1>5 DEF PlannerBusy, EvaluatorBusy, SlotFull
<1>10. LoneTurn'
  BY <1>2, <1>7, <1>8, <1>9 DEF TurnInv, LoneTurn
<1> QED
  BY <1>6, <1>10

(* Any other announcement.                                                 *)
LEMMA TurnHabitatState ==
  TurnInv /\ HabitatStateCallback /\ Head(habitatQ) # "EPISODE_FINISH"
    => (LoneTurn /\ Untriggered)'
<1> SUFFICES ASSUME TurnInv, HabitatStateCallback, Head(habitatQ) # "EPISODE_FINISH"
             PROVE  (LoneTurn /\ Untriggered)'
  OBVIOUS
<1>1. /\ habitatQ # <<>> /\ habitatQ' = Tail(habitatQ)
      /\ UNCHANGED <<fsmData, confQ, evVars, toEval>>
  BY Zenon DEF HabitatStateCallback
<1>2. state' = IF Resumes(Head(habitatQ)) THEN "PLAN_ACTION" ELSE state
  BY Zenon DEF HabitatStateCallback
<1>3. UNCHANGED <<evPc, episode, globalAction, takenAction, rosState, actionQ, rosQ,
                  inits, haveConfidence, haveFinished>>
  BY <1>1 DEF evVars, evCore, evHeard, toEval, fsmData
<1>4. (EvaluatorBusy' <=> EvaluatorBusy) /\ (SlotFull' <=> SlotFull)
  BY <1>3 DEF EvaluatorBusy, SlotFull
<1>5. Silent => Silent'
  BY <1>1, SilentSuffix DEF Silent
<1>6. /\ Lone(habitatQ)'
      /\ Head(habitatQ) = "ACTION_FINISH" => Silent'
  <2>1. habitatQ \in Queues(HABITAT_STATE, QueueSize) /\ Lone(habitatQ)
    BY DEF TurnInv, EpisodeInv, TypeInv, TypeOK, LoneTurn
  <2>2. /\ Lone(Tail(habitatQ))
        /\ Head(habitatQ) = "ACTION_FINISH" =>
             Tail(habitatQ) \in Queues({"ACTION_EXEC", "EPISODE_FINISH"}, QueueSize)
    BY <1>1, <2>1, LoneTail
  <2> QED
    BY <1>1, <2>2 DEF Lone, Silent
<1>7. CASE Resumes(Head(habitatQ))
  <2>1. state' = "PLAN_ACTION" /\ Silent' /\ ~Silent
    BY <1>1, <1>2, <1>6, <1>7, SilentSuffix DEF Resumes
  <2>2. actionQ = <<>> /\ ~EvaluatorBusy /\ ~SlotFull
    BY <2>1 DEF TurnInv, LoneTurn
  <2>3. LoneTurn'
    BY <1>3, <1>4, <1>6, <2>1, <2>2 DEF TurnInv, LoneTurn
  <2>4. Untriggered'
    BY <2>1 DEF Untriggered, Waiting
  <2> QED
    BY <2>3, <2>4
<1>8. CASE ~Resumes(Head(habitatQ))
  <2>1. state' = state
    BY <1>2, <1>8
  <2>2. PlannerBusy' <=> PlannerBusy
    BY <1>3, <2>1 DEF PlannerBusy
  <2>3. LoneTurn'
    BY <1>3, <1>4, <1>5, <1>6, <2>2 DEF TurnInv, LoneTurn
  <2>4. Untriggered'
    BY <1>1, <1>3, <1>5, <2>1 DEF TurnInv, Untriggered
  <2> QED
    BY <2>3, <2>4
<1> QED
  BY <1>7, <1>8

(* Every subscriber callback of the planner.                               *)
LEMMA TurnFsmCallbacks ==
  ASSUME InOrderDelivery
  PROVE  TurnInv /\ FsmCallbacks => (LoneTurn /\ Untriggered)'
<1> SUFFICES ASSUME TurnInv, FsmCallbacks PROVE (LoneTurn /\ Untriggered)'
  OBVIOUS
<1>1. CASE HabitatStateCallback
  BY <1>1, TurnReInit, TurnHabitatState
<1>2. CASE OdometryCallback
  <2>1. UNCHANGED <<evVars, state, inits, haveConfidence, haveFinished, habitatQ, confQ, toEval>>
    BY <1>2 DEF OdometryCallback
  <2> QED
    BY <2>1 DEF TurnInv, LoneTurn, Untriggered, Lone, Silent,
       PlannerBusy, EvaluatorBusy, SlotFull, evVars, evCore, evHeard, toEval
<1>3. CASE ConfidenceThresholdCallback
  <2>1. UNCHANGED <<evVars, state, inits, haveFinished, habitatQ, toEval>> /\ confQ > 0
    BY <1>3 DEF ConfidenceThresholdCallback
  <2> QED
    BY <2>1 DEF TurnInv, LoneTurn, Untriggered, Lone, Silent,
       PlannerBusy, EvaluatorBusy, SlotFull, evVars, evCore, evHeard, toEval
<1>4. CASE TriggerCallback
  <2>1. UNCHANGED <<evVars, inits, haveConfidence, haveFinished, habitatQ, confQ, toEval>>
    BY <1>4 DEF TriggerCallback, fsmData
  <2>2. UNCHANGED <<evPc, episode, globalAction, takenAction, rosState, actionQ, rosQ>>
    BY <2>1 DEF evVars, evCore, evHeard, toEval
  <2>3. /\ (Silent' <=> Silent) /\ (EvaluatorBusy' <=> EvaluatorBusy)
        /\ (SlotFull' <=> SlotFull) /\ (Lone(habitatQ)' <=> Lone(habitatQ))
    BY <2>1, <2>2 DEF Silent, EvaluatorBusy, SlotFull, Lone
  <2>4. CASE state = "WAIT_TRIGGER"
    <3>1. /\ evPc \in {"ArmWait", "WaitReady"} /\ Silent
          /\ actionQ = <<>> /\ globalAction = NoAction
      BY <2>4 DEF TurnInv, Untriggered, Waiting
    <3>2. ~EvaluatorBusy /\ ~SlotFull
      BY <3>1 DEF EvaluatorBusy, SlotFull
    <3>3. state' = "PLAN_ACTION"
      BY <1>4, <2>4 DEF TriggerCallback
    <3>4. LoneTurn'
      BY <2>2, <2>3, <3>1, <3>2 DEF TurnInv, LoneTurn
    <3> QED
      BY <3>3, <3>4 DEF Untriggered, Waiting
  <2>5. CASE state # "WAIT_TRIGGER"
    <3>1. state' = state
      BY <1>4, <2>5 DEF TriggerCallback
    <3>2. PlannerBusy' <=> PlannerBusy
      BY <2>1, <3>1 DEF PlannerBusy
    <3>3. LoneTurn'
      BY <2>2, <2>3, <3>2 DEF TurnInv, LoneTurn
    <3>4. Untriggered'
      BY <2>1, <2>2, <2>3, <3>1 DEF TurnInv, Untriggered
    <3> QED
      BY <3>3, <3>4
  <2> QED
    BY <2>4, <2>5
<1> QED
  BY <1>1, <1>2, <1>3, <1>4 DEF FsmCallbacks

(* What an action that is delivered or lost leaves behind.                 *)
LEMMA ActionTaken ==
  ASSUME TurnInv, actionQ # <<>>
  PROVE  /\ Tail(actionQ) = <<>>
         /\ Head(actionQ) \in ActionMsg
         /\ Running => Head(actionQ) \in OwnAction
         /\ Silent /\ ~PlannerBusy /\ ~EvaluatorBusy /\ ~SlotFull
         /\ state \in Waiting => evPc \in {"Reset", "Done"}
<1>1. actionQ \in Queues(ActionMsg, QueueSize) /\ Len(actionQ) <= 1
  BY DEF TurnInv, EpisodeInv, TypeInv, TypeOK, LoneTurn
<1>2. Tail(actionQ) = <<>>
  BY <1>1, OneAction
<1>3. Head(actionQ) \in ActionMsg
  BY <1>1, DeliverType, Sizes
<1>4. Running => Head(actionQ) \in OwnAction
  BY DeliverType, Sizes DEF TurnInv, EpisodeInv, ThisEpisode
<1>5. Silent /\ ~PlannerBusy /\ ~EvaluatorBusy /\ ~SlotFull
  BY DEF TurnInv, LoneTurn
<1>6. state \in Waiting => evPc \in {"Reset", "Done"}
  BY DEF TurnInv, Untriggered
<1> QED
  BY <1>2, <1>3, <1>4, <1>5, <1>6

(* Every callback of the evaluator, its timer and the loss of an action.   *)
LEMMA TurnEvaluatorCallbacks ==
  TurnInv /\ (EvaluatorCallbacks \/ PublishObservations \/ LoseAction)
    => (LoneTurn /\ Untriggered)'
<1> SUFFICES ASSUME TurnInv, EvaluatorCallbacks \/ PublishObservations \/ LoseAction
             PROVE  (LoneTurn /\ Untriggered)'
  OBVIOUS
<1> USE Sizes
<1>1. CASE ActionCallback
  <2>1. /\ actionQ # <<>> /\ actionQ' = Tail(actionQ) /\ globalAction' = Head(actionQ)
        /\ UNCHANGED <<evPc, evCore, takenAction, evHeard, fsmVars, toFsm, rosQ>>
    BY <1>1 DEF ActionCallback, ActionArrives
  <2>2. UNCHANGED <<evPc, episode, state, inits, haveConfidence, haveFinished, habitatQ, confQ>>
    BY <2>1 DEF evCore, fsmVars, fsmData, toFsm
  <2>3. /\ (Silent' <=> Silent) /\ (EvaluatorBusy' <=> EvaluatorBusy)
        /\ (PlannerBusy' <=> PlannerBusy) /\ (Lone(habitatQ)' <=> Lone(habitatQ))
    BY <2>2 DEF Silent, EvaluatorBusy, PlannerBusy, Lone
  <2>4. actionQ' = <<>> /\ Silent' /\ ~PlannerBusy' /\ ~EvaluatorBusy'
    BY <2>1, <2>3, ActionTaken
  <2>5. LoneTurn'
    BY <2>3, <2>4 DEF TurnInv, LoneTurn
  <2>6. Untriggered'
    BY <2>1, <2>2, ActionTaken DEF TurnInv, Untriggered, Waiting
  <2> QED
    BY <2>5, <2>6
<1>2. CASE RosStateCallback \/ FinalStateCallback
  <2>1. UNCHANGED <<evPc, evCore, globalAction, takenAction, fsmVars, toFsm, actionQ>>
    BY <1>2 DEF RosStateCallback, FinalStateCallback
  <2> QED
    BY <2>1 DEF TurnInv, LoneTurn, Untriggered, Lone, Silent, PlannerBusy, EvaluatorBusy,
       SlotFull, evCore, fsmVars, fsmData, toFsm
<1>3. CASE PublishObservations
  <2>1. evPc \in {"ArmWait", "WaitReady"} /\ UNCHANGED <<evVars, fsmVars, habitatQ, toEval>>
    BY <1>3 DEF PublishObservations
  <2> QED
    BY <2>1 DEF TurnInv, LoneTurn, Untriggered, Lone, Silent,
       PlannerBusy, EvaluatorBusy, SlotFull, evVars, evCore, evHeard, fsmVars, fsmData, toEval
<1>4. CASE LoseAction
  <2>1. /\ actionQ # <<>> /\ actionQ' = Tail(actionQ)
        /\ UNCHANGED <<evVars, fsmVars, toFsm, rosQ>>
    BY <1>4 DEF LoseAction, ActionArrives
  <2>2. actionQ' = <<>>
    BY <2>1, ActionTaken
  <2>3. UNCHANGED <<evPc, episode, globalAction, takenAction, rosState, rosQ,
                    state, inits, haveConfidence, haveFinished, habitatQ, confQ>>
    BY <2>1 DEF evVars, evCore, evHeard, fsmVars, fsmData, toFsm
  <2>4. LoneTurn'
    BY <2>2, <2>3 DEF TurnInv, LoneTurn, Lone, Silent, PlannerBusy, EvaluatorBusy, SlotFull
  <2>5. Untriggered'
    BY <2>1, <2>3, ActionTaken DEF TurnInv, Untriggered
  <2> QED
    BY <2>4, <2>5
<1> QED
  BY <1>1, <1>2, <1>3, <1>4 DEF EvaluatorCallbacks

(* A poll, an execution or a report finds the planner in no waiting state. *)
LEMMA NotWaiting ==
  TurnInv /\ evPc \in {"Poll", "Translate", "Clear", "Step", "Finish", "Report"}
    => state \notin Waiting
BY DEF TurnInv, Untriggered

(* Between two episodes, and while it waits for the planner to be ready.   *)
LEMMA TurnBeforeEpisode ==
  ASSUME SettledReset
  PROVE  TurnInv /\ (ResetEpisode \/ ArmWait \/ LeaveWait \/ LeaveLoop)
           => (LoneTurn /\ Untriggered)'
<1> SUFFICES ASSUME TurnInv, ResetEpisode \/ ArmWait \/ LeaveWait \/ LeaveLoop
             PROVE  (LoneTurn /\ Untriggered)'
  OBVIOUS
<1> USE Sizes
<1>1. CASE ResetEpisode
  <2>1. PlannerSettled /\ globalAction' = NoAction /\ evPc' = "ArmWait"
        /\ UNCHANGED <<fsmVars, toFsm, toEval>>
    BY <1>1 DEF ResetEpisode
  <2>2. /\ state = "INIT" /\ habitatQ = <<>> /\ actionQ = <<>>
    BY <2>1 DEF PlannerSettled
  <2>3. /\ state' = "INIT" /\ habitatQ' = <<>> /\ actionQ' = <<>>
    BY <2>1, <2>2 DEF fsmVars, fsmData, toFsm, toEval
  <2>4. Silent' /\ Lone(habitatQ)'
    BY <2>3 DEF Silent, Queues, Lone
  <2>5. ~PlannerBusy' /\ ~EvaluatorBusy' /\ ~SlotFull'
    BY <2>1, <2>3 DEF PlannerBusy, EvaluatorBusy, SlotFull
  <2>6. LoneTurn'
    BY <2>3, <2>4, <2>5 DEF LoneTurn
  <2>7. Untriggered'
    BY <2>1, <2>3, <2>4 DEF Untriggered
  <2> QED
    BY <2>6, <2>7
<1>2. CASE ArmWait
  <2>1. /\ evPc = "ArmWait" /\ evPc' = "WaitReady" 
        /\ UNCHANGED <<evCore, globalAction, takenAction, fsmVars, toFsm, toEval>>
    BY <1>2 DEF ArmWait
  <2> QED
    BY <2>1 DEF TurnInv, LoneTurn, Untriggered, Lone, Silent,
       Waiting, PlannerBusy, EvaluatorBusy, SlotFull, evCore, fsmVars, fsmData, toFsm, toEval
<1>3. CASE LeaveWait
  <2>1. /\ evPc = "WaitReady" /\ evPc' = "Poll" /\ rosState \notin Waiting
        /\ UNCHANGED <<evCore, globalAction, takenAction, fsmVars, toFsm, toEval>>
    BY <1>3 DEF LeaveWait, Waiting
  <2>2. state \notin Waiting
    BY <2>1 DEF TurnInv, EpisodeInv, Awaited, Running
  <2> QED
    BY <2>1, <2>2 DEF TurnInv, LoneTurn, Untriggered, Lone,
       Silent, PlannerBusy, EvaluatorBusy, SlotFull, evCore, fsmVars, fsmData, toFsm, toEval
<1>4. CASE LeaveLoop
  <2>1. /\ evPc = "Poll" /\ evPc' = "Report"
        /\ UNCHANGED <<evCore, globalAction, takenAction, fsmVars, toFsm, toEval>>
    BY <1>4 DEF LeaveLoop
  <2>2. state \notin Waiting
    BY <2>1, NotWaiting
  <2> QED
    BY <2>1, <2>2 DEF TurnInv, LoneTurn, Untriggered, Lone,
       Silent, PlannerBusy, EvaluatorBusy, SlotFull, evCore, fsmVars, fsmData, toFsm, toEval
<1> QED
  BY <1>1, <1>2, <1>3, <1>4

(* An action is taken from the slot, translated and cleared.               *)
LEMMA TurnSlot ==
  TurnInv /\ (TakeAction \/ TranslateAction \/ ClearAction \/ PollIdle)
    => (LoneTurn /\ Untriggered)'
<1> SUFFICES ASSUME TurnInv, TakeAction \/ TranslateAction \/ ClearAction \/ PollIdle
             PROVE  (LoneTurn /\ Untriggered)'
  OBVIOUS
<1>1. /\ UNCHANGED <<evCore, fsmVars, toFsm, toEval>>
      /\ evPc \in {"Poll", "Translate", "Clear"} /\ evPc' \in {"Poll", "Translate", "Clear", "Step"}
  BY DEF TakeAction, Polling, TranslateAction, ClearAction, PollIdle
<1>2. UNCHANGED <<episode, state, inits, haveFinished, habitatQ, actionQ>>
  BY <1>1 DEF evCore, fsmVars, fsmData, toFsm, toEval
<1>3. /\ (Silent' <=> Silent) /\ (PlannerBusy' <=> PlannerBusy)
      /\ (Lone(habitatQ)' <=> Lone(habitatQ))
  BY <1>1, <1>2 DEF Silent, PlannerBusy, Lone
<1>4. state \notin Waiting /\ Untriggered'
  BY <1>1, <1>2, NotWaiting DEF Untriggered
<1>5. \/ TakeAction /\ SlotFull /\ SlotFull' /\ ~EvaluatorBusy'
      \/ TranslateAction /\ SlotFull /\ ~SlotFull' /\ EvaluatorBusy'
      \/ ClearAction /\ EvaluatorBusy /\ ~SlotFull' /\ EvaluatorBusy'
      \/ PollIdle /\ ~SlotFull' /\ ~EvaluatorBusy'
  <2>1. CASE TakeAction
    <3>1. /\ evPc = "Poll" /\ evPc' = "Translate"
          /\ globalAction # NoAction /\ globalAction' # NoAction
      BY <2>1 DEF TakeAction, Polling, NoAction
    <3> QED
      BY <2>1, <3>1 DEF SlotFull, EvaluatorBusy
  <2>2. CASE TranslateAction
    <3>1. evPc = "Translate" /\ evPc' = "Clear" /\ globalAction # NoAction
      BY <2>2 DEF TranslateAction, TurnInv, EpisodeInv, ThisEpisode, Running
    <3> QED
      BY <2>2, <3>1 DEF SlotFull, EvaluatorBusy
  <2>3. CASE ClearAction
    BY <2>3 DEF ClearAction, SlotFull, EvaluatorBusy
  <2>4. CASE PollIdle
    BY <2>4 DEF PollIdle, Polling, SlotFull, EvaluatorBusy
  <2> QED
    BY <2>1, <2>2, <2>3, <2>4
<1>6. LoneTurn'
  BY <1>2, <1>3, <1>5 DEF TurnInv, LoneTurn
<1> QED
  BY <1>4, <1>6

(* The steps that announce something: an execution, the watchdog and the   *)
(* report of an episode.                                                   *)
LEMMA TurnAnnounce ==
  ASSUME AccurateWatchdog
  PROVE  TurnInv /\ (StepEnv \/ FinishAction \/ Heartbeat \/ ReportEpisode)
           => (LoneTurn /\ Untriggered)'
<1> SUFFICES ASSUME TurnInv, StepEnv \/ FinishAction \/ Heartbeat \/ ReportEpisode
             PROVE  (LoneTurn /\ Untriggered)'
  OBVIOUS
<1> USE Sizes
<1>1. /\ UNCHANGED <<episode, globalAction, takenAction, fsmVars, toEval>>
      /\ evPc \in {"Step", "Finish", "Poll", "Report"}
  BY DEF StepEnv, FinishAction, Heartbeat, ReportEpisode, Polling, evVars, evCore
<1>2. UNCHANGED <<episode, globalAction, takenAction, state, inits, haveFinished, actionQ>>
  BY <1>1 DEF fsmVars, fsmData, toEval
<1>3. state \notin Waiting /\ Untriggered' /\ (PlannerBusy' <=> PlannerBusy)
  BY <1>1, <1>2, NotWaiting DEF Untriggered, PlannerBusy
<1>4. habitatQ \in Queues(HABITAT_STATE, QueueSize) /\ Lone(habitatQ)
  BY DEF TurnInv, EpisodeInv, TypeInv, TypeOK, LoneTurn
<1>5. ASSUME NEW m \in {"ACTION_EXEC", "EPISODE_FINISH"}, Silent,
             habitatQ' = Publish(habitatQ, m, QueueSize)
      PROVE  Silent'
  BY <1>5, PublishType DEF Silent
<1>6. CASE StepEnv
  <2>1. /\ evPc = "Step" /\ evPc' = "Finish"
        /\ habitatQ' = Publish(habitatQ, "ACTION_EXEC", QueueSize)
    BY <1>6 DEF StepEnv
  <2>2. /\ EvaluatorBusy /\ EvaluatorBusy'
        /\ (SlotFull' <=> SlotFull)
    BY <1>2, <2>1 DEF EvaluatorBusy, SlotFull
  <2>3. Silent /\ Silent'
    BY <1>5, <2>1, <2>2 DEF TurnInv, LoneTurn
  <2>4. Lone(habitatQ)'
    BY <2>1, <2>3, LoneAfterSilence DEF Lone, HABITAT_STATE
  <2>5. LoneTurn'
    BY <1>2, <1>3, <2>2, <2>3, <2>4 DEF TurnInv, LoneTurn
  <2> QED
    BY <1>3, <2>5
<1>7. CASE FinishAction
  <2>1. /\ evPc = "Finish" /\ evPc' = "Poll"
        /\ habitatQ' = Publish(habitatQ, "ACTION_FINISH", QueueSize)
    BY <1>7 DEF FinishAction
  <2>2. /\ EvaluatorBusy /\ ~EvaluatorBusy'
        /\ (SlotFull' <=> SlotFull)
    BY <1>2, <2>1 DEF EvaluatorBusy, SlotFull
  <2>3. Silent /\ actionQ = <<>> /\ ~SlotFull /\ ~PlannerBusy
    BY <2>2 DEF TurnInv, LoneTurn
  <2>4. Lone(habitatQ)'
    BY <2>1, <2>3, LoneAfterSilence DEF Lone, HABITAT_STATE
  <2>5. LoneTurn'
    BY <1>2, <1>3, <2>2, <2>3, <2>4 DEF TurnInv, LoneTurn
  <2> QED
    BY <1>3, <2>5
<1>8. CASE Heartbeat
  <2>1. /\ evPc = "Poll" /\ evPc' = evPc /\ globalAction = NoAction /\ NothingPending
        /\ habitatQ' = Publish(habitatQ, "ACTION_FINISH", QueueSize)
    BY <1>8 DEF Heartbeat, Polling, evVars
  <2>2. Silent /\ actionQ = <<>> /\ ~PlannerBusy
    BY <2>1 DEF NothingPending, Silent, Queues, PlannerBusy
  <2>3. ~EvaluatorBusy' /\ ~SlotFull'
    BY <1>2, <2>1 DEF EvaluatorBusy, SlotFull
  <2>4. Lone(habitatQ)'
    BY <2>1, <2>2, LoneAfterSilence DEF Lone, HABITAT_STATE
  <2>5. LoneTurn'
    BY <1>2, <1>3, <2>2, <2>3, <2>4 DEF LoneTurn
  <2> QED
    BY <1>3, <2>5
<1>9. CASE ReportEpisode
  <2>1. /\ evPc = "Report" /\ evPc' \in {"Done", "Reset"}
        /\ habitatQ' = Publish(habitatQ, "EPISODE_FINISH", QueueSize)
    BY <1>9 DEF ReportEpisode
  <2>2. ~EvaluatorBusy' /\ (SlotFull' <=> SlotFull)
    BY <1>2, <2>1 DEF EvaluatorBusy, SlotFull
  <2>3. Silent => Silent'
    BY <1>5, <2>1
  <2>4. Lone(habitatQ)'
    BY <1>4, <2>1, LoneOther DEF Lone, HABITAT_STATE
  <2>5. LoneTurn'
    BY <1>2, <1>3, <2>2, <2>3, <2>4 DEF TurnInv, LoneTurn
  <2> QED
    BY <1>3, <2>5
<1> QED
  BY <1>6, <1>7, <1>8, <1>9

(* The initial state.                                                      *)
LEMMA TurnInit == Init => TurnInv
<1> SUFFICES ASSUME Init PROVE TurnInv
  OBVIOUS
<1>1. /\ evPc = "Reset" /\ globalAction = NoAction /\ state = "INIT" /\ confQ = 0
      /\ habitatQ = <<>> /\ actionQ = <<>>
  BY DEF Init
<1>2. haveConfidence = FALSE
  BY Zenon DEF Init
<1>3. Silent /\ Lone(habitatQ) /\ ~PlannerBusy /\ ~EvaluatorBusy /\ ~SlotFull
  BY <1>1, Sizes DEF Silent, Queues, Lone, PlannerBusy, EvaluatorBusy, SlotFull
<1>4. LoneTurn
  BY <1>1, <1>3 DEF LoneTurn
<1>5. Untriggered
  BY <1>1, <1>2 DEF Untriggered
<1> QED
  BY <1>4, <1>5, EpisodeInit DEF TurnInv

(* Nothing happens.                                                        *)
LEMMA TurnStutter == TurnInv /\ UNCHANGED vars => (LoneTurn /\ Untriggered)'
BY DEF TurnInv, LoneTurn, Untriggered, Lone, Silent, PlannerBusy, EvaluatorBusy, SlotFull,
   vars, evVars, evCore, evHeard, fsmVars, fsmData, toFsm, toEval

(* The invariant is inductive.                                             *)
LEMMA TurnInductive ==
  ASSUME InOrderDelivery, SettledReset, AccurateWatchdog
  PROVE  TurnInv /\ [Next]_vars => TurnInv'
<1>1. TurnInv /\ Next => (LoneTurn /\ Untriggered)'
  BY TurnTick, TurnFsmCallbacks, TurnEvaluatorCallbacks, TurnBeforeEpisode, TurnSlot,
     TurnAnnounce DEF Next, MainThread
<1>2. TurnInv /\ [Next]_vars => EpisodeInv'
  BY EpisodeInductive DEF TurnInv
<1> QED
  BY <1>1, <1>2, TurnStutter DEF TurnInv

(***************************************************************************)
(* One turn at a time, and a decision to finish is final.                  *)
(***************************************************************************)

(* The invariant holds in every reachable state.                           *)
LEMMA TurnInvariant ==
  ASSUME InOrderDelivery, SettledReset, AccurateWatchdog
  PROVE  Spec => []TurnInv
<1>1. TurnInv /\ [Next]_vars => TurnInv'
  BY TurnInductive
<1> QED
  BY TurnInit, <1>1, PTL DEF Spec

(* There is never more than one turn to act: evaluator and planner never   *)
(* act at the same time, no action is overwritten in the slot before it is *)
(* executed, and none is planned ahead of its turn.                        *)
THEOREM OneTurnHolds ==
  ASSUME InOrderDelivery, SettledReset, AccurateWatchdog
  PROVE  Spec => []OneTurn
<1>1. TurnInv => OneTurn
  <2> SUFFICES ASSUME TurnInv PROVE \A s, t \in Turns : s = t
    BY DEF OneTurn
  <2>1. Silent => Announced = {}
    BY DEF Silent, Queues, Announced
  <2>2. \A i, j \in Announced : i = j
    BY DEF Announced, TurnInv, LoneTurn, Lone
  <2>3. \A i, j \in DOMAIN actionQ : i = j
    BY DEF TurnInv, EpisodeInv, TypeInv, TypeOK, LoneTurn, Queues
  <2>4. actionQ = <<>> => DOMAIN actionQ = {}
    OBVIOUS
  <2>5. actionQ # <<>> => Announced = {} /\ ~PlannerBusy /\ ~EvaluatorBusy /\ ~SlotFull
    BY <2>1 DEF TurnInv, LoneTurn
  <2>6. PlannerBusy => Announced = {} /\ ~EvaluatorBusy /\ ~SlotFull
    BY <2>1 DEF TurnInv, LoneTurn
  <2>7. EvaluatorBusy => Announced = {} /\ ~SlotFull
    BY <2>1 DEF TurnInv, LoneTurn
  <2>8. SlotFull => Announced = {}
    BY <2>1 DEF TurnInv, LoneTurn
  <2> QED
    BY <2>2, <2>3, <2>4, <2>5, <2>6, <2>7, <2>8 DEF Turns
<1> QED
  BY TurnInvariant, <1>1, PTL

(* A planner that has decided to finish leaves FINISH only by              *)
(* re-initialising itself, whatever the timing of messages and watchdog.   *)
THEOREM FinishIsFinalHolds == Spec => FinishIsFinal
<1>1. [Next]_vars => [state = "FINISH" => state' = "FINISH" \/ inits' = inits + 1]_vars
  <2> SUFFICES ASSUME Next, state = "FINISH"
               PROVE  state' = "FINISH" \/ inits' = inits + 1
    OBVIOUS
  <2>1. CASE FSMCallback
    BY <2>1 DEF FSMCallback, TickInit, TickIdle, TickFinish, TickInitAction, TickPlan, TickPub,
       fsmVars
  <2>2. CASE FsmCallbacks
    <3>1. CASE HabitatStateCallback
      <4>1. ReInit \/ state' = (IF Resumes(Head(habitatQ)) THEN "PLAN_ACTION" ELSE state)
        BY <3>1, Zenon DEF HabitatStateCallback
      <4> QED
        BY <4>1 DEF ReInit, Resumes
    <3> QED
      BY <2>2, <3>1 DEF FsmCallbacks, OdometryCallback, ConfidenceThresholdCallback,
         TriggerCallback
  <2>3. CASE EvaluatorCallbacks \/ PublishObservations \/ LoseAction
    BY <2>3 DEF EvaluatorCallbacks, ActionCallback, RosStateCallback, FinalStateCallback,
       PublishObservations, LoseAction, fsmVars
  <2>4. CASE MainThread
    BY <2>4 DEF MainThread, ResetEpisode, ArmWait, LeaveWait, LeaveLoop, TakeAction,
       TranslateAction, ClearAction, StepEnv, FinishAction, PollIdle, Heartbeat, ReportEpisode,
       fsmVars
  <2> QED
    BY <2>1, <2>2, <2>3, <2>4 DEF Next
<1> QED
  BY <1>1, PTL DEF Spec, FinishIsFinal
=============================================================================
