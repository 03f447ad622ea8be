----------------------- MODULE EpisodeFreshnessProofs -----------------------
(***************************************************************************)
(* What planner and evaluator decide on is up to date: the planner plans   *)
(* from the newest pose and the evaluator classifies an episode by the     *)
(* newest decision, although poses, announcements, actions and decisions   *)
(* travel on topics of their own.  Both need messages to be handled in     *)
(* order and a planner that has re-initialised itself; only the pose also  *)
(* needs the watchdog to outlast planning.                                 *)
(***************************************************************************)
EXTENDS EpisodeProtocolProofs

(* The newest message of a topic that a node has received or will receive, *)
(* where held is the last one it has received.                             *)
Newest(q, held) == IF q = <<>> THEN held ELSE q[Len(q)]

(* A message published is the newest.                                      *)
LEMMA NewestPublish ==
  ASSUME NEW M, NEW size \in Nat \ {0}, NEW q \in Queues(M, size), NEW m \in M, NEW held
  PROVE  Publish(q, m, size) # <<>> /\ Newest(Publish(q, m, size), held) = m
<1>1. q \in Seq(M) /\ Len(q) <= size /\ Len(q) \in Nat
  BY DEF Queues
<1>2. \A s \in Seq(M) :
        /\ Append(s, m) \in Seq(M) /\ Len(Append(s, m)) = Len(s) + 1
        /\ Append(s, m)[Len(s) + 1] = m
  OBVIOUS
<1>3. \A s \in Seq(M) : Append(s, m) # <<>> /\ Append(s, m)[Len(Append(s, m))] = m
  <2> SUFFICES ASSUME NEW s \in Seq(M)
               PROVE  Append(s, m) # <<>> /\ Append(s, m)[Len(Append(s, m))] = m
    OBVIOUS
  <2>1. Len(s) \in Nat /\ Len(Append(s, m)) = Len(s) + 1 /\ Len(<<>>) = 0
    BY <1>2
  <2> QED
    BY <1>2, <2>1
<1>4. PICK s \in Seq(M) : Publish(q, m, size) = Append(s, m)
  <2>1. q # <<>> => Tail(q) \in Seq(M)
    BY <1>1
  <2>2. ~(Len(q) < size) => q # <<>>
    BY <1>1
  <2> QED
    BY <1>1, <2>1, <2>2 DEF Publish
<1> QED
  BY <1>3, <1>4 DEF Newest

(* Receiving a message changes where the newest is, not what it is.        *)
LEMMA NewestDeliver ==
  ASSUME NEW M, NEW size \in Nat, NEW q \in Queues(M, size), q # <<>>, NEW held
  PROVE  Newest(Tail(q), Head(q)) = Newest(q, held)
<1>1. q \in Seq(M) /\ Len(q) \in Nat \ {0}
  BY DEF Queues
<1>2. /\ Tail(q) \in Seq(M) /\ Len(Tail(q)) = Len(q) - 1
      /\ \A i \in 1..(Len(q) - 1) : Tail(q)[i] = q[i + 1]
  BY <1>1
<1>3. CASE Len(q) = 1
  <2>1. Tail(q) = <<>>
    <3>1. Tail(q) \in Seq(M) /\ Len(Tail(q)) = 0
      BY <1>2, <1>3
    <3> QED
      BY <3>1, EmptySeq
  <2>2. Head(q) = q[Len(q)]
    BY <1>1, <1>3
  <2> QED
    BY <2>1, <2>2, Zenon DEF Newest
<1>4. CASE Len(q) # 1
  <2>1. Tail(q) # <<>> /\ Len(q) - 1 \in 1..(Len(q) - 1)
    <3>1. Len(q) - 1 \in Nat \ {0}
      BY <1>1, <1>4
    <3>2. Len(Tail(q)) # 0 /\ Len(<<>>) = 0
      BY <1>2, <3>1
    <3>3. Tail(q) # <<>>
      BY <3>2, Zenon
    <3> QED
      BY <3>1, <3>3
  <2>2. Tail(q)[Len(Tail(q))] = q[Len(q)]
    BY <1>1, <1>2, <2>1
  <2> QED
    BY <2>1, <2>2, Zenon DEF Newest
<1> QED
  BY <1>3, <1>4

(***************************************************************************)
(* The planner's pose.                                                     *)
(***************************************************************************)

(* The pose the last executed action led to.                               *)
Latest == [episode |-> episode, step |-> countSteps]

(* Before the first action, and whenever the planner plans, it knows no    *)
(* other pose and none is on its way.                                      *)
Located ==
  countSteps = 0 \/ state = "PLAN_ACTION" =>
    odomQ \in Queues({Latest}, StatusQueueSize) /\ (haveOdom => odom = Latest)

(* Poses arrive in order; a planner that has left INIT has one, and one    *)
(* that has re-initialised itself between two episodes has none.           *)
PoseInv ==
  /\ Located
  /\ haveOdom \/ odomQ # <<>> => Newest(odomQ, odom) = Latest
  /\ state # "INIT" => haveOdom
  /\ state = "INIT" /\ evPc \in {"Reset", "Done"} => odomQ = <<>> /\ ~haveOdom
  /\ evPc \in {"ArmWait", "WaitReady"} => countSteps = 0

(* Steps that neither touch a pose nor make the planner plan.              *)
LEMMA PoseFrame ==
  ASSUME PoseInv, UNCHANGED <<episode, countSteps, odomQ, odom, haveOdom>>,
         state' = "PLAN_ACTION" => state = "PLAN_ACTION",
         state' # "INIT" => state # "INIT" \/ haveOdom,
         evPc' \in {"ArmWait", "WaitReady"} => evPc \in {"ArmWait", "WaitReady"},
         state' = "INIT" /\ evPc' \in {"Reset", "Done"} =>
           state = "INIT" /\ evPc \in {"Reset", "Done"}
  PROVE  PoseInv'
<1>1. Latest' = Latest
  BY DEF Latest
<1>2. Located'
  BY <1>1 DEF PoseInv, Located, Queues
<1> QED
  BY <1>1, <1>2 DEF PoseInv, Newest

(* Every tick of the planner.                                              *)
LEMMA PoseTick == PoseInv /\ FSMCallback => PoseInv'
<1> SUFFICES ASSUME PoseInv, FSMCallback PROVE PoseInv'
  OBVIOUS
<1>1. UNCHANGED <<evVars, toFsm, odom>>
  BY DEF FSMCallback, TickInit, TickIdle, TickFinish, TickInitAction, TickPlan, TickPub,
         fsmVars, fsmData
<1>2. haveOdom' = haveOdom
  BY Zenon DEF FSMCallback, TickInit, TickIdle, TickFinish, TickInitAction, TickPlan, TickPub,
         fsmVars, fsmData
<1>3. UNCHANGED <<evPc, episode, countSteps, odomQ>>
  BY <1>1 DEF evVars, evCore, toFsm
<1>4. /\ state' = "PLAN_ACTION" => state = "PLAN_ACTION"
      /\ state' = "INIT" => state = "INIT"
      /\ state' # "INIT" => state # "INIT" \/ haveOdom
  BY Zenon DEF FSMCallback, TickInit, TickIdle, TickFinish, TickInitAction, TickPlan, TickPub,
         fsmVars
<1> QED
  BY <1>1, <1>2, <1>3, <1>4, PoseFrame

(* An announcement finds every pose delivered; EPISODE_FINISH makes the    *)
(* planner forget it, any other may make it plan from it.                  *)
LEMMA PoseHabitatState ==
  ASSUME InOrderDelivery
  PROVE  TurnInv /\ PoseInv /\ HabitatStateCallback => PoseInv'
<1> SUFFICES ASSUME TurnInv, PoseInv, HabitatStateCallback PROVE PoseInv'
  OBVIOUS
<1>1. habitatQ # <<>> /\ odomQ = <<>> /\ UNCHANGED evVars
  BY Zenon DEF HabitatStateCallback, EarlierDelivered
<1>2. UNCHANGED <<evPc, episode, countSteps>> /\ Latest' = Latest
  BY <1>1 DEF evVars, evCore, Latest
<1>3. CASE Head(habitatQ) = "EPISODE_FINISH"
  <2>1. state' = "INIT" /\ odomQ' \in Suffixes(odomQ)
    BY <1>3, Zenon DEF HabitatStateCallback, ReInit
  <2>2. haveOdom' = FALSE
    BY <1>3, Zenon DEF HabitatStateCallback, ReInit
  <2>3. odomQ' \in Queues(Pose, 0)
    <3>1. odomQ \in Queues(Pose, 0)
      BY <1>1 DEF Queues
    <3> QED
      BY <2>1, <3>1, SuffixType
  <2>4. odomQ' = <<>>
    BY <2>3, EmptySeq DEF Queues
  <2>5. Located'
    BY <2>2, <2>4, Sizes DEF Located, Queues
  <2> QED
    BY <1>2, <2>1, <2>2, <2>4, <2>5 DEF PoseInv
<1>4. CASE Head(habitatQ) # "EPISODE_FINISH"
  <2>1. /\ UNCHANGED <<fsmData, odomQ>>
        /\ state' = IF Resumes(Head(habitatQ)) THEN "PLAN_ACTION" ELSE state
    BY <1>4, Zenon DEF HabitatStateCallback
  <2>2. UNCHANGED <<haveOdom, odom>>
    BY <2>1 DEF fsmData
  <2>3. CASE state' = state
    BY <1>2, <2>1, <2>2, <2>3, PoseFrame
  <2>4. CASE state' # state
    <3>1. state = "WAIT_ACTION_FINISH" /\ state' = "PLAN_ACTION"
      BY <2>1, <2>4 DEF Resumes
    <3>2. haveOdom /\ odom = Latest
      BY <1>1, <3>1 DEF PoseInv, Newest
    <3>3. Located'
      BY <1>1, <1>2, <2>1, <2>2, <3>2, Sizes DEF Located, Queues
    <3> QED
      BY <1>1, <1>2, <2>1, <2>2, <3>1, <3>2, <3>3 DEF PoseInv, Newest
  <2> QED
    BY <2>3, <2>4
<1> QED
  BY <1>3, <1>4

(* The planner receives a pose.                                            *)
LEMMA PoseOdometry == TurnInv /\ PoseInv /\ OdometryCallback => PoseInv'
<1> SUFFICES ASSUME TurnInv, PoseInv, OdometryCallback PROVE PoseInv'
  OBVIOUS
<1>1. /\ odomQ # <<>> /\ odom' = Head(odomQ) /\ haveOdom' /\ odomQ' = Tail(odomQ)
      /\ UNCHANGED <<evVars, state>>
  BY DEF OdometryCallback
<1>2. UNCHANGED <<evPc, episode, countSteps>> /\ Latest' = Latest
  BY <1>1 DEF evVars, evCore, Latest
<1>3. odomQ \in Queues(Pose, StatusQueueSize)
  BY DEF TurnInv, EpisodeInv, TypeInv, TypeOK
<1>4. Newest(odomQ', odom') = Latest
  BY <1>1, <1>3, NewestDeliver, Sizes DEF PoseInv
<1>5. Located'
  <2> SUFFICES ASSUME countSteps = 0 \/ state = "PLAN_ACTION"
               PROVE  odomQ' \in Queues({Latest}, StatusQueueSize) /\ odom' = Latest
    BY <1>1, <1>2 DEF Located
  <2>1. odomQ \in Queues({Latest}, StatusQueueSize)
    BY DEF PoseInv, Located
  <2>2. Head(odomQ) \in {Latest} /\ Tail(odomQ) \in Queues({Latest}, StatusQueueSize)
    BY <1>1, <2>1, DeliverType, Sizes
  <2> QED
    BY <1>1, <2>2
<1> QED
  BY <1>1, <1>2, <1>4, <1>5 DEF PoseInv

(* The planner is triggered: before the first action.                      *)
LEMMA PoseTrigger == TurnInv /\ PoseInv /\ TriggerCallback => PoseInv'
<1> SUFFICES ASSUME TurnInv, PoseInv, TriggerCallback PROVE PoseInv'
  OBVIOUS
<1>1. UNCHANGED <<evVars, fsmData, odomQ>>
  BY DEF TriggerCallback
<1>2. UNCHANGED <<evPc, episode, countSteps, haveOdom, odom>> /\ Latest' = Latest
  BY <1>1 DEF evVars, evCore, fsmData, Latest
<1>3. CASE state # "WAIT_TRIGGER"
  <2>1. state' = state
    BY <1>3 DEF TriggerCallback
  <2> QED
    BY <1>1, <1>2, <2>1, PoseFrame
<1>4. CASE state = "WAIT_TRIGGER"
  <2>1. state' = "PLAN_ACTION"
    BY <1>4 DEF TriggerCallback
  <2>2. countSteps = 0
    BY <1>4 DEF TurnInv, Untriggered, Waiting, PoseInv
  <2>3. Located'
    BY <1>1, <1>2, <2>2 DEF PoseInv, Located
  <2> QED
    BY <1>1, <1>2, <1>4, <2>1, <2>3 DEF PoseInv, Newest
<1> QED
  BY <1>3, <1>4

(* The evaluator sets up an episode: the planner knows no pose yet.        *)
LEMMA PoseReset ==
  ASSUME SettledReset
  PROVE  PoseInv /\ ResetEpisode => PoseInv'
<1> SUFFICES ASSUME PoseInv, ResetEpisode PROVE PoseInv'
  OBVIOUS
<1>1. /\ evPc = "Reset" /\ state = "INIT" /\ countSteps' = 0 /\ evPc' = "ArmWait"
      /\ UNCHANGED <<fsmVars, toFsm>>
  BY DEF ResetEpisode, PlannerSettled
<1>2. odomQ = <<>> /\ ~haveOdom
  BY <1>1 DEF PoseInv
<1>3. state' = "INIT" /\ odomQ' = <<>> /\ ~haveOdom'
  BY <1>1, <1>2 DEF fsmVars, fsmData, toFsm
<1>4. Located'
  BY <1>3, Sizes DEF Located, Queues
<1> QED
  BY <1>1, <1>3, <1>4 DEF PoseInv

(* The evaluator publishes the pose it starts from.                        *)
LEMMA PoseObservations == TurnInv /\ PoseInv /\ PublishObservations => PoseInv'
<1> SUFFICES ASSUME TurnInv, PoseInv, PublishObservations PROVE PoseInv'
  OBVIOUS
<1>1. /\ evPc \in {"ArmWait", "WaitReady"} /\ UNCHANGED <<evVars, fsmVars>>
      /\ odomQ' = Publish(odomQ, [episode |-> episode, step |-> 0], StatusQueueSize)
  BY DEF PublishObservations
<1>2. UNCHANGED <<evPc, episode, countSteps, state, haveOdom, odom>> /\ Latest' = Latest
  BY <1>1 DEF evVars, evCore, fsmVars, fsmData, Latest
<1>3. countSteps = 0 /\ odomQ' = Publish(odomQ, Latest, StatusQueueSize)
  BY <1>1 DEF PoseInv, Latest
<1>4. odomQ \in Queues({Latest}, StatusQueueSize) /\ (haveOdom => odom = Latest)
  BY <1>3 DEF PoseInv, Located
<1>5. odomQ' # <<>> /\ Newest(odomQ', odom') = Latest
  BY <1>3, <1>4, NewestPublish, Sizes
<1>6. Located'
  BY <1>2, <1>3, <1>4, PublishType, Sizes DEF Located
<1> QED
  BY <1>1, <1>2, <1>5, <1>6 DEF PoseInv

(* The evaluator executes an action: the planner does not plan meanwhile.  *)
LEMMA PoseStep == TurnInv /\ PoseInv /\ StepEnv => PoseInv'
<1> SUFFICES ASSUME TurnInv, PoseInv, StepEnv PROVE PoseInv'
  OBVIOUS
<1>1. /\ evPc = "Step" /\ evPc' = "Finish" /\ countSteps' = countSteps + 1
      /\ UNCHANGED <<episode, fsmVars>>
      /\ odomQ' = Publish(odomQ, [episode |-> episode, step |-> countSteps'], StatusQueueSize)
  BY DEF StepEnv
<1>2. UNCHANGED <<state, haveOdom, odom>> /\ odomQ' = Publish(odomQ, Latest', StatusQueueSize)
  BY <1>1 DEF fsmVars, fsmData, Latest
<1>3. state # "PLAN_ACTION" /\ countSteps \in Nat
  BY <1>1 DEF TurnInv, EpisodeInv, LoneTurn, PlannerBusy, EvaluatorBusy, TypeInv, TypeOK
<1>4. odomQ \in Queues(Pose, StatusQueueSize) /\ Latest' \in Pose
  BY <1>1, <1>3 DEF TurnInv, EpisodeInv, TypeInv, TypeOK, Latest, Pose
<1>5. odomQ' # <<>> /\ Newest(odomQ', odom') = Latest'
  BY <1>2, <1>4, NewestPublish, Sizes
<1>6. Located'
  BY <1>1, <1>2, <1>3 DEF Located
<1> QED
  BY <1>1, <1>2, <1>5, <1>6 DEF PoseInv

(* Every step.                                                             *)
LEMMA PoseStepwise ==
  ASSUME InOrderDelivery, SettledReset
  PROVE  TurnInv /\ PoseInv /\ [Next]_vars => PoseInv'
<1> SUFFICES ASSUME TurnInv, PoseInv, [Next]_vars PROVE PoseInv'
  OBVIOUS
<1>1. CASE FSMCallback
  BY <1>1, PoseTick
<1>2. CASE FsmCallbacks
  <2>1. CASE ConfidenceThresholdCallback
    <3>1. UNCHANGED <<evVars, state, haveOdom, odom, odomQ>>
      BY <2>1 DEF ConfidenceThresholdCallback
    <3> QED
      BY <3>1, PoseFrame DEF evVars, evCore
  <2> QED
    BY <1>2, <2>1, PoseHabitatState, PoseOdometry, PoseTrigger DEF FsmCallbacks
<1>3. CASE EvaluatorCallbacks \/ LoseAction \/ UNCHANGED vars
  <2>1. UNCHANGED <<evPc, evCore, fsmVars, toFsm>>
    BY <1>3 DEF EvaluatorCallbacks, ActionCallback, RosStateCallback, FinalStateCallback,
       LoseAction, vars, evVars
  <2> QED
    BY <2>1, PoseFrame DEF evCore, fsmVars, fsmData, toFsm
<1>4. CASE PublishObservations
  BY <1>4, PoseObservations
<1>5. CASE MainThread
  <2>1. CASE ResetEpisode
    BY <2>1, PoseReset
  <2>2. CASE StepEnv
    BY <2>2, PoseStep
  <2>3. CASE ReportEpisode
    <3>1. evPc = "Report" /\ evPc' \in {"Reset", "Done"} /\ UNCHANGED <<evCore, fsmVars, odomQ>>
      BY <2>3 DEF ReportEpisode
    <3>2. state # "INIT"
      BY <3>1, NotWaiting DEF Waiting
    <3> QED
      BY <3>1, <3>2, PoseFrame DEF evCore, fsmVars, fsmData
  <2>4. CASE ArmWait \/ LeaveWait \/ LeaveLoop \/ TakeAction \/ TranslateAction \/ ClearAction
             \/ FinishAction \/ PollIdle \/ Heartbeat
    <3>1. UNCHANGED <<evCore, fsmVars, odomQ>>
      BY <2>4 DEF ArmWait, LeaveWait, LeaveLoop, TakeAction, TranslateAction, ClearAction,
         FinishAction, PollIdle, Heartbeat, evVars, toFsm
    <3>2. /\ evPc' \in {"ArmWait", "WaitReady"} => evPc \in {"ArmWait", "WaitReady"}
          /\ evPc' \notin {"Reset", "Done"}
      BY <2>4 DEF ArmWait, LeaveWait, LeaveLoop, TakeAction, TranslateAction, ClearAction,
         FinishAction, PollIdle, Heartbeat, Polling, evVars
    <3> QED
      BY <3>1, <3>2, PoseFrame DEF evCore, fsmVars, fsmData
  <2> QED
    BY <1>5, <2>1, <2>2, <2>3, <2>4 DEF MainThread
<1> QED
  BY <1>1, <1>2, <1>3, <1>4, <1>5 DEF Next

(* The initial state.                                                      *)
LEMMA PoseInit == Init => PoseInv
<1> SUFFICES ASSUME Init PROVE PoseInv
  OBVIOUS
<1>1. state = "INIT" /\ odomQ = <<>> /\ evPc = "Reset" /\ countSteps = 0
  BY DEF Init
<1>2. ~haveOdom
  BY Zenon DEF Init
<1>3. Located
  BY <1>1, <1>2, Sizes DEF Located, Queues
<1> QED
  BY <1>1, <1>2, <1>3 DEF PoseInv

(* Past the scripted turns, and in fact in all of them, the planner plans  *)
(* from the pose the last executed action led to: odometryCallback keeps   *)
(* the newest of the poses published with every step, and ACTION_FINISH    *)
(* is handled after them.                                                  *)
THEOREM PlansFromLatestPoseHolds ==
  ASSUME InOrderDelivery, SettledReset, AccurateWatchdog
  PROVE  Spec => []PlansFromLatestPose
<1>1. TurnInv /\ PoseInv => PlansFromLatestPose
  <2> SUFFICES ASSUME PoseInv, state = "PLAN_ACTION"
               PROVE  odom = [episode |-> episode, step |-> countSteps]
    BY DEF PlansFromLatestPose
  <2>1. haveOdom
    BY DEF PoseInv
  <2> QED
    BY <2>1 DEF PoseInv, Located, Latest
<1>2. Spec => []TurnInv
  BY TurnInvariant
<1>3. TurnInv /\ PoseInv /\ [Next]_vars => PoseInv'
  BY PoseStepwise
<1> QED
  BY <1>1, <1>2, <1>3, PoseInit, PTL DEF Spec

(***************************************************************************)
(* The evaluator's verdict.  A watchdog that fires early makes the planner *)
(* plan ahead of its turn, so several of its actions may be on their way   *)
(* or overwritten in the slot; the argument therefore counts turns instead *)
(* of locating the one there is.                                           *)
(***************************************************************************)
Verdict == [result |-> finalResult, inc |-> inits]
OwnResult == [result : FINAL_RESULT, inc : {episode}]

(* The decisions of an episode are its own, and the newest one that the    *)
(* evaluator has or will receive is the planner's last one.                *)
Decided ==
  /\ state \in Waiting => finalResult = "none"
  /\ state = "FINISH" => finalResult \notin Continuing \cup {"none"}
  /\ Running =>
       /\ explQ \in Queues(OwnResult, QueueSize)
       /\ finalResult # "none" => Newest(explQ, finalState) = Verdict

(* The turns whose action the evaluator has executed or is executing, and  *)
(* those whose action it has received or the planner has decided on.       *)
One(b) == IF b THEN 1 ELSE 0
Executed == countSteps + One(evPc \in {"Translate", "Clear", "Step"})
Received == Executed + One(globalAction # NoAction /\ evPc \notin {"Translate", "Clear"})
Planned == Received + Len(actionQ) + One(state = "PUB_ACTION")

(* An evaluator that has no decision of this episode has received scripted *)
(* actions only, and receives no other before that decision.               *)
OnlyScripted ==
  Running /\ finalState.inc # episode =>
    IF finalResult = "none" THEN Planned <= initCount
    ELSE Received <= initCount /\ explQ # <<>>

(* A STOP stands for a planner in FINISH, whose decision the evaluator has *)
(* received before it, or for the step limit.                              *)
GoAction == [act : {"GO"}, inc : {episode}]
Finished == state = "FINISH" /\ explQ = <<>>
LastStep == countSteps = MaxSteps - 1
Stopped ==
  Running =>
    /\ state = "FINISH" \/ actionQ \in Queues(GoAction, QueueSize)
    /\ globalAction.act = "STOP" => Finished \/ (LastStep /\ evPc \in {"Translate", "Clear"})
    /\ evPc \in {"Clear", "Step"} /\ takenAction.act = "STOP" => Finished \/ LastStep
    /\ episodeOver => Finished \/ countSteps = MaxSteps
    /\ evPc = "Report" => episodeOver \/ ~feasible

VerdictInv == Decided /\ OnlyScripted /\ Stopped

(* The counts are natural numbers.                                         *)
LEMMA CountTypes ==
  EpisodeInv => /\ Executed \in Nat /\ Received \in Nat /\ Planned \in Nat
                /\ initCount \in Nat /\ Len(actionQ) \in Nat /\ Received <= Planned
<1> SUFFICES ASSUME EpisodeInv
             PROVE  /\ Executed \in Nat /\ Received \in Nat /\ Planned \in Nat
                    /\ initCount \in Nat /\ Len(actionQ) \in Nat /\ Received <= Planned
  OBVIOUS
<1>1. countSteps \in Nat /\ initCount \in Nat /\ Len(actionQ) \in Nat
  BY StepsAssumption DEF EpisodeInv, TypeInv, TypeOK, Queues
<1> QED
  BY <1>1 DEF Executed, Received, Planned, One

(* Publishing makes a topic longer by one message at most.                 *)
LEMMA PublishLength ==
  ASSUME NEW M, NEW size \in Nat \ {0}, NEW q \in Queues(M, size), NEW m \in M
  PROVE  Len(Publish(q, m, size)) <= Len(q) + 1
<1>1. q \in Seq(M) /\ Len(q) \in Nat
  BY DEF Queues
<1>2. CASE Len(q) < size
  BY <1>1, <1>2 DEF Publish
<1>3. CASE ~(Len(q) < size)
  <2>1. q # <<>>
    BY <1>1, <1>3
  <2>2. Tail(q) \in Seq(M) /\ Len(Tail(q)) = Len(q) - 1
    BY <1>1, <2>1
  <2> QED
    BY <1>1, <1>3, <2>2 DEF Publish
<1> QED
  BY <1>2, <1>3

(* Steps that neither decide, deliver nor execute anything.                *)
LEMMA VerdictFrame ==
  ASSUME VerdictInv,
         UNCHANGED <<evPc, evCore, globalAction, takenAction, finalState,
                     actionQ, explQ, inits, initCount, finalResult>>,
         state' = "PUB_ACTION" <=> state = "PUB_ACTION",
         state' \in Waiting => state \in Waiting,
         state' = "FINISH" <=> state = "FINISH"
  PROVE  VerdictInv'
<1>1. UNCHANGED <<episode, feasible, episodeOver, countSteps>>
  BY DEF evCore
<1>2. (Running' <=> Running) /\ UNCHANGED <<Received, Planned>>
  BY <1>1 DEF Running, Received, Executed, Planned, One
<1>3. Decided'
  BY <1>1, <1>2 DEF VerdictInv, Decided, Verdict, OwnResult, Newest
<1>4. OnlyScripted'
  BY <1>1, <1>2 DEF VerdictInv, OnlyScripted
<1>5. Stopped'
  BY <1>1, <1>2 DEF VerdictInv, Stopped, Finished, LastStep, GoAction
<1> QED
  BY <1>3, <1>4, <1>5 DEF VerdictInv

(* Every tick of the planner.                                              *)
LEMMA VerdictTick == EpisodeInv /\ VerdictInv /\ FSMCallback => VerdictInv'
<1> SUFFICES ASSUME EpisodeInv, VerdictInv, FSMCallback PROVE VerdictInv'
  OBVIOUS
<1>1. UNCHANGED <<evVars, inits>>
  BY DEF FSMCallback, TickInit, TickIdle, TickFinish, TickInitAction, TickPlan, TickPub,
         fsmVars, fsmData
<1>2. UNCHANGED <<evPc, evCore, episode, feasible, episodeOver, countSteps, globalAction,
                  takenAction, finalState>>
  BY <1>1 DEF evVars, evCore, evHeard
<1>3. /\ (Running' <=> Running) /\ UNCHANGED <<Received, OwnResult, GoAction>>
      /\ (LastStep' <=> LastStep)
  BY <1>2 DEF Running, Received, Executed, One, OwnResult, GoAction, LastStep
<1>4. CASE TickInit \/ TickIdle
  <2>1. UNCHANGED <<actionQ, explQ, initCount, finalResult>>
    BY <1>4 DEF TickInit, TickIdle, fsmVars, fsmData
  <2>2. /\ state' = "PUB_ACTION" <=> state = "PUB_ACTION"
        /\ state' \in Waiting => state \in Waiting
        /\ state' = "FINISH" <=> state = "FINISH"
    BY <1>4, Zenon DEF TickInit, TickIdle, fsmVars, Waiting
  <2> QED
    BY <1>1, <1>2, <2>1, <2>2, VerdictFrame
<1>5. CASE TickFinish
  <2>1. state = "FINISH" /\ UNCHANGED <<state, initCount, finalResult, explQ>>
    BY <1>5 DEF TickFinish
  <2>2. finalResult # "none"
    BY <2>1 DEF VerdictInv, Decided
  <2>3. Decided'
    BY <1>1, <1>2, <1>3, <2>1 DEF VerdictInv, Decided, Verdict, Newest
  <2>4. OnlyScripted'
    BY <1>2, <1>3, <2>1, <2>2 DEF VerdictInv, OnlyScripted
  <2>5. Stopped'
    BY <1>2, <1>3, <2>1 DEF VerdictInv, Stopped, Finished
  <2> QED
    BY <2>3, <2>4, <2>5 DEF VerdictInv
<1>6. CASE TickInitAction
  <2>1. /\ state = "PLAN_ACTION" /\ state' = "PUB_ACTION" /\ initCount' = initCount + 1
        /\ UNCHANGED <<finalResult, explQ, actionQ>>
    BY <1>6 DEF TickInitAction
  <2>2. Planned' = Planned + 1
    BY <1>3, <2>1, CountTypes DEF Planned, One
  <2>3. Decided'
    BY <1>1, <1>2, <1>3, <2>1 DEF VerdictInv, Decided, Verdict, Newest, Waiting
  <2>4. OnlyScripted'
    BY <1>2, <1>3, <2>1, <2>2, CountTypes DEF VerdictInv, OnlyScripted
  <2>5. Stopped'
    BY <1>2, <1>3, <2>1 DEF VerdictInv, Stopped, Finished
  <2> QED
    BY <2>3, <2>4, <2>5 DEF VerdictInv
<1>7. CASE TickPlan
  <2>1. PICK r \in FINAL_RESULT :
          /\ finalResult' = r
          /\ ReportResult(r)
          /\ state' = IF r \in Continuing THEN "PUB_ACTION" ELSE "FINISH"
    BY <1>7 DEF TickPlan
  <2>2. state = "PLAN_ACTION" /\ UNCHANGED <<actionQ, initCount>>
    BY <1>7 DEF TickPlan
  <2>3. r # "none" /\ Verdict' = [result |-> r, inc |-> inits]
    BY <1>1, <2>1 DEF Verdict, FINAL_RESULT
  <2>4. explQ' = Publish(explQ, Verdict', QueueSize)
    BY <2>1, <2>3 DEF ReportResult
  <2>5. ASSUME Running
        PROVE  /\ explQ' \in Queues(OwnResult', QueueSize)
               /\ explQ' # <<>> /\ Newest(explQ', finalState') = Verdict'
    <3>1. Verdict' \in OwnResult /\ explQ \in Queues(OwnResult, QueueSize)
      BY <2>3, <2>5 DEF OwnResult, EpisodeInv, ThisEpisode, VerdictInv, Decided
    <3> QED
      BY <1>3, <2>4, <3>1, PublishType, NewestPublish, Sizes
  <2>6. Decided'
    <3>1. state' \notin Waiting
      BY <2>1 DEF Waiting
    <3>2. state' = "FINISH" => finalResult' \notin Continuing \cup {"none"}
      BY <2>1, <2>3
    <3> QED
      BY <1>3, <2>5, <3>1, <3>2 DEF Decided
  <2>7. OnlyScripted'
    BY <1>2, <1>3, <2>1, <2>2, <2>3, <2>5, CountTypes DEF VerdictInv, OnlyScripted
  <2>8. Stopped'
    <3>1. ~Finished /\ state # "FINISH"
      BY <2>2 DEF Finished
    <3> QED
      BY <1>2, <1>3, <2>2, <3>1 DEF VerdictInv, Stopped
  <2> QED
    BY <2>6, <2>7, <2>8 DEF VerdictInv
<1>8. CASE TickPub
  <2>1. /\ state = "PUB_ACTION" /\ state' = "WAIT_ACTION_FINISH"
        /\ UNCHANGED <<initCount, finalResult, explQ>>
        /\ actionQ' = Publish(actionQ, [act |-> newestAction, inc |-> inits], QueueSize)
    BY <1>8 DEF TickPub, fsmData
  <2>2. ASSUME Running
        PROVE  actionQ' \in Queues(GoAction, QueueSize) /\ Len(actionQ') <= Len(actionQ) + 1
    <3>1. [act |-> newestAction, inc |-> inits] \in GoAction
      BY <2>1, <2>2 DEF GoAction, EpisodeInv, TypeInv, ActionChosen, ThisEpisode
    <3>2. actionQ \in Queues(GoAction, QueueSize)
      BY <2>1, <2>2 DEF VerdictInv, Stopped
    <3> QED
      BY <2>1, <3>1, <3>2, PublishType, PublishLength, Sizes
  <2>3. Decided'
    BY <1>1, <1>2, <1>3, <2>1 DEF VerdictInv, Decided, Verdict, Newest, Waiting
  <2>4. Running => Planned' <= Planned
    <3>1. Running => Len(actionQ') \in Nat
      BY <2>2 DEF Queues
    <3> QED
      BY <1>3, <2>1, <2>2, <3>1, CountTypes DEF Planned, One
  <2>5. OnlyScripted'
    <3>1. Running => Planned' \in Nat
      <4>1. Running => Len(actionQ') \in Nat
        BY <2>2 DEF Queues
      <4> QED
        BY <1>3, <4>1, CountTypes DEF Planned, One
    <3> QED
      BY <1>2, <1>3, <2>1, <2>4, <3>1, CountTypes DEF VerdictInv, OnlyScripted
  <2>6. Stopped'
    BY <1>2, <1>3, <2>1, <2>2 DEF VerdictInv, Stopped, Finished
  <2> QED
    BY <2>3, <2>5, <2>6 DEF VerdictInv
<1> QED
  BY <1>4, <1>5, <1>6, <1>7, <1>8 DEF FSMCallback

(* Every subscriber callback of the planner: EPISODE_FINISH comes between  *)
(* two episodes, and nothing else undoes a decision.                       *)
LEMMA VerdictFsmCallbacks == EpisodeInv /\ VerdictInv /\ FsmCallbacks => VerdictInv'
<1> SUFFICES ASSUME EpisodeInv, VerdictInv, FsmCallbacks PROVE VerdictInv'
  OBVIOUS
<1>1. UNCHANGED <<evVars, toEval>>
  BY DEF FsmCallbacks, HabitatStateCallback, OdometryCallback, ConfidenceThresholdCallback,
         TriggerCallback
<1>2. UNCHANGED <<evPc, evCore, globalAction, takenAction, finalState, actionQ, explQ>>
  BY <1>1 DEF evVars, evHeard, toEval
<1>3. CASE HabitatStateCallback /\ Head(habitatQ) = "EPISODE_FINISH"
  <2>1. habitatQ # <<>> /\ state' = "INIT" /\ finalResult' = "none"
    BY <1>3, Zenon DEF HabitatStateCallback, ReInit
  <2>2. habitatQ \notin Queues({"ACTION_EXEC", "ACTION_FINISH"}, QueueSize)
    BY <1>3, <2>1, DeliverType, Sizes
  <2>3. ~Running /\ ~Running'
    BY <1>2, <2>2 DEF EpisodeInv, ThisEpisode, Running
  <2> QED
    BY <2>1, <2>3 DEF VerdictInv, Decided, OnlyScripted, Stopped
<1>4. CASE ~(HabitatStateCallback /\ Head(habitatQ) = "EPISODE_FINISH")
  <2>1. UNCHANGED <<inits, initCount, finalResult>>
    BY <1>4, Zenon DEF FsmCallbacks, HabitatStateCallback, OdometryCallback,
       ConfidenceThresholdCallback, TriggerCallback, fsmData
  <2>2. \/ state' = state
        \/ state' = "PLAN_ACTION" /\ state \in {"WAIT_TRIGGER", "WAIT_ACTION_FINISH"}
    BY <1>4, Zenon DEF FsmCallbacks, HabitatStateCallback, OdometryCallback,
       ConfidenceThresholdCallback, TriggerCallback, Resumes
  <2> QED
    BY <1>2, <2>1, <2>2, VerdictFrame DEF Waiting
<1> QED
  BY <1>3, <1>4

(* An action arrives after the decisions that were published before it.    *)
LEMMA VerdictAction ==
  ASSUME InOrderDelivery
  PROVE  EpisodeInv /\ VerdictInv /\ (ActionCallback \/ LoseAction) => VerdictInv'
<1> SUFFICES ASSUME EpisodeInv, VerdictInv, ActionCallback \/ LoseAction PROVE VerdictInv'
  OBVIOUS
<1>1. /\ actionQ # <<>> /\ explQ = <<>> /\ actionQ' = Tail(actionQ)
      /\ globalAction' \in {globalAction, Head(actionQ)}
      /\ UNCHANGED <<evPc, evCore, takenAction, evHeard, fsmVars, explQ>>
  BY DEF ActionCallback, LoseAction, ActionArrives, evVars
<1>2. UNCHANGED <<episode, feasible, episodeOver, countSteps, finalState,
                  state, inits, initCount, finalResult>>
  BY <1>1 DEF evCore, evHeard, fsmVars, fsmData
<1>3. (Running' <=> Running) /\ UNCHANGED <<Executed, OwnResult, GoAction>>
  BY <1>1, <1>2 DEF Running, Executed, One, OwnResult, GoAction
<1>4. Decided'
  BY <1>1, <1>2, <1>3 DEF VerdictInv, Decided, Verdict, Newest
<1>5. Planned' <= Planned
  <2>1. Len(Tail(actionQ)) = Len(actionQ) - 1
    BY <1>1 DEF EpisodeInv, TypeInv, TypeOK, Queues
  <2> QED
    BY <1>1, <1>2, <1>3, <2>1, CountTypes DEF Planned, Received, One
<1>6. OnlyScripted'
  <2>1. Planned' \in Nat
    <3>1. Len(actionQ') \in Nat
      BY <1>1 DEF EpisodeInv, TypeInv, TypeOK, Queues
    <3> QED
      BY <1>3, <3>1, CountTypes DEF Planned, Received, One
  <2> QED
    BY <1>1, <1>2, <1>3, <1>5, <2>1, CountTypes DEF VerdictInv, OnlyScripted
<1>7. Stopped'
  <2> SUFFICES ASSUME Running PROVE Stopped'
    BY <1>3 DEF Stopped
  <2>1. CASE state = "FINISH"
    BY <1>1, <1>2, <2>1 DEF VerdictInv, Stopped, Finished, LastStep
  <2>2. CASE state # "FINISH"
    <3>1. actionQ \in Queues(GoAction, QueueSize)
      BY <2>2 DEF VerdictInv, Stopped
    <3>2. Head(actionQ) \in GoAction /\ actionQ' \in Queues(GoAction, QueueSize)
      BY <1>1, <3>1, DeliverType, Sizes
    <3>3. Head(actionQ).act = "GO"
      BY <3>2 DEF GoAction
    <3> QED
      BY <1>1, <1>2, <1>3, <3>2, <3>3 DEF VerdictInv, Stopped, Finished, LastStep
  <2> QED
    BY <2>1, <2>2
<1> QED
  BY <1>4, <1>6, <1>7 DEF VerdictInv

(* The evaluator receives a decision.                                      *)
LEMMA VerdictFinalState == EpisodeInv /\ VerdictInv /\ FinalStateCallback => VerdictInv'
<1> SUFFICES ASSUME EpisodeInv, VerdictInv, FinalStateCallback PROVE VerdictInv'
  OBVIOUS
<1>1. /\ explQ # <<>> /\ finalState' = Head(explQ) /\ explQ' = Tail(explQ)
      /\ UNCHANGED <<evPc, evCore, globalAction, takenAction, fsmVars, actionQ>>
  BY DEF FinalStateCallback
<1>2. UNCHANGED <<episode, feasible, episodeOver, countSteps,
                  state, inits, initCount, finalResult>>
  BY <1>1 DEF evCore, fsmVars, fsmData
<1>3. (Running' <=> Running) /\ UNCHANGED <<OwnResult, GoAction>>
  BY <1>1, <1>2 DEF Running, OwnResult, GoAction
<1>4. ASSUME Running
      PROVE  Head(explQ) \in OwnResult /\ Tail(explQ) \in Queues(OwnResult, QueueSize)
  BY <1>1, <1>4, DeliverType, Sizes DEF VerdictInv, Decided
<1>5. Newest(explQ', finalState') = Newest(explQ, finalState)
  BY <1>1, NewestDeliver, Sizes DEF EpisodeInv, TypeInv, TypeOK
<1>6. Decided'
  BY <1>1, <1>2, <1>3, <1>4, <1>5 DEF VerdictInv, Decided, Verdict
<1>7. OnlyScripted'
  BY <1>1, <1>2, <1>3, <1>4 DEF OnlyScripted, OwnResult
<1>8. Stopped'
  BY <1>1, <1>2, <1>3 DEF VerdictInv, Stopped, Finished, LastStep
<1> QED
  BY <1>6, <1>7, <1>8 DEF VerdictInv

(* The evaluator sets up an episode: nothing has been decided yet.         *)
LEMMA VerdictReset ==
  ASSUME SettledReset
  PROVE  EpisodeInv /\ VerdictInv /\ ResetEpisode => VerdictInv'
<1> SUFFICES ASSUME EpisodeInv, VerdictInv, ResetEpisode PROVE VerdictInv'
  OBVIOUS
<1>1. /\ state = "INIT" /\ actionQ = <<>> /\ explQ = <<>>
      /\ countSteps' = 0 /\ globalAction' = NoAction /\ evPc' = "ArmWait"
      /\ UNCHANGED <<fsmVars, toEval>>
  BY DEF ResetEpisode, PlannerSettled
<1>2. episodeOver' = FALSE
  BY Zenon DEF ResetEpisode
<1>3. state' = "INIT" /\ actionQ' = <<>> /\ explQ' = <<>> /\ UNCHANGED <<initCount, finalResult>>
  BY <1>1 DEF fsmVars, fsmData, toEval
<1>4. finalResult' = "none"
  BY <1>1, <1>3 DEF VerdictInv, Decided, Waiting
<1>5. Decided'
  BY <1>3, <1>4, Sizes DEF Decided, Queues
<1>6. OnlyScripted'
  <2>1. Planned' = 0
    BY <1>1, <1>3 DEF Planned, Received, Executed, One
  <2> QED
    BY <1>3, <1>4, <2>1, CountTypes DEF OnlyScripted
<1>7. Stopped'
  BY <1>1, <1>2, <1>3, Sizes DEF Stopped, NoAction, Queues
<1> QED
  BY <1>5, <1>6, <1>7 DEF VerdictInv

(* The evaluator waits, polls, announces or reports.                       *)
LEMMA VerdictMove ==
  VerdictInv
    /\ (ArmWait \/ LeaveWait \/ LeaveLoop \/ FinishAction \/ PollIdle \/ Heartbeat \/ ReportEpisode)
    => VerdictInv'
<1> SUFFICES ASSUME VerdictInv,
                    ArmWait \/ LeaveWait \/ LeaveLoop \/ FinishAction \/ PollIdle
                      \/ Heartbeat \/ ReportEpisode
             PROVE  VerdictInv'
  OBVIOUS
<1>1. /\ UNCHANGED <<evCore, globalAction, takenAction, finalState, fsmVars, toEval>>
      /\ evPc \in {"ArmWait", "WaitReady", "Poll", "Finish", "Report"}
      /\ evPc' \in {"WaitReady", "Poll", "Report", "Reset", "Done"}
      /\ evPc' = "Report" => episodeOver \/ ~feasible
  BY DEF ArmWait, LeaveWait, LeaveLoop, FinishAction, PollIdle, Heartbeat, ReportEpisode,
     Polling, evVars, evHeard
<1>2. UNCHANGED <<episode, feasible, episodeOver, countSteps, state, inits, initCount,
                  finalResult, actionQ, explQ>>
  BY <1>1 DEF evCore, fsmVars, fsmData, toEval
<1>3. (Running' => Running) /\ UNCHANGED <<Received, Planned, OwnResult, GoAction>>
  BY <1>1, <1>2 DEF Running, Received, Executed, Planned, One, OwnResult, GoAction
<1>4. Decided'
  BY <1>1, <1>2, <1>3 DEF VerdictInv, Decided, Verdict, Newest
<1>5. OnlyScripted'
  BY <1>1, <1>2, <1>3 DEF VerdictInv, OnlyScripted
<1>6. Stopped'
  BY <1>1, <1>2, <1>3 DEF VerdictInv, Stopped, Finished, LastStep
<1> QED
  BY <1>4, <1>5, <1>6 DEF VerdictInv

(* An action is taken from the slot, translated and cleared: it is the     *)
(* planner's, or the STOP that replaces the last one the limit allows.     *)
LEMMA VerdictSlot ==
  EpisodeInv /\ VerdictInv /\ (TakeAction \/ TranslateAction \/ ClearAction) => VerdictInv'
<1> SUFFICES ASSUME EpisodeInv, VerdictInv, TakeAction \/ TranslateAction \/ ClearAction
             PROVE  VerdictInv'
  OBVIOUS
<1>1. /\ UNCHANGED <<evCore, finalState, fsmVars, toEval>>
      /\ evPc \in {"Poll", "Translate", "Clear"} /\ evPc' \in {"Translate", "Clear", "Step"}
  BY DEF TakeAction, Polling, TranslateAction, ClearAction, evHeard
<1>2. UNCHANGED <<episode, feasible, episodeOver, countSteps, state, inits, initCount,
                  finalResult, actionQ, explQ>>
  BY <1>1 DEF evCore, fsmVars, fsmData, toEval
<1>3. Running /\ Running' /\ UNCHANGED <<OwnResult, GoAction>>
  BY <1>1, <1>2 DEF Running, OwnResult, GoAction
<1>4. UNCHANGED <<Received, Planned>>
  <2>1. countSteps \in Nat
    BY StepsAssumption DEF EpisodeInv, TypeInv, TypeOK
  <2>2. CASE TakeAction
    <3>1. /\ evPc = "Poll" /\ evPc' = "Translate"
          /\ globalAction # NoAction
      BY <2>2 DEF TakeAction, Polling
    <3> QED
      BY <1>2, <2>1, <3>1 DEF Received, Executed, Planned, One
  <2>3. CASE TranslateAction
    BY <1>2, <2>3 DEF Received, Executed, Planned, One, TranslateAction
  <2>4. CASE ClearAction
    BY <1>2, <2>1, <2>4 DEF Received, Executed, Planned, One, ClearAction
  <2> QED
    BY <2>2, <2>3, <2>4
<1>5. Decided'
  BY <1>1, <1>2, <1>3 DEF VerdictInv, Decided, Verdict, Newest
<1>6. OnlyScripted'
  BY <1>1, <1>2, <1>3, <1>4 DEF VerdictInv, OnlyScripted
<1>7. Stopped'
  <2>1. globalAction'.act = "STOP" => Finished \/ (LastStep /\ evPc' \in {"Translate", "Clear"})
    BY <1>3 DEF VerdictInv, Stopped, LastStep, TakeAction, Polling, TranslateAction, ClearAction,
       NoAction
  <2>2. evPc' \in {"Clear", "Step"} /\ takenAction'.act = "STOP" => Finished \/ LastStep
    BY <1>3 DEF VerdictInv, Stopped, TakeAction, TranslateAction, ClearAction
  <2>3. (Finished' <=> Finished) /\ (LastStep' <=> LastStep)
    BY <1>2 DEF Finished, LastStep
  <2> QED
    BY <1>1, <1>2, <1>3, <2>1, <2>2, <2>3 DEF VerdictInv, Stopped
<1> QED
  BY <1>5, <1>6, <1>7 DEF VerdictInv

(* An action is executed.                                                  *)
LEMMA VerdictStep == EpisodeInv /\ VerdictInv /\ StepEnv => VerdictInv'
<1> SUFFICES ASSUME EpisodeInv, VerdictInv, StepEnv PROVE VerdictInv'
  OBVIOUS
<1>1. /\ evPc = "Step" /\ evPc' = "Finish" /\ countSteps' = countSteps + 1
      /\ episodeOver' = (takenAction.act = "STOP" \/ countSteps' = MaxSteps)
      /\ UNCHANGED <<episode, feasible, globalAction, takenAction, evHeard, fsmVars, toEval>>
  BY DEF StepEnv
<1>2. UNCHANGED <<finalState, state, inits, initCount, finalResult, actionQ, explQ>>
  BY <1>1 DEF evHeard, fsmVars, fsmData, toEval
<1>3. Running /\ Running' /\ UNCHANGED <<OwnResult, GoAction>>
  BY <1>1 DEF Running, OwnResult, GoAction
<1>4. countSteps \in Nat
  BY StepsAssumption DEF EpisodeInv, TypeInv, TypeOK
<1>5. UNCHANGED <<Received, Planned>>
  BY <1>1, <1>2, <1>4 DEF Received, Executed, Planned, One
<1>6. Decided'
  BY <1>2, <1>3 DEF VerdictInv, Decided, Verdict, Newest
<1>7. OnlyScripted'
  BY <1>1, <1>2, <1>3, <1>5 DEF VerdictInv, OnlyScripted
<1>8. Stopped'
  <2>1. globalAction.act = "STOP" => Finished
    BY <1>1, <1>3 DEF VerdictInv, Stopped
  <2>2. episodeOver' => Finished \/ countSteps' = MaxSteps
    <3> SUFFICES ASSUME episodeOver', countSteps' # MaxSteps PROVE Finished
      OBVIOUS
    <3>1. takenAction.act = "STOP"
      BY <1>1
    <3>2. ~LastStep
      BY <1>1, <1>4, StepsAssumption DEF LastStep
    <3> QED
      BY <1>1, <1>3, <3>1, <3>2 DEF VerdictInv, Stopped
  <2>3. Finished' <=> Finished
    BY <1>2 DEF Finished
  <2> QED
    BY <1>1, <1>2, <1>3, <2>1, <2>2, <2>3 DEF VerdictInv, Stopped
<1> QED
  BY <1>6, <1>7, <1>8 DEF VerdictInv

(* Every step.                                                             *)
LEMMA VerdictStepwise ==
  ASSUME InOrderDelivery, SettledReset
  PROVE  EpisodeInv /\ VerdictInv /\ [Next]_vars => VerdictInv'
<1> SUFFICES ASSUME EpisodeInv, VerdictInv, [Next]_vars PROVE VerdictInv'
  OBVIOUS
<1>1. CASE RosStateCallback \/ PublishObservations \/ UNCHANGED vars
  <2>1. UNCHANGED <<evPc, evCore, globalAction, takenAction, finalState, fsmVars, actionQ, explQ>>
    BY <1>1 DEF RosStateCallback, PublishObservations, vars, evVars, evHeard, toEval
  <2>2. UNCHANGED <<state, inits, initCount, finalResult>>
    BY <2>1 DEF fsmVars, fsmData
  <2> QED
    BY <2>1, <2>2, VerdictFrame
<1>2. CASE EvaluatorCallbacks \/ LoseAction
  BY <1>1, <1>2, VerdictAction, VerdictFinalState DEF EvaluatorCallbacks
<1>3. CASE MainThread
  BY <1>3, VerdictReset, VerdictMove, VerdictSlot, VerdictStep DEF MainThread
<1> QED
  BY <1>1, <1>2, <1>3, VerdictTick, VerdictFsmCallbacks DEF Next

(* The initial state.                                                      *)
LEMMA VerdictInit == Init => VerdictInv
<1> SUFFICES ASSUME Init PROVE VerdictInv
  OBVIOUS
<1>1. evPc = "Reset" /\ state = "INIT" /\ finalResult = "none"
  BY DEF Init
<1> QED
  BY <1>1 DEF VerdictInv, Decided, OnlyScripted, Stopped, Running

(* When check_failure classifies a feasible episode, final_state is a      *)
(* decision of this episode, and the one that ended it if the planner did: *)
(* the planner sends its decision before the action, and the evaluator     *)
(* executes at least one planned action, as the limit exceeds the script.  *)
(* Neither lost actions nor a watchdog that fires early can change that.   *)
THEOREM VerdictFromThisEpisodeHolds ==
  ASSUME InOrderDelivery, SettledReset
  PROVE  Spec => []VerdictFromThisEpisode
<1>1. EpisodeInv /\ VerdictInv => VerdictFromThisEpisode
  <2> SUFFICES ASSUME EpisodeInv, VerdictInv, evPc = "Report", feasible
               PROVE  /\ finalState.inc = episode
                      /\ countSteps < MaxSteps =>
                           finalState.result = finalResult /\ finalResult \notin Continuing
    BY DEF VerdictFromThisEpisode
  <2>1. Running
    BY DEF Running
  <2>2. Finished \/ countSteps = MaxSteps
    BY <2>1 DEF VerdictInv, Stopped
  <2>3. CASE Finished
    <3>1. finalResult \notin Continuing \cup {"none"}
      BY <2>3 DEF VerdictInv, Decided, Finished
    <3>2. finalState = Verdict /\ inits = episode
      BY <2>1, <2>3, <3>1 DEF VerdictInv, Decided, Newest, Finished, EpisodeInv, ThisEpisode
    <3> QED
      BY <3>1, <3>2 DEF Verdict
  <2>4. CASE countSteps = MaxSteps
    <3>1. /\ countSteps \in Nat /\ countSteps <= Received
          /\ initCount <= InitActions
      BY StepsAssumption DEF EpisodeInv, TypeInv, TypeOK, Received, Executed, One
    <3>2. ~(Received <= initCount)
      BY <2>4, <3>1, StepsAssumption, CountTypes
    <3>3. finalState.inc = episode
      BY <2>1, <3>2, CountTypes DEF VerdictInv, OnlyScripted
    <3>4. ~(countSteps < MaxSteps)
      BY <2>4, <3>1
    <3> QED
      BY <3>3, <3>4
  <2> QED
    BY <2>2, <2>3, <2>4
<1>2. Spec => []EpisodeInv
  BY EpisodeInvariant
<1>3. EpisodeInv /\ VerdictInv /\ [Next]_vars => VerdictInv'
  BY VerdictStepwise
<1> QED
  BY <1>1, <1>2, <1>3, VerdictInit, PTL DEF Spec
=============================================================================
