---------------------- MODULE EpisodeRefinementProofs ----------------------
(***************************************************************************)
(* EpisodeProtocol implements Lockstep: its initial states map to the      *)
(* initial state of Lockstep, and each of its steps to a step of Lockstep  *)
(* or to a stuttering one.  Besides the timing, this needs that no action  *)
(* is lost: a lost action gives the turn back to the planner.              *)
(***************************************************************************)
EXTENDS EpisodeProtocolProofs

(***************************************************************************)
(* What TurnInv does not say: how an episode starts, and that one with its *)
(* target on another floor executes nothing.                               *)
(***************************************************************************)
EpisodeStart ==
  /\ evPc \in {"ArmWait", "WaitReady"} => countSteps = 0 /\ ~episodeOver
  /\ ~feasible => countSteps = 0 /\ evPc \notin {"Translate", "Clear", "Step", "Finish"}

MapInv == TurnInv /\ EpisodeStart

(* The cases of the refinement mapping.                                    *)
IdleTurn == evPc \in {"Reset", "Done", "ArmWait", "WaitReady"}
OverTurn == evPc = "Report" \/ (evPc \in {"Poll", "Finish"} /\ episodeOver)

(* The mapping, case by case.                                              *)
LEMMA TurnCases ==
  /\ IdleTurn => Turn = "idle"
  /\ ~IdleTurn /\ OverTurn => Turn = "over"
  /\ ~IdleTurn /\ ~OverTurn /\ Issued => Turn = "act"
  /\ ~IdleTurn /\ ~OverTurn /\ ~Issued => Turn = "plan"
BY DEF IdleTurn, OverTurn, Turn

(* The same for the next state.                                            *)
LEMMA TurnCasesNext ==
  /\ IdleTurn' => Turn' = "idle"
  /\ ~IdleTurn' /\ OverTurn' => Turn' = "over"
  /\ ~IdleTurn' /\ ~OverTurn' /\ Issued' => Turn' = "act"
  /\ ~IdleTurn' /\ ~OverTurn' /\ ~Issued' => Turn' = "plan"
BY DEF IdleTurn, OverTurn, Turn

(* The evaluator stays where it is; the planner may decide on an action.   *)
LEMMA SamePlace ==
  ASSUME UNCHANGED <<evPc, episode, episodeOver, countSteps>>, Issued => Issued'
  PROVE  [Abstract!Next]_(Abstract!vars)
<1>1. (IdleTurn' <=> IdleTurn) /\ (OverTurn' <=> OverTurn)
  BY DEF IdleTurn, OverTurn
<1>2. Turn' = Turn \/ (Turn = "plan" /\ Turn' = "act")
  BY <1>1, TurnCases, TurnCasesNext
<1> QED
  BY <1>2 DEF Abstract!Next, Abstract!Issue, Abstract!vars

(***************************************************************************)
(* Every step.                                                             *)
(***************************************************************************)

(* Every tick of the planner.                                              *)
LEMMA MapTick == MapInv /\ FSMCallback => EpisodeStart' /\ [Abstract!Next]_(Abstract!vars)
<1> SUFFICES ASSUME MapInv, FSMCallback
             PROVE  EpisodeStart' /\ [Abstract!Next]_(Abstract!vars)
  OBVIOUS
<1>1. UNCHANGED evVars
  BY DEF FSMCallback, TickInit, TickIdle, TickFinish, TickInitAction, TickPlan, TickPub
<1>2. UNCHANGED <<evPc, episode, feasible, episodeOver, countSteps, globalAction>>
  BY <1>1 DEF evVars, evCore
<1>3. EpisodeStart'
  BY <1>2 DEF MapInv, EpisodeStart
<1>4. Issued => Issued'
  <2> SUFFICES ASSUME Issued PROVE Issued'
    OBVIOUS
  <2>1. CASE actionQ' # <<>>
    BY <2>1 DEF Issued
  <2>2. CASE globalAction # NoAction \/ evPc \in {"Translate", "Clear", "Step"}
    BY <1>2, <2>2 DEF Issued
  <2>3. CASE state = "PUB_ACTION" \/ (state = "FINISH" /\ ~haveFinished)
    <3>1. TickFinish \/ TickPub
      BY <2>3, Zenon DEF FSMCallback, TickInit, TickIdle, TickInitAction, TickPlan
    <3>2. \E m : actionQ' = Publish(actionQ, m, QueueSize)
      BY <3>1 DEF TickFinish, TickPub
    <3>3. PlannerBusy
      BY <2>3 DEF PlannerBusy
    <3>4. actionQ = <<>>
      BY <3>3 DEF MapInv, TurnInv, LoneTurn
    <3>5. PICK m : actionQ' = <<m>>
      BY <3>2, <3>4, OneAction
    <3> QED
      BY <2>1, <3>5
  <2>4. CASE actionQ # <<>> /\ actionQ' = <<>>
    <3>1. ~PlannerBusy
      BY <2>4 DEF MapInv, TurnInv, LoneTurn
    <3>2. ~TickFinish /\ ~TickPub
      BY <3>1, Zenon DEF PlannerBusy, TickFinish, TickPub
    <3>3. actionQ' = actionQ
      BY <3>2 DEF FSMCallback, TickInit, TickIdle, TickInitAction, TickPlan
    <3> QED
      BY <2>4, <3>3
  <2> QED
    BY <2>1, <2>2, <2>3, <2>4 DEF Issued
<1> QED
  BY <1>2, <1>3, <1>4, SamePlace

(* Every callback and timer, as long as no action is lost.                 *)
LEMMA MapCallbacks ==
  MapInv /\ (FsmCallbacks \/ EvaluatorCallbacks \/ PublishObservations)
    => EpisodeStart' /\ [Abstract!Next]_(Abstract!vars)
<1> SUFFICES ASSUME MapInv, FsmCallbacks \/ EvaluatorCallbacks \/ PublishObservations
             PROVE  EpisodeStart' /\ [Abstract!Next]_(Abstract!vars)
  OBVIOUS
<1>1. UNCHANGED <<evPc, evCore, takenAction>>
  BY Zenon DEF FsmCallbacks, HabitatStateCallback, OdometryCallback, ConfidenceThresholdCallback,
     TriggerCallback, EvaluatorCallbacks, ActionCallback, RosStateCallback, FinalStateCallback,
     PublishObservations, evVars
<1>2. UNCHANGED <<evPc, episode, feasible, episodeOver, countSteps>>
  BY <1>1 DEF evCore
<1>3. EpisodeStart'
  BY <1>2 DEF MapInv, EpisodeStart
<1>4. CASE FsmCallbacks
  <2>1. UNCHANGED <<globalAction, actionQ>>
    BY <1>4 DEF FsmCallbacks, HabitatStateCallback, OdometryCallback, ConfidenceThresholdCallback,
       TriggerCallback, evVars, toEval
  <2>2. CASE HabitatStateCallback /\ Head(habitatQ) = "EPISODE_FINISH"
    <3>1. evPc \in {"Reset", "Done"}
      <4>1. habitatQ # <<>>
        BY <2>2 DEF HabitatStateCallback
      <4>2. habitatQ \notin Queues({"ACTION_EXEC", "ACTION_FINISH"}, QueueSize)
        BY <2>2, <4>1, DeliverType, Sizes
      <4> QED
        BY <4>2 DEF MapInv, TurnInv, EpisodeInv, ThisEpisode, Running, TypeInv, TypeOK
    <3>2. IdleTurn /\ IdleTurn'
      BY <1>2, <3>1 DEF IdleTurn
    <3>3. Turn' = Turn
      BY <3>2, TurnCases, TurnCasesNext
    <3> QED
      BY <1>2, <1>3, <3>3 DEF Abstract!vars
  <2>3. CASE ~(HabitatStateCallback /\ Head(habitatQ) = "EPISODE_FINISH")
    <3>1. UNCHANGED haveFinished
      BY <1>4, <2>3, Zenon DEF FsmCallbacks, HabitatStateCallback, OdometryCallback,
         ConfidenceThresholdCallback, TriggerCallback, fsmData
    <3>2. state' = state \/ state \notin {"PUB_ACTION", "FINISH"}
      BY <1>4, <2>3, Zenon DEF FsmCallbacks, HabitatStateCallback, OdometryCallback,
         ConfidenceThresholdCallback, TriggerCallback, Resumes
    <3>3. Issued => Issued'
      BY <1>2, <2>1, <3>1, <3>2 DEF Issued
    <3> QED
      BY <1>2, <1>3, <3>3, SamePlace
  <2> QED
    BY <2>2, <2>3
<1>5. CASE EvaluatorCallbacks \/ PublishObservations
  <2>1. UNCHANGED <<state, haveFinished>>
    BY <1>5 DEF EvaluatorCallbacks, ActionCallback, RosStateCallback, FinalStateCallback,
       PublishObservations, fsmVars, fsmData
  <2>2. CASE ActionCallback
    <3>1. globalAction' # NoAction
      BY <2>2, ActionTaken, RealAction DEF ActionCallback, ActionArrives, MapInv
    <3> QED
      BY <1>2, <1>3, <3>1, SamePlace DEF Issued
  <2>3. CASE ~ActionCallback
    <3>1. UNCHANGED <<actionQ, globalAction>>
      BY <1>5, <2>3 DEF EvaluatorCallbacks, RosStateCallback, FinalStateCallback,
         PublishObservations, evVars, toEval
    <3>2. Issued => Issued'
      BY <1>2, <2>1, <3>1 DEF Issued
    <3> QED
      BY <1>2, <1>3, <3>2, SamePlace
  <2> QED
    BY <2>2, <2>3
<1> QED
  BY <1>4, <1>5

(* Between the episodes.                                                   *)
LEMMA MapBeforeEpisode ==
  MapInv /\ (ResetEpisode \/ ArmWait \/ LeaveWait \/ LeaveLoop \/ ReportEpisode)
    => EpisodeStart' /\ [Abstract!Next]_(Abstract!vars)
<1> SUFFICES ASSUME MapInv, ResetEpisode \/ ArmWait \/ LeaveWait \/ LeaveLoop \/ ReportEpisode
             PROVE  EpisodeStart' /\ [Abstract!Next]_(Abstract!vars)
  OBVIOUS
<1>1. CASE ResetEpisode
  <2>1. /\ evPc = "Reset" /\ episode < MaxEpisodes /\ evPc' = "ArmWait"
        /\ episode' = episode + 1 /\ countSteps' = 0
    BY <1>1 DEF ResetEpisode
  <2>2. episodeOver' = FALSE
    BY <1>1, Zenon DEF ResetEpisode
  <2>3. Turn = "idle" /\ Turn' = "idle"
    BY <2>1, TurnCases, TurnCasesNext DEF IdleTurn
  <2>4. EpisodeStart'
    BY <2>1, <2>2 DEF EpisodeStart
  <2> QED
    BY <2>1, <2>3, <2>4 DEF Abstract!Next, Abstract!Open
<1>2. CASE ArmWait
  <2>1. /\ evPc = "ArmWait" /\ evPc' = "WaitReady"
        /\ UNCHANGED <<episode, feasible, episodeOver, countSteps>>
    BY <1>2 DEF ArmWait, evCore
  <2>2. Turn = "idle" /\ Turn' = "idle"
    BY <2>1, TurnCases, TurnCasesNext DEF IdleTurn
  <2>3. EpisodeStart'
    BY <2>1 DEF MapInv, EpisodeStart
  <2> QED
    BY <2>1, <2>2, <2>3 DEF Abstract!vars
<1>3. CASE LeaveWait
  <2>1. /\ evPc = "WaitReady" /\ evPc' = "Poll"
        /\ UNCHANGED <<episode, feasible, episodeOver, countSteps>>
    BY <1>3 DEF LeaveWait, evCore
  <2>2. countSteps = 0 /\ ~episodeOver'
    BY <2>1 DEF MapInv, EpisodeStart
  <2>3. Turn = "idle"
    BY <2>1, TurnCases DEF IdleTurn
  <2>4. Turn' \in {"plan", "act"}
    BY <2>1, <2>2, TurnCasesNext DEF IdleTurn, OverTurn
  <2>5. EpisodeStart'
    BY <2>1 DEF MapInv, EpisodeStart
  <2> QED
    BY <2>1, <2>2, <2>3, <2>4, <2>5 DEF Abstract!Next, Abstract!Start
<1>4. CASE LeaveLoop
  <2>1. /\ evPc = "Poll" /\ evPc' = "Report" /\ (episodeOver \/ ~feasible)
        /\ UNCHANGED <<episode, feasible, episodeOver, countSteps>>
    BY <1>4 DEF LeaveLoop, evCore
  <2>2. Turn' = "over"
    BY <2>1, TurnCasesNext DEF IdleTurn, OverTurn
  <2>3. EpisodeStart'
    BY <2>1 DEF MapInv, EpisodeStart
  <2>4. CASE episodeOver
    <3>1. Turn = "over"
      BY <2>1, <2>4, TurnCases DEF IdleTurn, OverTurn
    <3> QED
      BY <2>1, <2>2, <2>3, <3>1 DEF Abstract!vars
  <2>5. CASE ~episodeOver
    <3>1. countSteps = 0
      BY <2>1, <2>5 DEF MapInv, EpisodeStart
    <3>2. Turn \in {"plan", "act"}
      BY <2>1, <2>5, TurnCases DEF IdleTurn, OverTurn
    <3> QED
      BY <2>1, <2>2, <2>3, <3>1, <3>2 DEF Abstract!Next, Abstract!Abort
  <2> QED
    BY <2>4, <2>5
<1>5. CASE ReportEpisode
  <2>1. /\ evPc = "Report" /\ evPc' \in {"Done", "Reset"}
        /\ UNCHANGED <<episode, feasible, episodeOver, countSteps>>
    BY <1>5 DEF ReportEpisode, evCore
  <2>2. Turn = "over" /\ Turn' = "idle"
    BY <2>1, TurnCases, TurnCasesNext DEF IdleTurn, OverTurn
  <2>3. EpisodeStart'
    BY <2>1 DEF MapInv, EpisodeStart
  <2> QED
    BY <2>1, <2>2, <2>3 DEF Abstract!Next, Abstract!Close
<1> QED
  BY <1>1, <1>2, <1>3, <1>4, <1>5

(* While an episode runs.                                                  *)
LEMMA MapEpisode ==
  MapInv /\ (TakeAction \/ TranslateAction \/ ClearAction \/ StepEnv \/ FinishAction
               \/ PollIdle \/ Heartbeat)
    => EpisodeStart' /\ [Abstract!Next]_(Abstract!vars)
<1> SUFFICES ASSUME MapInv, TakeAction \/ TranslateAction \/ ClearAction \/ StepEnv
                              \/ FinishAction \/ PollIdle \/ Heartbeat
             PROVE  EpisodeStart' /\ [Abstract!Next]_(Abstract!vars)
  OBVIOUS
<1>1. CASE TakeAction \/ TranslateAction \/ ClearAction
  <2>1. /\ \/ evPc = "Poll" /\ ~episodeOver /\ feasible /\ globalAction # NoAction
           \/ evPc \in {"Translate", "Clear"}
        /\ evPc' \in {"Translate", "Clear", "Step"}
        /\ UNCHANGED <<episode, feasible, episodeOver, countSteps>>
    BY <1>1 DEF TakeAction, Polling, TranslateAction, ClearAction, evCore
  <2>2. ~episodeOver /\ Issued /\ Issued'
    BY <2>1 DEF MapInv, TurnInv, EpisodeInv, TypeInv, StepsLeft, Issued
  <2>3. Turn = "act" /\ Turn' = "act"
    BY <2>1, <2>2, TurnCases, TurnCasesNext DEF IdleTurn, OverTurn
  <2>4. EpisodeStart'
    BY <2>1 DEF MapInv, EpisodeStart
  <2> QED
    BY <2>1, <2>3, <2>4 DEF Abstract!vars
<1>2. CASE StepEnv
  <2>1. /\ evPc = "Step" /\ evPc' = "Finish" /\ countSteps' = countSteps + 1
        /\ UNCHANGED <<episode, feasible, globalAction, fsmVars, toEval>>
    BY <1>2 DEF StepEnv
  <2>2. countSteps' = MaxSteps => episodeOver'
    BY <1>2, Zenon DEF StepEnv
  <2>3. ~episodeOver /\ countSteps \in Nat /\ countSteps <= MaxSteps /\ countSteps # MaxSteps
    BY <2>1 DEF MapInv, TurnInv, EpisodeInv, TypeInv, TypeOK, StepsLeft
  <2>4. countSteps < MaxSteps /\ (~episodeOver' => countSteps' < MaxSteps)
    BY <2>1, <2>2, <2>3, StepsAssumption
  <2>5. Turn = "act"
    BY <2>1, <2>3, TurnCases DEF IdleTurn, OverTurn, Issued
  <2>6. ~Issued'
    <3>1. EvaluatorBusy
      BY <2>1 DEF EvaluatorBusy
    <3>2. actionQ = <<>> /\ ~SlotFull /\ ~PlannerBusy
      BY <3>1 DEF MapInv, TurnInv, LoneTurn
    <3>3. actionQ' = <<>> /\ globalAction' = NoAction /\ UNCHANGED <<state, haveFinished>>
      BY <2>1, <3>2 DEF SlotFull, toEval, fsmVars, fsmData
    <3> QED
      BY <2>1, <3>2, <3>3 DEF Issued, PlannerBusy
  <2>7. Turn' = "over" \/ (Turn' = "plan" /\ countSteps' < MaxSteps)
    BY <2>1, <2>4, <2>6, TurnCasesNext DEF IdleTurn, OverTurn
  <2>8. EpisodeStart'
    BY <2>1 DEF MapInv, EpisodeStart
  <2> QED
    BY <2>1, <2>4, <2>5, <2>7, <2>8 DEF Abstract!Next, Abstract!Execute
<1>3. CASE FinishAction
  <2>1. /\ evPc = "Finish" /\ evPc' = "Poll"
        /\ UNCHANGED <<episode, feasible, episodeOver, countSteps, globalAction, fsmVars, toEval>>
    BY <1>3 DEF FinishAction, evCore
  <2>2. Issued' <=> Issued
    BY <2>1 DEF Issued, fsmVars, fsmData, toEval
  <2>3. Turn' = Turn
    BY <2>1, <2>2, TurnCases, TurnCasesNext DEF IdleTurn, OverTurn
  <2>4. EpisodeStart'
    BY <2>1 DEF MapInv, EpisodeStart
  <2> QED
    BY <2>1, <2>3, <2>4 DEF Abstract!vars
<1>4. CASE PollIdle \/ Heartbeat
  <2>1. UNCHANGED <<evPc, evCore, globalAction, fsmVars, toEval>>
    BY <1>4 DEF PollIdle, Heartbeat, evVars
  <2>2. UNCHANGED <<evPc, episode, feasible, episodeOver, countSteps>> /\ (Issued => Issued')
    BY <2>1 DEF evCore, Issued, fsmVars, fsmData, toEval
  <2>3. EpisodeStart'
    BY <2>2 DEF MapInv, EpisodeStart
  <2> QED
    BY <2>2, <2>3, SamePlace
<1> QED
  BY <1>1, <1>2, <1>3, <1>4

(***************************************************************************)
(* The refinement.                                                         *)
(***************************************************************************)

(* The mapping's invariant is inductive, and every step is mapped.         *)
LEMMA MapStep ==
  ASSUME InOrderDelivery, SettledReset, AccurateWatchdog, LossyActions = {}
  PROVE  MapInv /\ [Next]_vars => MapInv' /\ [Abstract!Next]_(Abstract!vars)
<1> SUFFICES ASSUME MapInv, [Next]_vars PROVE MapInv' /\ [Abstract!Next]_(Abstract!vars)
  OBVIOUS
<1>1. TurnInv'
  BY TurnInductive DEF MapInv
<1>2. CASE Next
  <2>1. ~LoseAction
    BY DEF LoseAction
  <2> QED
    BY <1>1, <1>2, <2>1, MapTick, MapCallbacks, MapBeforeEpisode, MapEpisode
       DEF Next, MainThread, MapInv
<1>3. CASE UNCHANGED vars
  <2>1. UNCHANGED <<evPc, episode, feasible, episodeOver, countSteps>>
    BY <1>3 DEF vars, evVars, evCore
  <2>2. EpisodeStart'
    BY <2>1 DEF MapInv, EpisodeStart
  <2>3. Issued => Issued'
    BY <1>3 DEF Issued, vars, evVars, fsmVars, fsmData, toEval
  <2> QED
    BY <1>1, <2>1, <2>2, <2>3, SamePlace DEF MapInv
<1> QED
  BY <1>2, <1>3

(* The initial states.                                                     *)
LEMMA MapInit == Init => MapInv /\ Abstract!Init
<1> SUFFICES ASSUME Init PROVE MapInv /\ Abstract!Init
  OBVIOUS
<1>1. evPc = "Reset" /\ episode = 0 /\ countSteps = 0
  BY DEF Init
<1>2. feasible = TRUE
  BY Zenon DEF Init
<1>3. Turn = "idle"
  BY <1>1, TurnCases DEF IdleTurn
<1> QED
  BY <1>1, <1>2, <1>3, TurnInit DEF MapInv, EpisodeStart, Abstract!Init

(* Within an episode, planner and evaluator alternate strictly: every      *)
(* executed action was issued after the previous one had been executed,    *)
(* whichever way messages, callbacks and timers interleave.                *)
THEOREM ImplementsLockstepHolds ==
  ASSUME InOrderDelivery, SettledReset, AccurateWatchdog, LossyActions = {}
  PROVE  Spec => ImplementsLockstep
<1>1. MapInv /\ [Next]_vars => MapInv' /\ [Abstract!Next]_(Abstract!vars)
  BY MapStep
<1> QED
  BY MapInit, <1>1, PTL DEF Spec, ImplementsLockstep, Abstract!Spec
=============================================================================
