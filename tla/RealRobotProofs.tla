---------------------------- MODULE RealRobotProofs ----------------------------
(***************************************************************************)
(* Proofs about RealRobot, for every duration, delay, threshold and bound, *)
(* with goal poses at any time, as goalCallback takes them.                *)
(***************************************************************************)
EXTENDS RealProperties, SequenceTheorems, TLAPS

\* Message i of the mail is a trajectory.
IsTrajectory(i) == mail[i].topic = "trajectory"

-----------------------------------------------------------------------------
(* Lemmas about the mail. *)

\* What is left when message i is taken: those before it, and those after it
\* one place earlier.
LEMMA WithoutFacts ==
  ASSUME NEW s \in Seq(Message), NEW i \in 1 .. Len(s)
  PROVE  /\ Without(s, i) \in Seq(Message)
         /\ Len(Without(s, i)) = Len(s) - 1
         /\ \A k \in 1 .. Len(s) - 1 :
              Without(s, i)[k] = IF k < i THEN s[k] ELSE s[k + 1]
<1> DEFINE a == SubSeq(s, 1, i - 1)
           b == SubSeq(s, i + 1, Len(s))
<1>1. /\ a \in Seq(Message) /\ Len(a) = i - 1
      /\ \A k \in 1 .. i - 1 : a[k] = s[k]
  OBVIOUS
<1>2. /\ b \in Seq(Message) /\ Len(b) = Len(s) - i
      /\ \A k \in 1 .. Len(s) - i : b[k] = s[i + k]
  OBVIOUS
<1> HIDE DEF a, b
<1>3. /\ a \o b \in Seq(Message) /\ Len(a \o b) = Len(a) + Len(b)
      /\ \A k \in 1 .. Len(a) + Len(b) :
           (a \o b)[k] = IF k <= Len(a) THEN a[k] ELSE b[k - Len(a)]
  BY <1>1, <1>2, ConcatProperties
<1>4. Without(s, i) = a \o b
  BY DEF Without, a, b
<1>5. i \in Int /\ Len(s) \in Int /\ 1 <= i /\ i <= Len(s)
  OBVIOUS
<1>6. ASSUME NEW k \in 1 .. Len(s) - 1
      PROVE  (a \o b)[k] = IF k < i THEN s[k] ELSE s[k + 1]
  <2>1. CASE k < i
    BY <1>1, <1>2, <1>3, <1>5, <1>6, <2>1
  <2>2. CASE ~(k < i)
    <3>1. k - Len(a) \in 1 .. Len(s) - i /\ i + (k - Len(a)) = k + 1
      BY <1>1, <1>5, <1>6, <2>2
    <3>2. (a \o b)[k] = b[k - Len(a)]
      BY <1>1, <1>2, <1>3, <1>5, <1>6, <2>2
    <3>3. b[k - Len(a)] = s[k + 1]
      BY <1>2, <3>1
    <3> QED
      BY <2>2, <3>2, <3>3
  <2> QED
    BY <2>1, <2>2
<1>7. a \o b \in Seq(Message) /\ Len(a \o b) = Len(s) - 1
  BY <1>1, <1>2, <1>3, <1>5
<1> QED
  BY <1>4, <1>6, <1>7

\* A trajectory, or a message, a tick later.
LEMMA AgedFacts ==
  ASSUME NEW t \in [id : Nat, age : Ages, dur : Int]
  PROVE  /\ Aged(t) \in [id : Nat, age : Ages, dur : Int]
         /\ Aged(t).id = t.id /\ Aged(t).dur = t.dur
         /\ Aged(t).age = (IF t.age < AgeCap THEN t.age + 1 ELSE t.age)
         /\ Aged(t).age >= t.age
  BY AgeCapAssumption, ReplanTimeAssumption DEF Aged, Ages

-----------------------------------------------------------------------------
(* Types. *)

\* The types a tick does not change.
LEMMA AgedType ==
  ASSUME MaxPlans \in Nat, NEW t \in FsmTrajectory
  PROVE  Aged(t) \in FsmTrajectory
  BY AgeCapAssumption, ReplanTimeAssumption DEF Aged, FsmTrajectory, Ages

\* A trajectory of the planner is one for the server.
LEMMA FsmTrajectoryIsTrajectory ==
  ASSUME MaxPlans \in Nat
  PROVE  FsmTrajectory \subseteq [id : Nat, age : Ages, dur : Int]
  BY DurationAssumption DEF FsmTrajectory

\* Both nodes start without a trajectory.
LEMMA NoTrajectoryType == NoTrajectory \in FsmTrajectory
  BY AgeCapAssumption, ReplanTimeAssumption, DurationAssumption, BoundsAssumption
     DEF NoTrajectory, FsmTrajectory, Ages

\* What a plan leaves has the type of a trajectory.
LEMMA PlannedType ==
  ASSUME local \in FsmTrajectory, local.id < MaxPlans,
         NEW d \in 1 .. MaxDuration, NEW age \in -ReplanTime .. 0
  PROVE  Planned(d, age) \in FsmTrajectory
  BY AgeCapAssumption, ReplanTimeAssumption, DurationAssumption, BoundsAssumption
     DEF Planned, FsmTrajectory, Ages

\* Every action of the state machine keeps its types.
LEMMA FsmTypeStep ==
  ASSUME FsmTypeOK,
         \/ FsmStep \/ EmergencyStop
         \/ \E found \in BOOLEAN, d \in 1 .. MaxDuration : Goal(found, d)
  PROVE  FsmTypeOK'
<1> USE DEF FsmTypeOK, inputs, States
<1>1. ASSUME Odometry \/ Confidence PROVE FsmTypeOK'
  BY <1>1 DEF Odometry, Confidence
<1>2. ASSUME Ready \/ Trigger \/ Finish \/ PlanComplete PROVE FsmTypeOK'
  BY <1>2 DEF Ready, Trigger, Finish, PlanComplete
<1>3. ASSUME NEW e \in BOOLEAN, PlanFails(e) PROVE FsmTypeOK'
  BY <1>3 DEF PlanFails
<1>4. ASSUME NEW e \in BOOLEAN, NEW d \in 1 .. MaxDuration, NEW ahead \in 0 .. ReplanTime,
             PlanSucceeds(e, d, ahead)
      PROVE  FsmTypeOK'
  <2>1. Planned(d, -ahead) \in FsmTrajectory
    <3>1. -ahead \in -ReplanTime .. 0
      BY <1>4, ReplanTimeAssumption
    <3> QED
      BY <1>4, <3>1, PlannedType DEF PlanSucceeds
  <2> QED
    BY <1>4, <2>1 DEF PlanSucceeds
<1>5. ASSUME Execute \/ Replan \/ EmergencyStop PROVE FsmTypeOK'
  <2>1. TrajectoryMessage(newest) \in Message /\ StopMessage \in Message
    BY NoTrajectoryType DEF TrajectoryMessage, StopMessage, Message
  <2>2. CASE Execute
    <3>1. staticState' \in BOOLEAN
      BY <2>2, Zenon DEF Execute
    <3>2. mail' \in Seq(Message)
      BY <2>1, <2>2 DEF Execute
    <3> QED
      BY <2>2, <3>1, <3>2 DEF Execute
  <2>3. CASE Replan
    BY <2>3 DEF Replan
  <2>4. CASE EmergencyStop
    BY <2>1, <2>4 DEF EmergencyStop
  <2> QED
    BY <1>5, <2>2, <2>3, <2>4
<1>6. ASSUME NEW found \in BOOLEAN, NEW d \in 1 .. MaxDuration, Goal(found, d)
      PROVE  FsmTypeOK'
  <2>1. local' \in FsmTrajectory
    <3>1. 0 \in -ReplanTime .. 0
      BY ReplanTimeAssumption
    <3>2. CASE found
      BY <1>6, <3>1, <3>2, PlannedType DEF Goal
    <3>3. CASE ~found
      BY <1>6, <3>3 DEF Goal
    <3> QED
      BY <3>2, <3>3
  <2>2. TrajectoryMessage(local') \in Message
    BY <2>1 DEF TrajectoryMessage, Message
  <2>3. mail' \in Seq(Message)
    BY <1>6, <2>2 DEF Goal
  <2>4. goals' \in 0 .. MaxGoals
    BY <1>6, BoundsAssumption DEF Goal
  <2> QED
    BY <1>6, <2>1, <2>3, <2>4 DEF Goal
<1> QED
  BY <1>1, <1>2, <1>3, <1>4, <1>5, <1>6 DEF FsmStep

\* Every variable of both nodes keeps its type.
LEMMA TypeStep ==
  ASSUME TypeOK, [Next]_vars
  PROVE  TypeOK'
<1> USE DEF TypeOK
<1>1. CASE Planning
  <2>1. FsmTypeOK'
    BY <1>1, FsmTypeStep DEF Planning
  <2>2. crossed' \in BOOLEAN
    BY <1>1, Zenon DEF Planning
  <2>3. UNCHANGED <<serverVars, cmdDue, turns, overtaken, condemned, revived>>
    BY <1>1 DEF Planning
  <2> QED
    BY <2>1, <2>2, <2>3 DEF serverVars, ServerTypeOK
<1>g. ASSUME NEW found \in BOOLEAN, NEW d \in 1 .. MaxDuration, GoalPose(found, d)
      PROVE  TypeOK'
  <2>1. FsmTypeOK'
    BY <1>g, FsmTypeStep DEF GoalPose
  <2>2. crossed' \in BOOLEAN /\ revived' \in BOOLEAN
    BY <1>g, Zenon DEF GoalPose
  <2>3. UNCHANGED <<serverVars, cmdDue, turns, overtaken, condemned>>
    BY <1>g DEF GoalPose
  <2> QED
    BY <2>1, <2>2, <2>3 DEF serverVars, ServerTypeOK
<1>2. CASE Safety
  <2>1. FsmTypeOK'
    BY <1>2, FsmTypeStep DEF Safety
  <2>2. local.id \in 0 .. MaxPlans
    BY DEF FsmTypeOK, FsmTrajectory
  <2> QED
    BY <1>2, <2>1, <2>2 DEF Safety, serverVars, ServerTypeOK
<1>3. ASSUME NEW i \in 1 .. Len(mail), Deliver(i) PROVE TypeOK'
  <2>1. mail' \in Seq(Message)
    BY <1>3, WithoutFacts DEF Deliver, FsmTypeOK
  <2>2. mail[i] \in Message
    BY <1>3 DEF FsmTypeOK
  <2>3. mail[i].traj \in [id : Nat, age : Ages, dur : Int]
    BY <2>2, FsmTrajectoryIsTrajectory, BoundsAssumption DEF Message
  <2>4. traj' \in [id : Nat, age : Ages, dur : Int] /\ receiving' \in BOOLEAN
        /\ rotating' = rotating /\ base' = base
    <3>1. CASE mail[i].topic = "stop"
      <4>1. traj.age - 1 \in Int /\ traj.dur \in Int
        BY AgeCapAssumption, ReplanTimeAssumption DEF ServerTypeOK, Ages
      <4> QED
        BY <1>3, <3>1, <4>1 DEF Deliver, ReceiveStop, ServerTypeOK
    <3>2. CASE mail[i].topic # "stop"
      BY <1>3, <2>3, <3>2 DEF Deliver, ReceiveTrajectory, ServerTypeOK
    <3> QED
      BY <3>1, <3>2
  <2>5. ServerTypeOK'
    BY <2>4 DEF ServerTypeOK
  <2>6. overtaken' \in BOOLEAN /\ cmdDue' \in BOOLEAN
    BY <1>3, Zenon DEF Deliver
  <2>7. FsmTypeOK' /\ turns' = turns /\ condemned' = condemned /\ UNCHANGED goalHistory
    BY <1>3, <2>1 DEF Deliver, FsmTypeOK
  <2> QED
    BY <2>5, <2>6, <2>7 DEF goalHistory
<1>4. CASE TargetAngle
  BY <1>4, BoundsAssumption
     DEF TargetAngle, ReceiveTargetAngle, fsmVars, goalHistory, FsmTypeOK, ServerTypeOK
<1>5. CASE Command
  <2>1. UNCHANGED <<fsmVars, turns, overtaken, condemned, goalHistory>> /\ cmdDue' = FALSE
    BY <1>5 DEF Command
  <2>2. FsmTypeOK'
    BY <2>1 DEF FsmTypeOK, fsmVars
  <2>3. ServerTypeOK'
    <3>1. CASE CommandRotation
      BY <3>1 DEF CommandRotation, Turn, ServerTypeOK
    <3>2. CASE CommandTargetReached
      BY <3>2 DEF CommandTargetReached, Rest, ServerTypeOK
    <3>3. CASE CommandTrajectory
      <4>1. Follow(traj) \in [kind : {"rest", "turn", "follow"}, id : Nat]
            /\ Rest \in [kind : {"rest", "turn", "follow"}, id : Nat]
        BY DEF Follow, Rest, ServerTypeOK
      <4>2. traj' = traj /\ rotating' = rotating
        BY <3>3 DEF CommandTrajectory
      <4>3. receiving' \in BOOLEAN
        BY <3>3 DEF CommandTrajectory, ServerTypeOK
      <4>4. base' \in {base, Rest, Follow(traj)}
        BY <3>3 DEF CommandTrajectory
      <4> QED
        BY <4>1, <4>2, <4>3, <4>4 DEF ServerTypeOK
    <3> QED
      BY <1>5, <3>1, <3>2, <3>3 DEF Command
  <2> QED
    BY <2>1, <2>2, <2>3 DEF goalHistory
<1>6. CASE Tick
  <2>1. local' \in FsmTrajectory /\ newest' \in FsmTrajectory
    BY <1>6, AgedType, BoundsAssumption DEF Tick, FsmTypeOK
  <2>2. traj' \in [id : Nat, age : Ages, dur : Int]
    BY <1>6, AgedFacts DEF Tick, ServerTypeOK
  <2>3. mail' \in Seq(Message)
    <3>1. ASSUME NEW i \in DOMAIN mail
          PROVE  [mail[i] EXCEPT !.traj = Aged(@)] \in Message
      <4>1. mail[i] \in Message
        BY <3>1 DEF FsmTypeOK
      <4>2. Aged(mail[i].traj) \in FsmTrajectory
        BY <4>1, AgedType, BoundsAssumption DEF Message
      <4> QED
        BY <4>1, <4>2 DEF Message
    <3>2. DOMAIN mail = 1 .. Len(mail) /\ Len(mail) \in Nat
      BY DEF FsmTypeOK
    <3> QED
      BY <1>6, <3>1, <3>2 DEF Tick
  <2>4. cmdDue' \in BOOLEAN
    BY <1>6 DEF Tick
  <2> QED
    BY <1>6, <2>1, <2>2, <2>3, <2>4 DEF Tick, goalHistory, FsmTypeOK, ServerTypeOK
<1>7. CASE UNCHANGED vars
  BY <1>7 DEF vars, fsmVars, serverVars, goalHistory, FsmTypeOK, ServerTypeOK
<1> QED
  BY <1>1, <1>g, <1>2, <1>3, <1>4, <1>5, <1>6, <1>7 DEF Next

\* The types hold at the start.
LEMMA TypeInit == Init => TypeOK
<1> SUFFICES ASSUME Init PROVE TypeOK
  OBVIOUS
<1>1. haveOdom \in BOOLEAN /\ haveConfidence \in BOOLEAN /\ staticState \in BOOLEAN
      /\ exploring \in BOOLEAN
  BY Zenon DEF Init, FsmInit
<1>2. receiving \in BOOLEAN /\ rotating \in BOOLEAN
  BY Zenon DEF Init, ServerInit
<1>3. cmdDue \in BOOLEAN /\ overtaken \in BOOLEAN /\ revived \in BOOLEAN /\ crossed \in BOOLEAN
  BY Zenon DEF Init
<1>4. FsmTypeOK
  BY <1>1, NoTrajectoryType, BoundsAssumption DEF Init, FsmInit, FsmTypeOK, States
<1>5. ServerTypeOK
  BY <1>2, NoTrajectoryType, FsmTrajectoryIsTrajectory, BoundsAssumption
     DEF Init, ServerInit, ServerTypeOK, Rest
<1> QED
  BY <1>3, <1>4, <1>5, BoundsAssumption DEF Init, TypeOK

\* The planner, the server and what is between them keep their types.
THEOREM TypeCorrect == Spec => []TypeOK
  BY TypeInit, TypeStep, PTL DEF Spec

-----------------------------------------------------------------------------
(* The strengthenings. *)

\* Some trajectory the server holds or will receive: it is no newer than the
\* local one, has the start time its id stands for, and has started unless the
\* state machine waits for that start.
Sound(t) ==
  /\ t.id <= local.id
  /\ t.id = newest.id => t.age = newest.age
  /\ t.age < 0 => t.id = newest.id /\ state = "EXEC_TRAJ" /\ goals > 0

\* The two trajectories of the planner are one unless a goal pose planned in
\* between, and all that was sent is sound.
SentInv ==
  /\ newest.id <= local.id
  /\ newest.age < 0 => state = "EXEC_TRAJ"
  /\ local.age < 0 \/ local.id = newest.id => local = newest
  /\ state = "EXEC_TRAJ" /\ ~crossed => local = newest
  /\ Sound(traj)
  /\ \A i \in 1 .. Len(mail) : IsTrajectory(i) => Sound(mail[i].traj)

\* A base that moves along a trajectory will hear of its end.
CommandInv ==
  /\ base.kind = "follow" => receiving
  /\ base.kind = "follow" /\ ~cmdDue => traj.age < 0 \/ (base.id = traj.id /\ ~Elapsed(traj))

\* The planner takes the robot to be moving along the trajectory sent last.
Driving == state = "REPLAN" \/ (state = "PLAN_TRAJ" /\ ~staticState)

\* That trajectory is the last message, or it is at the server; without stops
\* that came late it is there in full and nothing is behind it.
WatchInv ==
  /\ state \in {"INIT", "WAIT_TRIGGER"} => staticState
  /\ Driving =>
       \/ Len(mail) > 0 /\ IsTrajectory(Len(mail)) /\ mail[Len(mail)].traj = LastSent
       \/ /\ \A i \in 1 .. Len(mail) : ~IsTrajectory(i)
          /\ traj.id = LastSent.id /\ traj.age = LastSent.age
          /\ ~overtaken => Len(mail) = 0 /\ traj.dur = LastSent.dur

\* A trajectory the last emergency stop does not forbid.
Survives(t) == t.id > condemned \/ (revived /\ t.id = condemned)

\* Where the stop of the condemned trajectory is: behind every message it is
\* for, or already applied.
StopInv ==
  /\ condemned <= local.id
  /\ state \in {"INIT", "WAIT_TRIGGER"} => condemned = 0
  /\ state \in {"EXEC_TRAJ", "REPLAN"} => condemned < newest.id
  /\ condemned > 0 /\ ~overtaken =>
       /\ StopPending \/ Survives(traj) \/ Elapsed(traj)
       /\ \A i \in 1 .. Len(mail) : IsTrajectory(i) =>
            \/ Survives(mail[i].traj)
            \/ \E j \in i + 1 .. Len(mail) : mail[j].topic = "stop"

-----------------------------------------------------------------------------
(* The steps, as the invariants see them. *)

\* What a step of the planner leaves alone.
ServerSame == UNCHANGED <<traj, receiving, base, cmdDue, overtaken>>

\* A step of the state machine that plans and sends nothing.
Quiet ==
  /\ UNCHANGED <<local, newest, mail, goals, condemned, revived>> /\ ServerSame
  /\ crossed' <=> crossed
  /\ staticState => staticState'
  /\ \/ state' = state
     \/ state = "INIT" /\ state' = "WAIT_TRIGGER"
     \/ state \in {"WAIT_TRIGGER", "REPLAN"} /\ state' = "PLAN_TRAJ"
     \/ state = "PLAN_TRAJ" /\ state' = "FINISH"

PlanStep ==
  /\ state = "PLAN_TRAJ" /\ state' = "EXEC_TRAJ"
  /\ local'.id = local.id + 1 /\ newest' = local'
  /\ UNCHANGED <<mail, goals, condemned, revived>> /\ ServerSame

ExecuteStep ==
  /\ state = "EXEC_TRAJ" /\ newest.age >= 0 /\ state' = "REPLAN"
  /\ mail' = Append(mail, TrajectoryMessage(newest))
  /\ UNCHANGED <<local, newest, goals, condemned, revived>> /\ ServerSame
  /\ crossed' <=> crossed

GoalStep ==
  /\ state' = state /\ staticState' = staticState
  /\ \/ local' = local
     \/ local'.id = local.id + 1 /\ local'.age = 0
  /\ mail' = Append(mail, TrajectoryMessage(local'))
  /\ goals' = goals + 1
  /\ UNCHANGED <<newest, condemned>> /\ ServerSame
  /\ state = "EXEC_TRAJ" /\ ~crossed' => local' = local /\ ~crossed
  /\ state # "EXEC_TRAJ" => ~crossed'
  /\ revived \/ local'.id = condemned => revived'

SafetyStep ==
  /\ state = "REPLAN" /\ state' = "PLAN_TRAJ" /\ staticState'
  /\ mail' = Append(mail, StopMessage)
  /\ condemned' = local.id
  /\ UNCHANGED <<local, newest, goals, crossed>> /\ ServerSame

\* A step of the server or the base without a message.
CommandStep ==
  /\ UNCHANGED <<state, staticState, local, newest, mail, goals, traj, overtaken, condemned,
                 revived, crossed>>
  /\ \/ cmdDue /\ ~cmdDue' /\ Command
     \/ cmdDue' /\ receiving' = receiving /\ base' = base

\* A planning step is one of the first four.
LEMMA PlanningCases ==
  ASSUME TypeOK, Planning
  PROVE  Quiet \/ PlanStep \/ ExecuteStep
<1>1. UNCHANGED <<traj, receiving, base, cmdDue, overtaken, condemned, revived>>
  BY DEF Planning, serverVars
<1>2. newest' = newest => (crossed' <=> crossed)
  BY Zenon DEF Planning
<1>3. CASE Odometry \/ Confidence \/ Ready \/ Trigger \/ Finish \/ PlanComplete \/ Replan
  <2>1. UNCHANGED <<local, newest, mail, goals>>
    BY <1>3 DEF Odometry, Confidence, Ready, Trigger, Finish, PlanComplete, Replan
  <2>2. staticState => staticState'
    BY <1>3, Zenon DEF Odometry, Confidence, Ready, Trigger, Finish, PlanComplete, Replan
  <2>3. \/ state' = state
        \/ state = "INIT" /\ state' = "WAIT_TRIGGER"
        \/ state \in {"WAIT_TRIGGER", "REPLAN"} /\ state' = "PLAN_TRAJ"
        \/ state = "PLAN_TRAJ" /\ state' = "FINISH"
    BY <1>3 DEF Odometry, Confidence, Ready, Trigger, Finish, PlanComplete, Replan
  <2> QED
    BY <1>1, <1>2, <2>1, <2>2, <2>3 DEF Quiet, ServerSame
<1>4. ASSUME NEW e \in BOOLEAN, PlanFails(e) PROVE Quiet
  <2>1. UNCHANGED <<state, local, newest, mail, goals>>
    BY <1>4 DEF PlanFails
  <2>2. staticState'
    BY <1>4, Zenon DEF PlanFails
  <2> QED
    BY <1>1, <1>2, <2>1, <2>2 DEF Quiet, ServerSame
<1>5. ASSUME NEW e \in BOOLEAN, NEW d \in 1 .. MaxDuration, NEW ahead \in 0 .. ReplanTime,
             PlanSucceeds(e, d, ahead)
      PROVE  PlanStep
  <2>1. Planned(d, -ahead).id = local.id + 1
    BY DEF Planned
  <2>2. local' = Planned(d, -ahead) /\ newest' = local' /\ state = "PLAN_TRAJ"
        /\ state' = "EXEC_TRAJ" /\ mail' = mail /\ goals' = goals
    BY <1>5 DEF PlanSucceeds
  <2> QED
    BY <1>1, <2>1, <2>2 DEF PlanStep, ServerSame
<1>6. CASE Execute
  <2>1. /\ state = "EXEC_TRAJ" /\ newest.age >= 0 /\ state' = "REPLAN"
        /\ mail' = Append(mail, TrajectoryMessage(newest))
        /\ UNCHANGED <<local, newest, goals>>
    BY <1>6 DEF Execute, Started
  <2> QED
    BY <1>1, <1>2, <2>1 DEF ExecuteStep, ServerSame
<1> QED
  BY <1>3, <1>4, <1>5, <1>6 DEF Planning, FsmStep

\* A goal pose is a step of its own.
LEMMA GoalCase ==
  ASSUME TypeOK, NEW found \in BOOLEAN, NEW d \in 1 .. MaxDuration, GoalPose(found, d)
  PROVE  GoalStep
<1>1. UNCHANGED <<traj, receiving, base, cmdDue, overtaken, condemned>>
  BY DEF GoalPose, serverVars
<1>2. Planned(d, 0).id = local.id + 1 /\ Planned(d, 0).age = 0
  BY DEF Planned
<1>3. local' = IF found THEN Planned(d, 0) ELSE local
  BY DEF GoalPose, Goal
<1>4. /\ mail' = Append(mail, TrajectoryMessage(local')) /\ goals' = goals + 1
      /\ UNCHANGED <<state, staticState, newest>>
  BY DEF GoalPose, Goal
<1>5. state = "EXEC_TRAJ" /\ ~crossed' => ~found /\ ~crossed
  BY Zenon DEF GoalPose
<1>6. state # "EXEC_TRAJ" => ~crossed'
  BY Zenon DEF GoalPose
<1>7. revived \/ local'.id = condemned => revived'
  BY Zenon DEF GoalPose
<1>8. local' = local \/ local' = Planned(d, 0)
  BY <1>3
<1>9. ~found => local' = local
  BY <1>3
<1> QED
  BY <1>1, <1>2, <1>4, <1>5, <1>6, <1>7, <1>8, <1>9 DEF GoalStep, ServerSame

\* An emergency stop is one too.
LEMMA SafetyCase ==
  ASSUME TypeOK, Safety
  PROVE  SafetyStep
<1>1. /\ state = "REPLAN" /\ state' = "PLAN_TRAJ" /\ mail' = Append(mail, StopMessage)
      /\ condemned' = local.id
      /\ UNCHANGED <<local, newest, goals, crossed>> /\ ServerSame
  BY DEF Safety, EmergencyStop, serverVars, ServerSame
<1>2. staticState'
  BY Zenon DEF Safety, EmergencyStop
<1> QED
  BY <1>1, <1>2 DEF SafetyStep

\* These are all there are.
LEMMA StepCases ==
  ASSUME TypeOK, [Next]_vars
  PROVE  \/ Quiet \/ PlanStep \/ ExecuteStep \/ GoalStep \/ SafetyStep
         \/ \E i \in 1 .. Len(mail) : Deliver(i)
         \/ CommandStep \/ Tick
<1>1. CASE Command
  <2>1. UNCHANGED <<state, staticState, local, newest, mail, goals, overtaken, condemned,
                    revived, crossed>> /\ cmdDue /\ ~cmdDue'
    BY <1>1 DEF Command, fsmVars, goalHistory
  <2>2. traj' = traj
    BY <1>1 DEF Command, CommandRotation, CommandTargetReached, CommandTrajectory
  <2> QED
    BY <1>1, <2>1, <2>2 DEF CommandStep
<1>2. CASE TargetAngle
  BY <1>2 DEF TargetAngle, ReceiveTargetAngle, fsmVars, goalHistory, CommandStep
<1>3. CASE UNCHANGED vars
  BY <1>3 DEF vars, fsmVars, serverVars, goalHistory, Quiet, ServerSame
<1> QED
  BY <1>1, <1>2, <1>3, PlanningCases, GoalCase, SafetyCase DEF Next

\* A delivery, as the invariants see it.
DeliverStep(i) ==
  /\ \A j \in 1 .. i - 1 : mail[j].topic # mail[i].topic
  /\ \/ /\ mail[i].topic = "stop"
        /\ traj'.id = traj.id /\ traj'.age = traj.age
        /\ traj'.age > traj'.dur
        /\ receiving' = receiving
     \/ /\ IsTrajectory(i)
        /\ traj' = mail[i].traj
        /\ receiving'
  /\ cmdDue'
  /\ ~overtaken' => ~overtaken /\ i = 1
  /\ UNCHANGED <<state, staticState, local, newest, goals, base, condemned, revived, crossed>>
  /\ Len(mail') = Len(mail) - 1
  /\ \A k \in 1 .. Len(mail) - 1 : mail'[k] = IF k < i THEN mail[k] ELSE mail[k + 1]

\* Every delivery is of that form.
LEMMA DeliverCase ==
  ASSUME TypeOK, NEW i \in 1 .. Len(mail), Deliver(i)
  PROVE  DeliverStep(i)
<1>1. mail \in Seq(Message) /\ mail' = Without(mail, i) /\ mail[i] \in Message
  BY DEF TypeOK, FsmTypeOK, Deliver
<1>2. /\ Len(mail') = Len(mail) - 1
      /\ \A k \in 1 .. Len(mail) - 1 : mail'[k] = IF k < i THEN mail[k] ELSE mail[k + 1]
  BY <1>1, WithoutFacts
<1>3. ~overtaken' => ~overtaken /\ i = 1
  <2>1. ~overtaken' => ~overtaken /\ ~(i > 1)
    BY Zenon DEF Deliver
  <2> QED
    BY <2>1
<1>4. /\ \A j \in 1 .. i - 1 : mail[j].topic # mail[i].topic
      /\ cmdDue' /\ base' = base
      /\ UNCHANGED <<state, staticState, local, newest, goals, condemned, revived, crossed>>
  BY DEF Deliver, FirstOfTopic, goalHistory, ReceiveStop, ReceiveTrajectory
<1>5. CASE mail[i].topic = "stop"
  <2>1. traj \in [id : Nat, age : Ages, dur : Int] /\ traj.age \in Int
    BY AgeCapAssumption, ReplanTimeAssumption DEF TypeOK, ServerTypeOK, Ages
  <2>2. traj' = [traj EXCEPT !.dur = IF traj.age - 1 < traj.dur THEN traj.age - 1 ELSE traj.dur]
        /\ receiving' = receiving
    BY <1>5 DEF Deliver, ReceiveStop
  <2>3. traj'.id = traj.id /\ traj'.age = traj.age /\ traj'.age > traj'.dur
    BY <2>1, <2>2
  <2> QED
    BY <1>2, <1>3, <1>4, <1>5, <2>2, <2>3 DEF DeliverStep
<1>6. CASE mail[i].topic = "trajectory"
  <2>1. traj' = mail[i].traj /\ receiving'
    BY <1>6 DEF Deliver, ReceiveTrajectory
  <2> QED
    BY <1>2, <1>3, <1>4, <1>6, <2>1 DEF DeliverStep, IsTrajectory
<1> QED
  BY <1>1, <1>5, <1>6 DEF Message

\* Trajectory u is t a tick later.
Later(u, t) ==
  /\ u.id = t.id /\ u.dur = t.dur
  /\ u.age = (IF t.age < AgeCap THEN t.age + 1 ELSE t.age)

\* A tick, as the invariants see it.
TickStep ==
  /\ ~cmdDue /\ cmdDue'
  /\ Later(local', local) /\ Later(newest', newest) /\ Later(traj', traj)
  /\ local = newest => local' = newest'
  /\ Len(mail') = Len(mail)
  /\ \A i \in 1 .. Len(mail) :
       /\ mail'[i].topic = mail[i].topic
       /\ Later(mail'[i].traj, mail[i].traj)
       /\ mail[i].traj = LastSent => mail'[i].traj = LastSent'
  /\ UNCHANGED <<state, staticState, goals, receiving, base, overtaken, condemned, revived,
                 crossed>>

\* Every tick is of that form.
LEMMA TickCase ==
  ASSUME TypeOK, Tick
  PROVE  TickStep
<1>1. mail \in Seq(Message) /\ FsmTrajectory \subseteq [id : Nat, age : Ages, dur : Int]
  BY BoundsAssumption, FsmTrajectoryIsTrajectory DEF TypeOK, FsmTypeOK
<1>2. Later(local', local) /\ Later(newest', newest)
  BY <1>1, AgedFacts DEF Tick, TypeOK, FsmTypeOK, Later
<1>3. Later(traj', traj)
  BY AgedFacts DEF Tick, TypeOK, ServerTypeOK, Later
<1>4. /\ local' = Aged(local) /\ newest' = Aged(newest)
      /\ UNCHANGED <<state, staticState, goals, receiving, base, overtaken, condemned, revived,
                     crossed>>
  BY DEF Tick, goalHistory
<1>5. LastSent' = Aged(LastSent)
  BY <1>4 DEF LastSent
<1>6. ASSUME NEW i \in 1 .. Len(mail)
      PROVE  /\ mail'[i].topic = mail[i].topic
             /\ Later(mail'[i].traj, mail[i].traj)
             /\ mail[i].traj = LastSent => mail'[i].traj = LastSent'
  <2>1. mail[i] \in Message
    BY <1>1
  <2>2. mail'[i] = [mail[i] EXCEPT !.traj = Aged(mail[i].traj)]
    <3>1. mail' = [k \in DOMAIN mail |-> [mail[k] EXCEPT !.traj = Aged(@)]]
      BY DEF Tick
    <3>2. i \in DOMAIN mail
      BY <1>1
    <3> QED
      BY <3>1, <3>2
  <2>3. mail[i].traj \in [id : Nat, age : Ages, dur : Int]
    BY <1>1, <2>1 DEF Message
  <2>4. mail'[i].topic = mail[i].topic /\ mail'[i].traj = Aged(mail[i].traj)
    BY <2>1, <2>2 DEF Message
  <2> QED
    BY <1>5, <2>3, <2>4, AgedFacts DEF Later
<1>7. Len(mail') = Len(mail)
  BY <1>1 DEF Tick
<1>8. ~cmdDue /\ cmdDue'
  BY DEF Tick
<1> QED
  BY <1>2, <1>3, <1>4, <1>6, <1>7, <1>8 DEF TickStep

\* What the arithmetic of the invariants rests on.
LEMMA Numbers ==
  ASSUME TypeOK
  PROVE  /\ local.id \in Nat /\ local.age \in Int /\ newest.id \in Nat /\ newest.age \in Int
         /\ traj.id \in Nat /\ traj.age \in Int /\ traj.dur \in Int
         /\ condemned \in Nat /\ goals \in Nat /\ AgeCap \in Nat /\ Len(mail) \in Nat
         /\ \A i \in 1 .. Len(mail) :
              /\ mail[i].traj.id \in Nat /\ mail[i].traj.age \in Int
              /\ mail[i].topic \in {"trajectory", "stop"}
<1>1. Ages \subseteq Int /\ AgeCap \in Nat
  BY AgeCapAssumption, ReplanTimeAssumption DEF Ages
<1>2. ASSUME NEW t \in FsmTrajectory PROVE t.id \in Nat /\ t.age \in Int
  <2>1. t \in [id : Nat, age : Ages, dur : Int]
    BY BoundsAssumption, FsmTrajectoryIsTrajectory
  <2> QED
    BY <1>1, <2>1
<1>3. \A i \in 1 .. Len(mail) : mail[i] \in Message
  BY DEF TypeOK, FsmTypeOK
<1>4. ASSUME NEW i \in 1 .. Len(mail)
      PROVE  /\ mail[i].traj.id \in Nat /\ mail[i].traj.age \in Int
             /\ mail[i].topic \in {"trajectory", "stop"}
  <2>1. mail[i].traj \in FsmTrajectory /\ mail[i].topic \in {"trajectory", "stop"}
    BY <1>3 DEF Message
  <2> QED
    BY <1>2, <2>1
<1>5. traj.id \in Nat /\ traj.age \in Int /\ traj.dur \in Int
  BY <1>1 DEF TypeOK, ServerTypeOK
<1>6. condemned \in Nat /\ goals \in Nat /\ Len(mail) \in Nat
  BY BoundsAssumption DEF TypeOK, FsmTypeOK
<1> QED
  BY <1>1, <1>2, <1>4, <1>5, <1>6 DEF TypeOK, FsmTypeOK

\* A message is sent behind the others.
LEMMA Sent ==
  ASSUME TypeOK, NEW m, mail' = Append(mail, m)
  PROVE  /\ Len(mail') = Len(mail) + 1
         /\ \A i \in 1 .. Len(mail) : mail'[i] = mail[i]
         /\ mail'[Len(mail) + 1] = m
         /\ \A i \in 1 .. Len(mail') : i \in 1 .. Len(mail) \/ i = Len(mail) + 1
<1>1. mail \in Seq(Message) /\ Len(mail) \in Nat
  BY DEF TypeOK, FsmTypeOK
<1>2. Len(mail') = Len(mail) + 1
  BY <1>1
<1>3. \A i \in 1 .. Len(mail) + 1 : i \in 1 .. Len(mail) \/ i = Len(mail) + 1
  BY <1>1
<1> QED
  BY <1>1, <1>2, <1>3

\* What a trajectory message is.
LEMMA MessageFacts ==
  ASSUME NEW t
  PROVE  /\ TrajectoryMessage(t).topic = "trajectory" /\ TrajectoryMessage(t).traj = t
         /\ StopMessage.topic = "stop"
  BY DEF TrajectoryMessage, StopMessage

-----------------------------------------------------------------------------
(* What is sent. *)

\* Only sound trajectories reach the server.
LEMMA SentStep ==
  ASSUME TypeOK, SentInv, [Next]_vars
  PROVE  SentInv'
<1>0. /\ local.id \in Nat /\ local.age \in Int /\ newest.id \in Nat /\ newest.age \in Int
      /\ traj.id \in Nat /\ traj.age \in Int /\ Len(mail) \in Nat /\ goals \in Nat
      /\ \A i \in 1 .. Len(mail) : mail[i].traj.id \in Nat /\ mail[i].traj.age \in Int
  BY Numbers
<1>1. CASE Quiet
  <2>1. /\ UNCHANGED <<local, newest, mail, traj, goals>>
        /\ crossed' <=> crossed
        /\ state' = "EXEC_TRAJ" <=> state = "EXEC_TRAJ"
    BY <1>1 DEF Quiet, ServerSame
  <2> QED
    BY <2>1 DEF SentInv, Sound, IsTrajectory
<1>2. CASE PlanStep
  <2>1. /\ local'.id = local.id + 1 /\ newest' = local' /\ state' = "EXEC_TRAJ"
        /\ UNCHANGED <<mail, traj>> /\ state # "EXEC_TRAJ"
    BY <1>2 DEF PlanStep, ServerSame
  <2>2. ASSUME NEW t, t.id \in Nat, t.age \in Int, Sound(t) PROVE Sound(t)'
    BY <1>0, <2>1, <2>2 DEF Sound
  <2>3. Sound(traj)'
    BY <1>0, <2>1, <2>2 DEF SentInv, Sound
  <2>4. \A i \in 1 .. Len(mail') : IsTrajectory(i)' => Sound(mail[i].traj)'
    BY <1>0, <2>1, <2>2 DEF SentInv, Sound, IsTrajectory
  <2> QED
    BY <1>0, <2>1, <2>3, <2>4 DEF SentInv, Sound, IsTrajectory
<1>3. CASE ExecuteStep
  <2>1. /\ state = "EXEC_TRAJ" /\ newest.age >= 0 /\ state' = "REPLAN"
        /\ mail' = Append(mail, TrajectoryMessage(newest))
        /\ UNCHANGED <<local, newest, traj, goals>>
    BY <1>3 DEF ExecuteStep, ServerSame
  <2>2. ASSUME NEW t, t.id \in Nat, t.age \in Int, Sound(t) PROVE Sound(t)'
    BY <1>0, <2>1, <2>2 DEF Sound
  <2>3. Sound(newest)'
    BY <1>0, <2>1 DEF SentInv, Sound
  <2>4. \A i \in 1 .. Len(mail') : IsTrajectory(i)' => Sound(mail[i].traj)'
    <3>1. ASSUME NEW i \in 1 .. Len(mail'), IsTrajectory(i)' PROVE Sound(mail[i].traj)'
      <4>1. CASE i \in 1 .. Len(mail)
        <5>1. mail'[i] = mail[i]
          BY <2>1, <4>1, Sent
        <5>2. Sound(mail[i].traj)
          BY <3>1, <4>1, <5>1 DEF SentInv, IsTrajectory
        <5> QED
          BY <1>0, <2>2, <4>1, <5>1, <5>2 DEF Sound
      <4>2. CASE i = Len(mail) + 1
        <5>1. mail'[i].traj = newest'
          BY <2>1, <4>2, Sent, MessageFacts
        <5> QED
          BY <2>3, <5>1 DEF Sound
      <4> QED
        BY <2>1, <3>1, <4>1, <4>2, Sent
    <3> QED
      BY <3>1
  <2>5. Sound(traj)'
    BY <1>0, <2>1, <2>2 DEF SentInv, Sound
  <2> QED
    BY <1>0, <2>1, <2>4, <2>5 DEF SentInv
<1>4. CASE GoalStep
  <2>1. /\ state' = state /\ UNCHANGED <<newest, traj>> /\ goals' = goals + 1
        /\ local' = local \/ (local'.id = local.id + 1 /\ local'.age = 0)
        /\ mail' = Append(mail, TrajectoryMessage(local'))
    BY <1>4 DEF GoalStep, ServerSame
  <2>c. state = "EXEC_TRAJ" /\ ~crossed' => local' = local /\ ~crossed
    BY <1>4, Zenon DEF GoalStep
  <2>2. ASSUME NEW t, t.id \in Nat, t.age \in Int, Sound(t) PROVE Sound(t)'
    BY <1>0, <2>1, <2>2 DEF Sound
  <2>3. Sound(local)'
    BY <1>0, <2>1 DEF SentInv, Sound
  <2>4. \A i \in 1 .. Len(mail') : IsTrajectory(i)' => Sound(mail[i].traj)'
    <3>1. ASSUME NEW i \in 1 .. Len(mail'), IsTrajectory(i)' PROVE Sound(mail[i].traj)'
      <4>1. CASE i \in 1 .. Len(mail)
        <5>1. mail'[i] = mail[i]
          BY <2>1, <4>1, Sent
        <5>2. Sound(mail[i].traj)
          BY <3>1, <4>1, <5>1 DEF SentInv, IsTrajectory
        <5> QED
          BY <1>0, <2>2, <4>1, <5>1, <5>2 DEF Sound
      <4>2. CASE i = Len(mail) + 1
        <5>1. mail'[i].traj = local'
          BY <2>1, <4>2, Sent, MessageFacts
        <5> QED
          BY <2>3, <5>1 DEF Sound
      <4> QED
        BY <2>1, <3>1, <4>1, <4>2, Sent
    <3> QED
      BY <3>1
  <2>5. Sound(traj)'
    BY <1>0, <2>1, <2>2 DEF SentInv, Sound
  <2>6. /\ newest'.id <= local'.id
        /\ local'.age < 0 \/ local'.id = newest'.id => local' = newest'
        /\ newest'.age < 0 => state' = "EXEC_TRAJ"
    BY <1>0, <2>1 DEF SentInv
  <2>7. state' = "EXEC_TRAJ" /\ ~crossed' => local' = newest'
    <3>1. state' = state /\ newest' = newest
      BY <2>1
    <3> QED
      BY <2>c, <3>1 DEF SentInv
  <2> QED
    BY <2>4, <2>5, <2>6, <2>7 DEF SentInv
<1>5. CASE SafetyStep
  <2>1. /\ state = "REPLAN" /\ state' = "PLAN_TRAJ" /\ mail' = Append(mail, StopMessage)
        /\ UNCHANGED <<local, newest, traj, goals>>
    BY <1>5 DEF SafetyStep, ServerSame
  <2>2. \A i \in 1 .. Len(mail') : IsTrajectory(i)' =>
          i \in 1 .. Len(mail) /\ IsTrajectory(i) /\ mail'[i] = mail[i]
    BY <1>0, <2>1, Sent, MessageFacts DEF IsTrajectory
  <2>3. \A i \in 1 .. Len(mail') : IsTrajectory(i)' => Sound(mail[i].traj)'
    BY <2>1, <2>2 DEF SentInv, Sound
  <2> QED
    BY <2>1, <2>3 DEF SentInv, Sound
<1>6. ASSUME NEW i \in 1 .. Len(mail), Deliver(i) PROVE SentInv'
  <2>1. DeliverStep(i)
    BY <1>6, DeliverCase
  <2>2. UNCHANGED <<state, local, newest, goals, crossed>>
    BY <2>1 DEF DeliverStep
  <2>3. \A k \in 1 .. Len(mail') : \E j \in 1 .. Len(mail) : mail'[k] = mail[j]
    <3>1. ASSUME NEW k \in 1 .. Len(mail') PROVE \E j \in 1 .. Len(mail) : mail'[k] = mail[j]
      <4>1. k \in 1 .. Len(mail) /\ k + 1 \in 1 .. Len(mail) /\ k \in 1 .. Len(mail) - 1
        BY <1>0, <2>1, <3>1 DEF DeliverStep
      <4>2. mail'[k] = mail[k] \/ mail'[k] = mail[k + 1]
        BY <2>1, <4>1 DEF DeliverStep
      <4> QED
        BY <4>1, <4>2
    <3> QED
      BY <3>1
  <2>4. \A k \in 1 .. Len(mail') : IsTrajectory(k)' => Sound(mail[k].traj)'
    BY <2>2, <2>3 DEF SentInv, Sound, IsTrajectory
  <2>5. Sound(traj)'
    <3>1. CASE mail[i].topic = "stop"
      <4>1. traj'.id = traj.id /\ traj'.age = traj.age
        BY <2>1, <3>1 DEF DeliverStep, IsTrajectory
      <4> QED
        BY <2>2, <4>1 DEF SentInv, Sound
    <3>2. CASE IsTrajectory(i)
      <4>1. traj' = mail[i].traj
        BY <2>1, <3>2 DEF DeliverStep, IsTrajectory
      <4>2. Sound(mail[i].traj)
        BY <3>2 DEF SentInv
      <4> QED
        BY <2>2, <4>1, <4>2 DEF Sound
    <3> QED
      BY <2>1, <3>1, <3>2 DEF DeliverStep
  <2> QED
    BY <2>2, <2>4, <2>5 DEF SentInv
<1>7. CASE CommandStep
  BY <1>7 DEF CommandStep, SentInv, Sound, IsTrajectory
<1>8. CASE Tick
  <2>1. TickStep
    BY <1>8, TickCase
  <2>2. /\ UNCHANGED <<state, goals, crossed>>
        /\ Later(local', local) /\ Later(newest', newest) /\ Later(traj', traj)
        /\ local = newest => local' = newest'
        /\ Len(mail') = Len(mail)
    BY <2>1 DEF TickStep
  <2>3. ASSUME NEW t, NEW u, t.id \in Nat, t.age \in Int, Sound(t), Later(u, t)
        PROVE  /\ u.id <= local'.id
               /\ u.id = newest'.id => u.age = newest'.age
               /\ u.age < 0 => u.id = newest'.id /\ state' = "EXEC_TRAJ" /\ goals' > 0
    BY <1>0, <2>2, <2>3, Numbers DEF Sound, Later
  <2>4. Sound(traj)'
    BY <1>0, <2>2, <2>3 DEF SentInv, Sound
  <2>5. \A i \in 1 .. Len(mail') : IsTrajectory(i)' => Sound(mail[i].traj)'
    <3>1. ASSUME NEW i \in 1 .. Len(mail'), IsTrajectory(i)' PROVE Sound(mail[i].traj)'
      <4>1. i \in 1 .. Len(mail) /\ mail'[i].topic = mail[i].topic
            /\ Later(mail'[i].traj, mail[i].traj)
        BY <2>1, <2>2, <3>1 DEF TickStep
      <4>2. Sound(mail[i].traj)
        BY <3>1, <4>1 DEF SentInv, IsTrajectory
      <4> QED
        BY <1>0, <2>3, <4>1, <4>2 DEF Sound
    <3> QED
      BY <3>1
  <2>6. /\ newest'.id <= local'.id
        /\ newest'.age < 0 => state' = "EXEC_TRAJ"
        /\ local'.age < 0 \/ local'.id = newest'.id => local' = newest'
        /\ state' = "EXEC_TRAJ" /\ ~crossed' => local' = newest'
    BY <1>0, <2>2, Numbers DEF SentInv, Later
  <2> QED
    BY <2>4, <2>5, <2>6 DEF SentInv
<1> QED
  BY <1>1, <1>2, <1>3, <1>4, <1>5, <1>6, <1>7, <1>8, StepCases

-----------------------------------------------------------------------------
(* The command in force. *)

\* The base follows what the server holds.
LEMMA CommandInvStep ==
  ASSUME TypeOK, CommandInv, [Next]_vars
  PROVE  CommandInv'
<1>1. CASE Quiet \/ PlanStep \/ ExecuteStep \/ GoalStep \/ SafetyStep
  BY <1>1 DEF Quiet, PlanStep, ExecuteStep, GoalStep, SafetyStep, ServerSame, CommandInv, Elapsed
<1>2. ASSUME NEW i \in 1 .. Len(mail), Deliver(i) PROVE CommandInv'
  <2>1. DeliverStep(i)
    BY <1>2, DeliverCase
  <2> QED
    BY <2>1 DEF DeliverStep, CommandInv
<1>3. CASE CommandStep
  <2>1. CASE CommandRotation
    BY <2>1 DEF CommandRotation, Turn, CommandInv
  <2>2. CASE CommandTargetReached
    BY <2>2 DEF CommandTargetReached, Rest, CommandInv
  <2>3. CASE CommandTrajectory
    <3>1. traj' = traj
      BY <2>3 DEF CommandTrajectory
    <3>2. CASE ~receiving \/ traj.age < 0
      <4>1. base' = base /\ receiving' = receiving
        <5>1. ~(traj.age >= 0) \/ ~receiving
          BY <3>2, Numbers
        <5> QED
          BY <2>3, <5>1 DEF CommandTrajectory
      <4> QED
        BY <3>1, <3>2, <4>1 DEF CommandInv
    <3>3. CASE receiving /\ traj.age >= 0 /\ Elapsed(traj)
      <4>1. base' = Rest
        <5>1. ~(traj.age < 0)
          BY <3>3, Numbers
        <5> QED
          BY <2>3, <3>3, <5>1, Zenon DEF CommandTrajectory
      <4> QED
        BY <4>1 DEF CommandInv, Rest
    <3>4. CASE receiving /\ traj.age >= 0 /\ ~Elapsed(traj)
      <4>1. ~(traj.age < 0)
        BY <3>4, Numbers
      <4>2. base' = Follow(traj) /\ receiving' = receiving
        BY <2>3, <3>4, <4>1, Zenon DEF CommandTrajectory
      <4> QED
        BY <3>1, <3>4, <4>2 DEF CommandInv, Follow, Elapsed
    <3> QED
      BY <3>2, <3>3, <3>4, Numbers
  <2>4. CASE cmdDue' /\ receiving' = receiving /\ base' = base
    BY <2>4 DEF CommandInv
  <2> QED
    BY <1>3, <2>1, <2>2, <2>3, <2>4 DEF CommandStep, Command
<1>4. CASE Tick
  <2>1. TickStep
    BY <1>4, TickCase
  <2> QED
    BY <2>1 DEF TickStep, CommandInv
<1> QED
  BY <1>1, <1>2, <1>3, <1>4, StepCases

-----------------------------------------------------------------------------
(* What is watched. *)

\* The trajectory sent last is on its way, as the last message, or there.
LEMMA WatchStep ==
  ASSUME TypeOK, SentInv, WatchInv, [Next]_vars
  PROVE  WatchInv'
<1>0. Len(mail) \in Nat /\ local.id \in Nat /\ traj.id \in Nat
  BY Numbers
<1>1. CASE Quiet
  <2>1. /\ UNCHANGED <<local, newest, mail, traj, overtaken>>
        /\ crossed' <=> crossed
        /\ staticState => staticState'
        /\ \/ state' = state
           \/ state = "INIT" /\ state' = "WAIT_TRIGGER"
           \/ state \in {"WAIT_TRIGGER", "REPLAN"} /\ state' = "PLAN_TRAJ"
           \/ state = "PLAN_TRAJ" /\ state' = "FINISH"
    BY <1>1 DEF Quiet, ServerSame
  <2>2. LastSent' = LastSent
    BY <2>1 DEF LastSent
  <2>3. Driving' => Driving
    BY <2>1 DEF Driving, WatchInv
  <2>4. state' \in {"INIT", "WAIT_TRIGGER"} => staticState'
    BY <2>1 DEF WatchInv
  <2> HIDE DEF Driving
  <2> QED
    BY <2>1, <2>2, <2>3, <2>4 DEF WatchInv, IsTrajectory
<1>2. CASE PlanStep
  BY <1>2 DEF PlanStep, WatchInv, Driving
<1>3. CASE ExecuteStep
  <2>1. /\ state = "EXEC_TRAJ" /\ state' = "REPLAN"
        /\ mail' = Append(mail, TrajectoryMessage(newest))
        /\ UNCHANGED <<local, newest>>
        /\ crossed' <=> crossed
    BY <1>3 DEF ExecuteStep
  <2>2. LastSent' = newest
    BY <2>1 DEF LastSent, SentInv
  <2>3. Len(mail') = Len(mail) + 1 /\ mail'[Len(mail')] = TrajectoryMessage(newest)
    BY <2>1, Sent
  <2>4. Len(mail') > 0 /\ IsTrajectory(Len(mail))' /\ mail'[Len(mail')].traj = LastSent'
    BY <1>0, <2>2, <2>3, MessageFacts DEF IsTrajectory
  <2> QED
    BY <2>1, <2>4 DEF WatchInv
<1>4. CASE GoalStep
  <2>1. /\ state' = state /\ staticState' = staticState
        /\ mail' = Append(mail, TrajectoryMessage(local'))
        /\ state # "EXEC_TRAJ" => ~crossed'
    BY <1>4 DEF GoalStep
  <2>2. Driving' => LastSent' = local'
    BY <2>1 DEF LastSent, Driving
  <2>3. Len(mail') = Len(mail) + 1 /\ mail'[Len(mail')] = TrajectoryMessage(local')
    BY <2>1, Sent
  <2>4. Len(mail') > 0 /\ IsTrajectory(Len(mail))' /\ mail'[Len(mail')].traj = local'
    BY <1>0, <2>3, MessageFacts DEF IsTrajectory
  <2> QED
    BY <2>1, <2>2, <2>4 DEF WatchInv
<1>5. CASE SafetyStep
  BY <1>5 DEF SafetyStep, WatchInv, Driving
<1>6. ASSUME NEW i \in 1 .. Len(mail), Deliver(i) PROVE WatchInv'
  <2>1. DeliverStep(i)
    BY <1>6, DeliverCase
  <2>2. UNCHANGED <<state, staticState, local, newest, crossed>> /\ LastSent' = LastSent
    BY <2>1 DEF DeliverStep, LastSent
  <2>3. Driving' <=> Driving
    BY <2>2 DEF Driving
  <2>4. Len(mail') = Len(mail) - 1
    BY <2>1 DEF DeliverStep
  <2>5. CASE Driving /\ Len(mail) > 0 /\ IsTrajectory(Len(mail)) /\ mail[Len(mail)].traj = LastSent
    <3>1. CASE i = Len(mail)
      <4>1. IsTrajectory(i) /\ traj' = LastSent
        BY <2>1, <2>5, <3>1 DEF DeliverStep, IsTrajectory
      <4>2. ASSUME NEW k \in 1 .. Len(mail') PROVE ~IsTrajectory(k)'
        <5>1. k \in 1 .. i - 1 /\ k < i /\ k \in 1 .. Len(mail) - 1
          BY <1>0, <2>4, <3>1, <4>2
        <5>2. mail'[k] = mail[k] /\ mail[k].topic # mail[i].topic
          BY <2>1, <5>1 DEF DeliverStep
        <5> QED
          BY <4>1, <5>2 DEF IsTrajectory
      <4>3. ~overtaken' => Len(mail') = 0
        BY <2>1, <2>4, <3>1 DEF DeliverStep
      <4> QED
        BY <2>2, <2>3, <4>1, <4>2, <4>3 DEF WatchInv
    <3>2. CASE i # Len(mail)
      <4>1. Len(mail') \in 1 .. Len(mail) - 1 /\ ~(Len(mail') < i) /\ Len(mail') + 1 = Len(mail)
        BY <1>0, <2>4, <3>2
      <4>2. mail'[Len(mail')] = mail[Len(mail)]
        BY <2>1, <4>1 DEF DeliverStep
      <4>3. Len(mail') > 0
        BY <4>1
      <4> QED
        BY <2>2, <2>5, <4>2, <4>3 DEF WatchInv, IsTrajectory
    <3> QED
      BY <3>1, <3>2
  <2>6. CASE Driving /\ (\A k \in 1 .. Len(mail) : ~IsTrajectory(k))
             /\ traj.id = LastSent.id /\ traj.age = LastSent.age
             /\ (~overtaken => Len(mail) = 0 /\ traj.dur = LastSent.dur)
    <3>1. overtaken /\ ~IsTrajectory(i)
      BY <1>0, <2>6
    <3>2. overtaken' /\ traj'.id = traj.id /\ traj'.age = traj.age
      BY <2>1, <3>1 DEF DeliverStep
    <3>3. ASSUME NEW k \in 1 .. Len(mail') PROVE ~IsTrajectory(k)'
      <4>1. k \in 1 .. Len(mail) /\ k + 1 \in 1 .. Len(mail) /\ k \in 1 .. Len(mail) - 1
        BY <1>0, <2>4, <3>3
      <4>2. mail'[k] = mail[k] \/ mail'[k] = mail[k + 1]
        BY <2>1, <4>1 DEF DeliverStep
      <4> QED
        BY <2>6, <4>1, <4>2 DEF IsTrajectory
    <3> QED
      BY <2>2, <2>3, <2>6, <3>2, <3>3 DEF WatchInv
  <2>7. CASE ~Driving
    BY <2>2, <2>3, <2>7 DEF WatchInv
  <2> QED
    BY <2>5, <2>6, <2>7 DEF WatchInv
<1>7. CASE CommandStep
  BY <1>7 DEF CommandStep, WatchInv, Driving, LastSent, IsTrajectory
<1>8. CASE Tick
  <2>1. TickStep
    BY <1>8, TickCase
  <2>2. /\ UNCHANGED <<state, staticState, overtaken, crossed>> /\ Len(mail') = Len(mail)
        /\ Later(local', local) /\ Later(newest', newest) /\ Later(traj', traj)
    BY <2>1 DEF TickStep
  <2>3. Driving' <=> Driving
    BY <2>2 DEF Driving
  <2>4. Later(LastSent', LastSent)
    BY <2>2 DEF LastSent
  <2>5. \A i \in 1 .. Len(mail') : /\ IsTrajectory(i)' <=> IsTrajectory(i)
                                   /\ mail[i].traj = LastSent => mail'[i].traj = LastSent'
    BY <2>1, <2>2 DEF TickStep, IsTrajectory
  <2>6. Len(mail) > 0 => Len(mail') \in 1 .. Len(mail')
    BY <1>0, <2>2
  <2>7. traj.id = LastSent.id /\ traj.age = LastSent.age =>
          traj'.id = LastSent'.id /\ traj'.age = LastSent'.age
    BY <2>2, <2>4 DEF Later
  <2>8. traj.dur = LastSent.dur => traj'.dur = LastSent'.dur
    BY <2>2, <2>4 DEF Later
  <2> HIDE DEF Driving, LastSent
  <2> QED
    BY <2>2, <2>3, <2>5, <2>6, <2>7, <2>8 DEF WatchInv
<1> QED
  BY <1>1, <1>2, <1>3, <1>4, <1>5, <1>6, <1>7, <1>8, StepCases

-----------------------------------------------------------------------------
(* The stop of a condemned trajectory. *)

\* The stop is behind what it is for, or applied.
LEMMA StopStep ==
  ASSUME TypeOK, SentInv, StopInv, [Next]_vars
  PROVE  StopInv'
<1>0. /\ local.id \in Nat /\ newest.id \in Nat /\ traj.id \in Nat /\ Len(mail) \in Nat
      /\ condemned \in Nat /\ traj.age \in Int /\ traj.dur \in Int /\ AgeCap \in Nat
      /\ \A i \in 1 .. Len(mail) : mail[i].traj.id \in Nat
  BY Numbers
\* A trajectory that is sent and allowed leaves the order as it is.
<1>a. ASSUME NEW t, mail' = Append(mail, TrajectoryMessage(t)), Survives(t)',
             condemned > 0, ~overtaken, traj' = traj, condemned' = condemned,
             revived => revived'
      PROVE  /\ StopPending' \/ Survives(traj)' \/ Elapsed(traj')
             /\ \A i \in 1 .. Len(mail') : IsTrajectory(i)' =>
                  \/ Survives(mail[i].traj)'
                  \/ \E j \in i + 1 .. Len(mail') : mail'[j].topic = "stop"
  <2>1. /\ Len(mail') = Len(mail) + 1
        /\ \A i \in 1 .. Len(mail) : mail'[i] = mail[i]
        /\ mail'[Len(mail) + 1].traj = t
        /\ \A i \in 1 .. Len(mail') : i \in 1 .. Len(mail) \/ i = Len(mail) + 1
    BY <1>a, Sent, MessageFacts
  <2>2. StopPending => StopPending'
    BY <1>0, <2>1 DEF StopPending
  <2>3. Survives(traj) => Survives(traj)'
    BY <1>a DEF Survives
  <2>4. ASSUME NEW i \in 1 .. Len(mail'), IsTrajectory(i)'
        PROVE  \/ Survives(mail[i].traj)'
               \/ \E j \in i + 1 .. Len(mail') : mail'[j].topic = "stop"
    <3>1. CASE i = Len(mail) + 1
      BY <1>a, <2>1, <3>1 DEF Survives
    <3>2. CASE i \in 1 .. Len(mail)
      <4>1. \/ Survives(mail[i].traj)
            \/ \E j \in i + 1 .. Len(mail) : mail[j].topic = "stop"
        BY <1>a, <2>1, <2>4, <3>2 DEF StopInv, IsTrajectory
      <4>2. CASE Survives(mail[i].traj)
        BY <1>a, <2>1, <3>2, <4>2 DEF Survives
      <4>3. CASE \E j \in i + 1 .. Len(mail) : mail[j].topic = "stop"
        BY <1>0, <2>1, <3>2, <4>3
      <4> QED
        BY <4>1, <4>2, <4>3
    <3> QED
      BY <2>1, <2>4, <3>1, <3>2
  <2> QED
    BY <1>a, <2>2, <2>3, <2>4 DEF StopInv, Elapsed
<1>1. CASE Quiet
  <2>1. UNCHANGED <<local, newest, mail, traj, overtaken, condemned, revived>>
    BY <1>1 DEF Quiet, ServerSame
  <2>2. state' \in {"INIT", "WAIT_TRIGGER"} => state \in {"INIT", "WAIT_TRIGGER"}
    BY <1>1 DEF Quiet
  <2>3. state' \in {"EXEC_TRAJ", "REPLAN"} => state \in {"EXEC_TRAJ", "REPLAN"}
    BY <1>1 DEF Quiet
  <2> QED
    BY <2>1, <2>2, <2>3 DEF StopInv, StopPending, Survives, Elapsed, IsTrajectory
<1>2. CASE PlanStep
  <2>1. /\ local'.id = local.id + 1 /\ newest' = local' /\ state' = "EXEC_TRAJ"
        /\ UNCHANGED <<mail, traj, overtaken, condemned, revived>>
    BY <1>2 DEF PlanStep, ServerSame
  <2>2. condemned' <= local'.id /\ condemned' < newest'.id
    BY <1>0, <2>1 DEF StopInv
  <2> QED
    BY <2>1, <2>2 DEF StopInv, StopPending, Survives, Elapsed, IsTrajectory
<1>3. CASE ExecuteStep
  <2>1. /\ state = "EXEC_TRAJ" /\ state' = "REPLAN"
        /\ mail' = Append(mail, TrajectoryMessage(newest))
        /\ UNCHANGED <<local, newest, traj, overtaken, condemned, revived>>
    BY <1>3 DEF ExecuteStep, ServerSame
  <2>2. condemned < newest.id /\ condemned <= local.id
    BY <2>1 DEF StopInv
  <2>3. Survives(newest)'
    BY <1>0, <2>1, <2>2 DEF Survives
  <2> QED
    BY <1>a, <2>1, <2>2, <2>3 DEF StopInv, Survives
<1>4. CASE GoalStep
  <2>1. /\ state' = state /\ mail' = Append(mail, TrajectoryMessage(local'))
        /\ local' = local \/ local'.id = local.id + 1
        /\ UNCHANGED <<newest, traj, overtaken, condemned>>
    BY <1>4 DEF GoalStep, ServerSame
  <2>2. revived \/ local'.id = condemned => revived'
    BY <1>4, Zenon DEF GoalStep
  <2>3. condemned' <= local'.id
    BY <1>0, <2>1 DEF StopInv
  <2>4. condemned < local'.id \/ local'.id = condemned
    BY <1>0, <2>1 DEF StopInv
  <2>5. Survives(local)'
    BY <1>0, <2>1, <2>2, <2>4 DEF Survives
  <2>6. revived => revived'
    BY <2>2
  <2>7. condemned > 0 /\ ~overtaken =>
          /\ StopPending' \/ Survives(traj)' \/ Elapsed(traj')
          /\ \A i \in 1 .. Len(mail') : IsTrajectory(i)' =>
               \/ Survives(mail[i].traj)'
               \/ \E j \in i + 1 .. Len(mail') : mail'[j].topic = "stop"
    BY <1>a, <2>1, <2>5, <2>6 DEF Survives
  <2> QED
    BY <2>1, <2>3, <2>7 DEF StopInv
<1>5. CASE SafetyStep
  <2>1. /\ Len(mail') = Len(mail) + 1
        /\ \A i \in 1 .. Len(mail) : mail'[i] = mail[i]
        /\ mail'[Len(mail) + 1].topic = "stop"
    BY <1>5, Sent, MessageFacts DEF SafetyStep
  <2>2. Len(mail') \in 1 .. Len(mail') /\ mail'[Len(mail')].topic = "stop"
    BY <1>0, <2>1
  <2>3. StopPending'
    BY <2>2 DEF StopPending
  <2>4. ASSUME NEW i \in 1 .. Len(mail'), IsTrajectory(i)'
        PROVE  \E j \in i + 1 .. Len(mail') : mail'[j].topic = "stop"
    <3>1. i # Len(mail')
      BY <2>2, <2>4 DEF IsTrajectory
    <3>2. Len(mail') \in i + 1 .. Len(mail')
      BY <1>0, <2>1, <2>4, <3>1
    <3> QED
      BY <2>2, <3>2
  <2>5. condemned' = local.id /\ local' = local /\ state' = "PLAN_TRAJ"
    BY <1>5 DEF SafetyStep
  <2> QED
    BY <1>0, <2>3, <2>4, <2>5 DEF StopInv
<1>6. ASSUME NEW i \in 1 .. Len(mail), Deliver(i) PROVE StopInv'
  <2>1. DeliverStep(i)
    BY <1>6, DeliverCase
  <2>2. UNCHANGED <<state, local, newest, condemned, revived>>
    BY <2>1 DEF DeliverStep
  <2>3. CASE condemned = 0 \/ overtaken'
    BY <2>2, <2>3 DEF StopInv
  <2>4. CASE condemned > 0 /\ ~overtaken'
    <3>1. ~overtaken /\ i = 1
      BY <2>1, <2>4 DEF DeliverStep
    <3>2. Len(mail') = Len(mail) - 1 /\ \A k \in 1 .. Len(mail') : mail'[k] = mail[k + 1]
      BY <1>0, <2>1, <3>1 DEF DeliverStep
    <3>3. ASSUME NEW k \in 1 .. Len(mail'), IsTrajectory(k)'
          PROVE  \/ Survives(mail[k].traj)'
                 \/ \E j \in k + 1 .. Len(mail') : mail'[j].topic = "stop"
      <4>1. k + 1 \in 1 .. Len(mail) /\ IsTrajectory(k + 1) /\ mail'[k] = mail[k + 1]
        BY <1>0, <3>2, <3>3 DEF IsTrajectory
      <4>2. CASE Survives(mail[k + 1].traj)
        BY <2>2, <4>1, <4>2 DEF Survives
      <4>3. CASE ~Survives(mail[k + 1].traj)
        <5>1. PICK j \in (k + 1) + 1 .. Len(mail) : mail[j].topic = "stop"
          BY <2>4, <3>1, <4>1, <4>3 DEF StopInv
        <5>2. j - 1 \in k + 1 .. Len(mail') /\ mail'[j - 1] = mail[j]
          BY <1>0, <3>2, <3>3, <5>1
        <5> QED
          BY <5>1, <5>2
      <4> QED
        BY <4>2, <4>3
    <3>4. StopPending' \/ Survives(traj)' \/ Elapsed(traj')
      <4>1. CASE mail[1].topic = "stop"
        BY <2>1, <3>1, <4>1 DEF DeliverStep, Elapsed, IsTrajectory
      <4>2. CASE mail[1].topic = "trajectory"
        <5>1. traj' = mail[1].traj
          BY <2>1, <3>1, <4>2 DEF DeliverStep
        <5>2. CASE Survives(mail[1].traj)
          BY <2>2, <5>1, <5>2 DEF Survives
        <5>3. CASE ~Survives(mail[1].traj)
          <6>1. PICK j \in 1 + 1 .. Len(mail) : mail[j].topic = "stop"
            BY <2>4, <3>1, <4>2, <5>3 DEF StopInv, IsTrajectory
          <6>2. j - 1 \in 1 .. Len(mail') /\ mail'[j - 1] = mail[j]
            BY <1>0, <3>2, <6>1
          <6> QED
            BY <6>1, <6>2 DEF StopPending
        <5> QED
          BY <5>2, <5>3
      <4> QED
        BY <3>1, <4>1, <4>2, Numbers
    <3> QED
      BY <2>2, <3>3, <3>4 DEF StopInv
  <2> QED
    BY <1>0, <2>3, <2>4
<1>7. CASE CommandStep
  BY <1>7 DEF CommandStep, StopInv, StopPending, Survives, Elapsed, IsTrajectory
<1>8. CASE Tick
  <2>1. TickStep
    BY <1>8, TickCase
  <2>2. UNCHANGED <<state, overtaken, condemned, revived>> /\ Len(mail') = Len(mail)
        /\ traj'.id = traj.id /\ local'.id = local.id /\ newest'.id = newest.id
    BY <2>1 DEF TickStep, Later
  <2>3. Elapsed(traj) => Elapsed(traj')
    BY <1>0, <2>1 DEF TickStep, Later, Elapsed
  <2>4. \A i \in 1 .. Len(mail) : mail'[i].topic = mail[i].topic
                                  /\ mail'[i].traj.id = mail[i].traj.id
    BY <2>1 DEF TickStep, Later
  <2>5. StopPending => StopPending'
    BY <2>2, <2>4 DEF StopPending
  <2>6. Survives(traj) => Survives(traj)'
    BY <2>2 DEF Survives
  <2>7. \A i \in 1 .. Len(mail) : i + 1 .. Len(mail) \subseteq 1 .. Len(mail)
    BY <1>0
  <2>8. ASSUME condemned > 0, ~overtaken, NEW i \in 1 .. Len(mail'), IsTrajectory(i)'
        PROVE  \/ Survives(mail[i].traj)'
               \/ \E j \in i + 1 .. Len(mail') : mail'[j].topic = "stop"
    <3>1. i \in 1 .. Len(mail) /\ IsTrajectory(i)
      BY <2>2, <2>4, <2>8 DEF IsTrajectory
    <3>2. CASE Survives(mail[i].traj)
      BY <2>2, <2>4, <3>1, <3>2 DEF Survives
    <3>3. CASE \E j \in i + 1 .. Len(mail) : mail[j].topic = "stop"
      <4>1. PICK j \in i + 1 .. Len(mail) : mail[j].topic = "stop"
        BY <3>3
      <4>2. j \in 1 .. Len(mail) /\ j \in i + 1 .. Len(mail')
        BY <2>2, <2>7, <3>1, <4>1
      <4> QED
        BY <2>4, <4>1, <4>2
    <3> QED
      BY <2>8, <3>1, <3>2, <3>3 DEF StopInv
  <2> QED
    BY <2>2, <2>3, <2>5, <2>6, <2>8 DEF StopInv
<1> QED
  BY <1>1, <1>2, <1>3, <1>4, <1>5, <1>6, <1>7, <1>8, StepCases

-----------------------------------------------------------------------------
(* The results. *)

DriveInv == TypeOK /\ SentInv /\ CommandInv /\ WatchInv /\ StopInv

\* All of it holds together.
LEMMA DriveAlways == Spec => []DriveInv
<1>1. Init => DriveInv
  <2> SUFFICES ASSUME Init PROVE DriveInv
    OBVIOUS
  <2>1. /\ mail = <<>> /\ Len(mail) = 0 /\ traj = NoTrajectory /\ local = NoTrajectory
        /\ newest = NoTrajectory /\ state = "INIT" /\ base = Rest /\ condemned = 0
    BY DEF Init, FsmInit, ServerInit
  <2>2. NoTrajectory.id = 0 /\ NoTrajectory.age = AgeCap /\ AgeCap \in Nat
    BY AgeCapAssumption DEF NoTrajectory
  <2>3. SentInv
    BY <2>1, <2>2 DEF SentInv, Sound
  <2>4. CommandInv
    BY <2>1 DEF CommandInv, Rest
  <2>5. WatchInv
    <3>1. staticState
      BY Zenon DEF Init, FsmInit
    <3> QED
      BY <2>1, <3>1 DEF WatchInv, Driving
  <2>6. StopInv
    BY <2>1, <2>2 DEF StopInv
  <2>7. Init => TypeOK
    BY TypeInit
  <2> QED
    BY <2>3, <2>4, <2>5, <2>6, <2>7 DEF DriveInv
<1>2. DriveInv /\ [Next]_vars => DriveInv'
  BY TypeStep, SentStep, CommandInvStep, WatchStep, StopStep DEF DriveInv
<1> QED
  BY <1>1, <1>2, PTL DEF Spec

\* Before its start the server holds a trajectory only while that is awaited.
LEMMA EarlyIsAwaited ==
  ASSUME DriveInv, traj.age < 0
  PROVE  AwaitsStart
  BY DEF DriveInv, SentInv, Sound, AwaitsStart

\* Both forms of CommandIsCurrent.
LEMMA CurrentFromInv == DriveInv => CommandIsCurrent
<1> SUFFICES ASSUME DriveInv, base.kind = "follow", ~cmdDue
             PROVE  /\ receiving
                    /\ \/ base.id = traj.id /\ 0 <= traj.age /\ ~Elapsed(traj)
                       \/ AwaitsStart
  BY DEF CommandIsCurrent
<1>1. receiving /\ (traj.age < 0 \/ (base.id = traj.id /\ ~Elapsed(traj)))
  BY DEF DriveInv, CommandInv
<1>2. CASE traj.age < 0
  BY <1>1, <1>2, EarlyIsAwaited
<1>3. CASE ~(traj.age < 0)
  <2>1. 0 <= traj.age
    BY <1>3, Numbers DEF DriveInv
  <2> QED
    BY <1>1, <1>3, <2>1
<1> QED
  BY <1>2, <1>3

\* The base never moves along a trajectory on an outdated command, but for the
\* start a goal pose made it wait for.
THEOREM CommandStaysCurrent == Spec => []CommandIsCurrent
  BY DriveAlways, CurrentFromInv, PTL

\* The server holds the trajectory the planner sent last, which is the one the
\* state machine watches unless a goal pose crossed a plan.
THEOREM WatchedIsFollowed == Spec => []WatchesWhatItFollows
<1>1. DriveInv => WatchesWhatItFollows
  <2> SUFFICES ASSUME DriveInv, state = "REPLAN", mail = <<>>
               PROVE  traj.id = LastSent.id /\ traj.age = LastSent.age
    BY DEF WatchesWhatItFollows, Delivered
  <2>1. Len(mail) = 0
    OBVIOUS
  <2> QED
    BY <2>1 DEF DriveInv, WatchInv, Driving
<1> QED
  BY <1>1, DriveAlways, PTL

\* A plan made in motion starts from a trajectory that is being driven in full.
THEOREM PlansFollowTheRobot == Spec => []PlansFromWhatItFollows
<1>1. DriveInv => PlansFromWhatItFollows
  <2> SUFFICES ASSUME DriveInv, state = "PLAN_TRAJ", ~staticState, mail = <<>>
               PROVE  /\ traj.id = LastSent.id /\ traj.age = LastSent.age
                      /\ ~overtaken => traj.dur = LastSent.dur
    BY DEF PlansFromWhatItFollows, Delivered
  <2>1. Len(mail) = 0
    OBVIOUS
  <2> QED
    BY <2>1 DEF DriveInv, WatchInv, Driving
<1> QED
  BY <1>1, DriveAlways, PTL

\* A trajectory stopped in an emergency stays stopped.
THEOREM CondemnedStaysAbandoned == Spec => []CondemnedIsAbandoned
<1>1. DriveInv => CondemnedIsAbandoned
  <2> SUFFICES ASSUME DriveInv, condemned > 0, base.kind = "follow", ~StopPending, ~cmdDue,
                      ~overtaken, ~AwaitsStart
               PROVE  base.id > condemned \/ (revived /\ base.id = condemned)
    BY DEF CondemnedIsAbandoned
  <2>1. base.id = traj.id /\ ~Elapsed(traj)
    BY CurrentFromInv DEF CommandIsCurrent
  <2>2. Survives(traj)
    BY <2>1 DEF DriveInv, StopInv
  <2> QED
    BY <2>1, <2>2 DEF Survives
<1> QED
  BY <1>1, DriveAlways, PTL
=============================================================================
