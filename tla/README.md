# Verification of the navigation system's control

TLA+ models, TLC configurations and TLAPS proofs kept beside VIRUS_Nav, an
object-goal navigation system: a robot (simulated by Habitat, or real) explores
an unknown building until it has found an object of a given category.

The system is a handful of processes connected by ROS topics. Two of them carry
its control logic:

* the **evaluator**, `src/habitat_evaluation.py`: runs the simulator episode by
  episode, executes actions, runs the detectors, publishes the observations;
* the **planner node** `exploration_node` (C++, `src/src/planner/`): builds maps
  from the observations, decides where to go and issues one action at a time.

On a real robot a second state machine in the planner node plans trajectories
instead of single actions, and a **trajectory server** (C++) drives the base.

The models are about this control: who may act when, which message belongs to
which episode, what a decision is based on, when an episode ends, what a grid of
cells and the lists derived from it owe each other, and what survives a crash.
Optimisation, neural networks and drawing are abstracted to arbitrary results.

## Contents

| file | what it is |
|---|---|
| `Lockstep.tla` | abstract specification: planner and evaluator alternate strictly |
| `EpisodeProtocol.tla` | evaluator and planner FSM with their topics, callbacks and timers |
| `EpisodeProperties.tla` | its properties and the refinement mapping to `Lockstep` |
| `EpisodeProtocolProofs.tla` | proofs of its type correctness and of who may act when |
| `EpisodeFreshnessProofs.tla` | proofs that poses and decisions are up to date when used |
| `EpisodeRefinementProofs.tla` | proof that it implements `Lockstep` |
| `ActionPlanner.tla` | one planning call of the planner and the world's answer |
| `ActionPlannerProperties.tla` | its properties |
| `ActionPlannerProofs.tla` | proofs of its safety properties |
| `SDFMap.tla` | the occupancy grid and its inflation, image by image |
| `FrontierMap.tla` | frontier clusters over that grid: search, split, retire |
| `FrontierCycle.tla` | both with the planning call that uses them |
| `ClusterProofs.tla` | what search, centre and splitting of clusters return, proved for every grid |
| `FrontierProperties.tla`, `FrontierProofs.tla` | their properties and proofs |
| `Ledger.tla` | abstract specification: what the evaluator's files promise its next run |
| `EpisodeRecords.tla`, `EpisodeRecordsProofs.tla` | the evaluator's files, its deaths and restarts; properties and proofs |
| `Trajectories.tla` | a trajectory in time, as planner and server hold it |
| `RealFSM.tla`, `TrajServer.tla` | the state machine of the real-world mode; the trajectory server and the base |
| `RealRobot.tla` | both with their messages and time |
| `RealProperties.tla`, `RealRobotProofs.tla` | their properties and proofs |
| `MCEpisodeProtocol.tla`, `MCEpisodeSafety`, `Lossy`, `Unsettled.cfg` | instances of the protocol for TLC |
| `MCActionPlanner.tla`, `MCPlanner*.cfg` | instances of the planning call |
| `MCFrontier.tla`, `MCFrontier*.cfg` | instances of the grid |
| `MCEpisodeRecords.tla`, `MCRecords*.cfg` | instances of the records |
| `MCRealRobot.tla`, `MCReal*.cfg` | instances of the real-world mode |
| `PROJECT.json` | components, runs, source lines of every definition, hazards, findings, theorems |

To repeat the work: `tlc -config MCEpisodeSafety.cfg MCEpisodeProtocol.tla`,
`tlapm EpisodeProtocolProofs.tla`, and so on for the other pairs below.

## 1. Inventory

For each component: the state it keeps, its operations, whom it talks to, what
is hard about it, what makes it correct, and where it stands.

### Evaluator (`src/habitat_evaluation.py`) - modelled but for what it computes

* *State.* Main thread: episode number, `count_steps`, the environment's
  `episode_over`, `wait_action_since`. Globals shared with rospy's callback
  threads: `global_action`, `ros_state`, `final_state`, `expl_result`.
* *Operations.* Reset an episode; publish odometry, threshold and trigger from a
  0.25 s timer until the planner is ready; poll the slot every 100 ms; translate
  and clear an action; step the environment; publish `ACTION_EXEC`, the new
  observation and `ACTION_FINISH`; re-send `ACTION_FINISH` from a watchdog;
  classify and record the episode; publish `EPISODE_FINISH`.
* *Interaction.* `/habitat/state`, `/odom_world`, `/detector/confidence_threshold`
  and `/move_base_simple/goal` to the planner; `/habitat/plan_action`,
  `/ros/state`, `/ros/expl_state` and `/ros/expl_result` from it.
* *Hard.* Globals without locks; topics without a common order; messages that do
  not say which episode they belong to; a retry of what may only be late.
* *Correct if* every executed action was issued for this step of this episode,
  every episode ends and is classified by its own outcome.

### Planner FSM, simulation mode (`exploration_fsm.cpp`, `exploration_data.h`) - modelled but for drawing

* *State.* `state_` (`INIT`, `WAIT_TRIGGER`, `PLAN_ACTION`, `WAIT_ACTION_FINISH`,
  `PUB_ACTION`, `FINISH`), flags `have_*`, pose, `init_action_count_`, the next
  action, the previous target and path, two stuck counters, the escape.
* *Operations.* `FSMCallback` every 10 ms, four subscriber callbacks, `init` at
  the end of every episode, `callActionPlanner` once per turn. All run in one
  thread, so each is atomic with respect to the others.
* *Hard.* It re-creates itself while messages are under way; its counters reset
  each other; it restores earlier targets after the maps have changed.
* *Correct if* it plans once per `ACTION_FINISH`, from the newest pose, never
  hands out an action without a path, ends with `REACH_OBJECT` only at an object,
  and ends the episode of a robot that is stuck.

### Exploration manager (`exploration_manager.cpp`) - outcomes modelled

* *State.* The next target and path; static: the last over-depth object cloud.
* *Operations.* `planNextBestPoint`: confident objects, over-depth objects,
  frontiers (active, then dormant), suspicious objects, the extreme search;
  policies by distance, semantic value, TSP or a hybrid. `planTrajectory` for
  the real-world mode (a success or a failure of `RealFSM`).
* *Hard.* Many fallbacks, a cache that outlives the episode, time-outs that look
  like unreachable targets.
* *Correct if* the result code always describes the target that goes with it.

### Frontier map (`frontier_map2d.cpp`) - modelled but for visibility

* *State.* A flag per cell (`NONE`, `ACTIVE`, `DORMANT`, `FORCE_DORMANT`) and two
  lists of clusters, active and dormant: the same fact stored twice.
* *Operations.* `searchFrontiers` releases what changed and finds and splits
  clusters around the last image; `dormantSeenFrontiers`; `isAnyFrontierChanged`,
  called before the search; `setForceDormantFrontier`.
* *Hard.* The search is local to the box of the last image only; release and
  report of a change have different thresholds; a region is forced dormant by
  cell and a cluster by its average.
* *Correct if* every cell belongs to at most one cluster, flags and lists agree,
  no frontier of the map is forgotten, a forced-dormant cell never comes back,
  and a target is kept only while it is listed.

### Occupancy map (`sdf_map2d.cpp`) - occupancy and inflation modelled

* *State.* Log-odds per cell, the inflated cells, the box of the last image.
* *Operations.* Fuse an image; clear the inflation around cells that became free
  and inflate the obstacles in the box; force obstacles where the robot is stuck;
  distance transform (numerical, not modelled).
* *Correct if* what is inflated has an obstacle near (no ghosts), and what is near
  an obstacle is inflated. The second does not hold (see the findings).

### Object map (`object_map2d.cpp`) and map interface (`map_ros.cpp`) - what the planner reads

* Clusters with confidence per label; detection fusion; the over-depth cloud with
  a hysteresis of five images. Depth images enter `SDFMap`; what the maps say of
  objects is a free choice in `ActionPlanner`. *Correct if* a cluster's best label
  follows from its observations and a new detection is not overwritten by an old
  one: numerical, not modelled.

### Value map (`value_map2d.cpp`), path search (`astar2d.cpp`) - not modelled

* A weighted mean per cell; A* on the grid with a time limit and a node pool. A
  search is an arbitrary success or failure, its timeout included.

### Real-world mode (`exploration_fsm_traj.cpp`, `traj_server.cpp`) - modelled but for the optimisation

* *State.* `state_` (`INIT`, `WAIT_TRIGGER`, `PLAN_TRAJ`, `EXEC_TRAJ`, `REPLAN`,
  `FINISH`), `static_state_`, the trajectory twice (`local_trajectory_`, which is
  watched, and `newest_traj_`, which is sent); in the server the trajectory it
  follows and a rotation; in the base the last velocity.
* *Operations.* Plan, wait for the start time, send, replan near the end, on a
  change or when old; a safety timer that stops the robot; a goal pose that is
  planned and sent at once; in the server a trajectory, a stop, a target angle and
  a command timer.
* *Hard.* Stops and trajectories travel on two topics; trajectories start in the
  future; the base keeps moving when nobody commands it.
* *Correct if* what is watched is what is followed, a stopped trajectory is not
  followed again, the base never moves without a current trajectory, and the end
  of exploration is the end of motion.

### Records (`write_record.py`, `read_record.py`) - modelled

* *State.* The record file and the continue file, blocks newest first; in memory
  totals and the place in the dataset; videos in a folder per result.
* *Operations.* Each file is read, emptied and rewritten; at start the continue
  file gives the totals and the number of episodes to skip.
* *Hard.* The evaluator ends by `os._exit` on Ctrl+C and on every exception, so it
  may die before, between and inside the writes; episode limits that differ from
  run to run let the dataset start again.
* *Correct if* a number always means the same episode, totals add up, and no
  episode is counted twice or lost.

### Everything else

Point-cloud utilities, ray casting, optimiser and MPC (numerical), the failure
categories (`failure_check.py`, a pure function), vendored TSP solver, vision and language servers (arbitrary inputs), manual controls,
launcher, drawing, the experimental overlay in `src/VIRUS` (disabled by every
file of `config/`). `PROJECT.json` lists each with the reason.

## 2. The models and the code

### EpisodeProtocol

Each operation of either process is one action: it is atomic where the code is
(a callback of the single-threaded planner node), and split where another
thread may run in between (the main thread's read, translation and clearing of
`global_action` are three steps: `TakeAction`, `TranslateAction`, `ClearAction`).

| model | code |
|---|---|
| `evPc` | the main thread's place in `main()` (reset, readiness wait, poll, ... report) |
| `globalAction`, `rosState`, `finalState` | the globals written by the callback threads |
| `armed` | `wait_action_since is not None` |
| `state`, `initCount`, `newestAction`, `finalResult`, `have*` | the planner's members |
| `habitatQ`, `odomQ`, `confQ`, `trigQ`, `actionQ`, `rosQ`, `explQ` | messages in flight, bounded by `queue_size`, oldest dropped first |
| `TickInit` ... `TickPub` | the cases of `FSMCallback`, which publishes `/ros/state` first |
| `HabitatStateCallback`, `ReInit` | `habitatStateCallback`; `init()` re-makes the subscribers, so messages queued for the old ones may be dropped |
| `PublishObservations` | `publish_observations`, the timer |
| `Heartbeat` | the watchdog's second `ACTION_FINISH` |
| `LoseAction` | the transport; not in the code, `LossyActions = {}` switches it off |

Abstractions. The three motions of `/habitat/plan_action` are one `GO`; a pose
is the pair (episode, number of steps) that led to it; `inc` in a message is the
number of `init()` calls of its sender, carried only for the properties. Any
planning call may return any result; `ActionPlanner` says which one. The
evaluator's forced STOP carries the current episode. `/ros/expl_result` is
read by `check_failure` only and behaves as `/ros/expl_state`, so it is left out.
Three sequences of the code are one step each, where what could come in between
changes nothing as long as there is one turn (`OneTurn`): the slot is cleared just
before `env.reset()`, the timer's three messages are published together (a call that
runs into the timer's shutdown counts as finished), and the comparisons of the
translation read the slot once.

**Timing assumptions.** The code relies on time in three places. Each is a
Boolean constant, so that a run or a theorem says whether it uses it:

| constant | what it says | justification | without it |
|---|---|---|---|
| `InOrderDelivery` | a node's message is handled after the node's earlier messages on other topics | messages of one publisher take milliseconds, the steps between them (simulation, detectors) much longer | `OneTurn`, `PlansFromLatestPose`, `VerdictFromThisEpisode` fail |
| `SettledReset` | the planner has handled `EPISODE_FINISH`, and what it sent before has arrived, when the next episode clears the slot (`habitat_evaluation.py:325`) | in between lie the statistics, two files to rewrite, a sleep of 0.1 s and, if one is saved, the video; the planner's reaction is one callback, behind at most one planning call | all of these and `NoStaleAction`, `ReadyForThisEpisode` (run `episode_unsettled`) fail |
| `AccurateWatchdog` | the watchdog fires only when nothing is pending | `action_finish_watchdog_sec` exceeds a planning call and delivery | `OneTurn`, `PlansFromLatestPose`, `ImplementsLockstep`, `AllEpisodesEvaluated` fail |

The right column is what TLC reports with that constant set to `FALSE`. It is
complete for the safety properties: `NoStaleAction` and `ReadyForThisEpisode` are
proved from `SettledReset` alone, `VerdictFromThisEpisode` from `SettledReset` and
`InOrderDelivery`, and `FinishIsFinal` from nothing (section 4). The
first row's failures and those of the third are the reason to keep the values of
`config/` above the planning time.

### Lockstep

The promise in three variables: episode, steps and whose turn it is. `Turn` in
`EpisodeProperties` maps the detailed state to it: the turn is the evaluator's
as soon as the planner has decided on an action, wherever that action is. The
first action of an episode may be under way before the evaluator has noticed
that the planner is ready, hence the two targets of `Start`.

### ActionPlanner

One planning call per turn, in the order of the early returns of
`callActionPlanner`: `ReachObject`, `StartEscape`, `ContinueEscape`, `Replan`.
`Replan` contains the call of `planNextBestPoint` (`PlanNextBestPoint` lists
every result with the targets it may come with), the heuristic that restores the
previous target (`Kept`), the two counters (`Pursue`) and forced dormancy.

| model | code |
|---|---|
| `place`, `heading`, `yaw` | where the robot is; positions less than 5 cm apart are one place, `yaw` is what `atan2` reports (the half turn with either sign) |
| `Distance` | distances in cm from places to targets, against the thresholds 20, 45 and 35 |
| `frontier`, `object`, `overDepth` | what the maps list, changed arbitrarily within `Later` by the observations |
| `lastOverDepth` | a static local of `findExtremeTarget...`, which survives `init()` |
| `Execute` | the environment: a forward move may lead anywhere or be blocked |
| `StepLimit`, `NextEpisode` | the end of an episode as `EpisodeProtocol` has it |

After the STOP that the step limit forces (`StepLimit`), the planner plans once more,
for nobody. Only the static cloud could keep a trace of that plan, and the same one
as of a plan after a motion that was blocked, so that it is left out.

`Target` carries the episode in which it was perceived, for one property.
Path searches succeed or time out arbitrarily; which frontier a policy prefers
and how the best step is computed are arbitrary choices.

The two models meet in the planning call: `TickPlan` of `EpisodeProtocol` is
one step of `CallActionPlanner` with its `finalResult` and `newestAction`.

### SDFMap, FrontierMap, FrontierCycle

| model | code |
|---|---|
| `occupancy` | `occupancy_buffer_`, by the three answers of `getOccupancy` |
| `inflated`, `updated` | `occupancy_buffer_inflate_`; the box `local_update_mind_`..`local_update_maxd_` |
| `depthPoseCallback` | `MapROS::depthPoseCallback`: `inputDepthCloud2D` and `clearAndInflateLocalMap` |
| `flag`, `active`, `dormant` | `frontier_flag_`, `frontiers_`, `dormant_frontiers_` (a cluster is its set of cells) |
| `Found`, `SplitsOfAll` | the candidates of a search; the ways to split them |
| `SearchAndRetire` | `searchFrontiers` and `dormantSeenFrontiers`, called one after the other |
| `phase` | between two callbacks, or inside a planning call after its frontier update |
| `Follow` | the rest of `callActionPlanner` once it has a frontier as target |

Abstractions. A scan is a set of cells hit and a set crossed; whether an
observation turns a known cell is a free choice, as it depends on the log-odds
gathered so far; that the log-odds never equal the threshold again, after a cell was
first seen, holds for the parameters of the launch files. Cells are the world's
resolution: rays end at cell centres, so
the box of an image is a box of cells. Which clusters the robot sees or finds too
small is a free choice, and the principal axis of a split one of four directions.
`stray`, `abandoned` and `unheeded` are history variables for the properties: cells
of a released cluster beyond the search, cells of the clusters that were forced
dormant, and a loss no new choice has followed.

Callbacks of the planner node run one at a time, so images and planning calls
alternate in any order; `ScansPerUpdate` bounds the images between two updates.
In simulation it is 1: the evaluator publishes one observation per turn and the
planner updates the frontiers once per turn. With 2 (an image that overtakes a
planning call, or the real-world mode, where images keep coming) `NoFrontierForgotten`
fails: the second image's box replaces the first one's, and what the first one
uncovered outside it is not searched until it is seen again. The code promises
nothing about that mode, so it is noted here and in the hazards and not as a
finding.

The history variables mark two more facts. A cluster that reaches further from
the image than the search's margin of 1 m is released as a whole, and the part
beyond the margin is not found again by that search (`stray`); corridors of this
size do not show it, random simulation of wider ones does. And a cluster lost in
a call that ends in an escape, or lost by fewer of its cells than
`min_view_finish_fraction`, is not reported to the call that would choose another
target (`unheeded`). `setForceDormantFrontier` has the same two-fold view: cells
are marked by connection, clusters removed by their average. A cluster that
merely touches the one given up stays listed with all its cells
`FORCE_DORMANT`, and one whose average falls on a forced-dormant cell leaves the
lists while its own cells stay `ACTIVE` for ever. Not even a forced-dormant cell
need remain: give up a ring-shaped cluster whose centre lies in another one, and
the cells of that other are marked while the ring stays `ACTIVE`; release the
other, and its marks are gone. What holds is that every cell marked without a
cluster was in one that was forced dormant (`abandoned`); the clauses of
`ListsMatchFlags` and `ForcedStaysDormant` say so.

### EpisodeRecords

A file is the sequence of its blocks, newest first; the last block of a write
that was interrupted may be not whole. `OpenRecord` and `OpenContinue` are
`write_record` up to `open(..., "w")`, `WriteRecord` and `WriteContinue` the rest;
`CrashInWrite` leaves any prefix of the new content. `Start` is `read_record` and
the fast-forward; it is not enabled when the topmost block lacks a field, since
`read_record` then raises. An entry carries the episode it is about, which the
code does not write, for the properties. The limit and `need_video` are the
operator's, anew at each start: every file of `config/` switches videos off, the
launcher (`tools/apexnav_launcher.py`) on. `finished`, `done` and `unfilmed` are
history variables: the totals last counted on disk, the numbers of the episodes that
some run finished, and the successes of runs that save no videos.

### Ledger

The promise of the continue file in three variables: the episodes and the
successes the next run takes up, and whether it can read them. `Newest` in
`EpisodeRecords` maps the files to it: the topmost block, or, while a write is under
way, the one below the pending block, so that opening the file loses nothing and
closing it counts the episode. A death in between is a step of its own: `Forget` when
nothing had reached the disk, `Spoil` when half a block had, `Record` when the block
had and only older ones are missing. `Ledger` has no other step: nothing else takes
the totals back, and a run never counts on from a block it could only read in part.
That it is a death inside the write that forgets, and nothing else, is what
`ResumesFromAllCounted` adds.

### Trajectories, RealFSM, TrajServer, RealRobot

Time is a tick that ages every trajectory, those in messages included; the
start of a trajectory may lie up to `ReplanTime` ahead, and ages stop growing at
`AgeCap`. `mail` holds the messages of both topics, each delivered in its own
order. The command timer (50 Hz) runs at least once per tick (`cmdDue`).

| model | code |
|---|---|
| `local`, `newest` | `gcopter_->local_trajectory_`, `newest_traj_` |
| `PlanComplete`, `PlanFails`, `PlanSucceeds` | the outcomes of `callTrajectoryPlanner` in `PLAN_TRAJ` |
| `Execute`, `Replan`, `EmergencyStop`, `Goal` | `EXEC_TRAJ`, `REPLAN`, `safetyCallback`, `goalCallback` |
| `traj`, `receiving`, `rotating` | `traj_id_` / `start_time_` / `traj_duration_`, `receive_traj_`, `has_target_angle_` |
| `Command...` | the branches of `cmdCallBack` |
| `base` | what the base was last told (it keeps its velocity) |

A goal pose is taken in any state, as `goalCallback` has no guard, and its trajectory
is sent at once, found or not. The state machine does not know of it, and three
things follow that the properties have to name (TLC finds each of them when
the exception is left out):

* in `EXEC_TRAJ` the goal's trajectory replaces `local_trajectory_`, and the older
  `newest_traj_` is sent behind it: what is followed and what is watched differ until
  the next plan (`crossed`; `LastSent` is then `newest`). `exploration_data.h:83` calls
  `newest_traj_` the "latest planned trajectory", which it then is not;
* a goal whose plan fails sends the trajectory planned before again, also one that
  an emergency stop has ended (`revived`);
* in `EXEC_TRAJ` such a goal sends a trajectory before its start, and the server falls
  silent over a moving base until then (`AwaitsStart`).

`revived` and `crossed` are history variables that mark the first two from the goal
pose to the next stop or plan. The properties hold outside these cases and, as
stated, inside them: the server holds what was sent last, and drives blindly only
up to a start the state machine waits for itself.

## 3. What is checked

| run | instance | properties | states |
|---|---|---|---|
| `episode_safety` | 3 episodes, 5 steps, 2 scripted turns, status queues of 2 | type, `OneTurn`, `NoStaleAction`, `PlansFromLatestPose`, `VerdictFromThisEpisode`, `ReadyForThisEpisode`, `FinishIsFinal`, refinement of `Lockstep` | 280 000 |
| `episode_lossy` | 2 episodes, 3 steps, motions may be lost, fairness | `OneTurn`, `AllEpisodesEvaluated` | 32 000 |
| `episode_unsettled` | as before without `SettledReset` | `ReadyForThisEpisode`: **violated** | - |
| `planner_safety` | 2 episodes, a frontier, an object, an over-depth object, 2 places | type, `ActionHasPlan`, `ReachedIsObject`, `OldTargetsAreExtreme` | 365 000 |
| `planner_liveness` | 1 place, 2 frontiers, 2 headings, thresholds 3 and 2, fairness | `StuckRobotStops`, `AbandonedIsLeft` | 118 000 |
| `planner_stuck` | the real thresholds 25 and 14 | `StuckActionsAccumulate`: **violated** | - |
| `frontier_corridor` | 5 x 2 cells, inflation 1, 2 images, 3 updates, clusters of more than one cell | type, `NoGhostInflation`, `ListsMatchFlags`, `NoFrontierForgotten`, `ForcedStaysDormant`, `KeptTargetIsListed` | 282 000 |
| `frontier_inflation` | the same grid, 3 images | `InflationSurrounds`: **violated** | - |
| `records_resume` | 2 episodes, no limit or a limit of 3, videos saved or not, 2 results, 2 deaths, fairness | type, `ContinueIsARunningTotal`, `EachNumberIsItsEpisode`, `RecordDescribesWhatIsCounted`, `VideosMatchTotals`, `NeverSkipsAnEpisode`, `ResumesFromAllCounted`, `EvaluationFinishes`, refinement of `Ledger` | 2 250 000 |
| `records_torn` | 3 episodes, 1 death | `ResumesFromAllCompleted`: **violated** | - |
| `real_drive` | 2 trajectories of up to 2 ticks, a goal pose in any state, one target angle, fairness | type, `WatchesWhatItFollows`, `PlansFromWhatItFollows`, `CommandIsCurrent`, `CondemnedIsAbandoned`, `FinishComesToRest` | 541 000 |
| `real_static` | 2 trajectories | `StaticMeansAtRest`: **violated** | - |

**Bounds and why they are enough.** What an earlier episode leaves behind shows
in the next, and what a re-initialised planner leaves behind in the one after:
three episodes. Five steps with two scripted turns give planned turns in the
middle of an episode, the last step forced by the limit, and an early STOP.
Event queues of four (ten in the code) hold every message the protocol can have
outstanding; a smaller queue would drop, a larger one would not be filled. A
status queue of two has an old message in front of a new one; of one, a newer
message replaces the older. In the planner, one frontier and one object suffice
to restore, abandon and confuse targets; two episodes show the static cache; the
escape has its full ten actions in every run. The liveness run needs two
frontiers, so that giving one up leads to another and could be undone, and a second heading, so that
the escape can start again under another yaw; its thresholds are scaled down.

In the grid, a window of five cells is wider than the search (3 cells seen, a
margin of 1), so that a search does not cover the map; a cluster of more than
one cell can be split, seen, released in part and touch another one; two images
can contradict each other. The edge of the window is the edge of the map. In
the records, a limit of 3 over a dataset of 2 makes the iterator cycle; two deaths
let a restarted evaluator die again. In the real-world mode the second trajectory
can overtake the first one's stop, and 2 ticks leave room for a trajectory that
starts late, is replanned in motion or runs out; `AgeCap` = 4 is past every
duration.

**Deadlock** is checked in the protocol, where the planner's timer never stops.
It is in the real-world mode, where time goes on. It is not in the planner's runs,
the grid's and the records': after the last episode, the last image and update
the bounds allow, or the end of the evaluation nothing happens.

**Fairness.** `WF` on the planner's 10 ms timer, on the evaluator's timer while
it exists, on every callback with a message waiting (both ROS clients serve their
queues), and on the main thread, which never waits without a timeout. Delivery
of an action has `SF`: loss is never forced, and of actions sent again and again
one arrives. `LoseAction` has no fairness. In the planner: the call returns and
the action is executed, which is what `AllEpisodesEvaluated` is about. In the
records: a running evaluator goes on, and the operator starts a new one when the
files let it. In the real-world mode: messages arrive, the command timer runs,
time passes, and a rotation commanded again and again reaches its angle (`SF`).
The planner's own state machine has no fairness there: `FinishComesToRest` needs
only the server.

**Mutants.** Every property is shown to be able to fail: `PROJECT.json` lists
for each a plausible bug (an action not cleared, a reset left out, a flag
ignored) under which TLC finds it violated in the same instance. The mutated
forms stand in the modules beside the originals (`ResetEpisodeOnly`,
`KeepAction`, `KeptForAnyResult`, ...); no action uses them.

**Findings.** Places where the code does not do what a comment says.

1. `habitat_evaluation.py:370` "Wait for ROS system to be ready": the loop
   accepts any `/ros/state` but two, also one of the previous episode. After an
   infeasible episode the planner may still be publishing `WAIT_ACTION_FINISH`;
   if that arrives after the reset of `ros_state`, the observations stop and the
   planner then re-initialises without anything to start from
   (`episode_unsettled`). Only timing prevents it.
2. `exploration_fsm.h:52` "max consecutive stuck actions -> stop": the count is
   also reset whenever one target has been pursued in vain for 14 plans, before
   it can reach 25, so a robot that stays stuck with several frontiers is not
   stopped by this counter alone (`planner_stuck`). It is stopped in the end,
   since targets and past stuck points run out (`planner_liveness`).
3. `sdf_map2d.cpp:519` clears the inflation around a freed cell, that of other
   obstacles included, and inflates again only obstacles inside the box of the
   image: an obstacle next to the box loses inflation, even its own cell, until it
   is seen again (`frontier_inflation`). "Inflated occupancy map for collision
   checking" (`sdf_map2d.h:135`) is then incomplete.
4. `read_record.py:23` "num_total: Total number of episodes completed": the
   continue file is emptied before it is rewritten, and a death in between loses
   every episode completed so far; the next run starts from zero and says that it
   read the metrics (`records_torn`).
5. `exploration_data.h:64` "Track if robot is static or moving": a plan that fails
   sets `static_state_` while the server still follows the previous trajectory
   (`real_static`).

## 4. What is proved

The theorems hold for every number of episodes and steps, every number of
scripted turns and every queue size; those about the planning call for every set
of frontiers, objects and places, every distance, number of headings and
threshold; those about the grid for every size, inflation radius, set of images and
clustering parameters; those about the records for every dataset, set of limits
and results and number of deaths; those about the real-world mode for every
duration, delay and threshold. The assumptions on the constants are those the
modules state (`EpisodesAssumption`, ..., `CountsAssumption`).

| module | theorem | statement | assumes |
|---|---|---|---|
| `EpisodeProtocolProofs` | `TypeCorrect` | `Spec => []TypeOK` | - |
| | `OneTurnHolds` | `Spec => []OneTurn` | the three timing assumptions |
| | `NoStaleActionHolds` | `Spec => []NoStaleAction` | `SettledReset` |
| | `ReadyForThisEpisodeHolds` | `Spec => []ReadyForThisEpisode` | `SettledReset` |
| | `FinishIsFinalHolds` | `Spec => FinishIsFinal` | - |
| `EpisodeFreshnessProofs` | `PlansFromLatestPoseHolds` | `Spec => []PlansFromLatestPose` | the three timing assumptions |
| | `VerdictFromThisEpisodeHolds` | `Spec => []VerdictFromThisEpisode` | `SettledReset`, `InOrderDelivery` |
| `EpisodeRefinementProofs` | `ImplementsLockstepHolds` | `Spec => ImplementsLockstep` | timing, `LossyActions = {}` |
| `ActionPlannerProofs` | `PlannerTypeCorrect` | `Spec => []TypeOK` | - |
| | `ActionHasPlanHolds` | `Spec => []ActionHasPlan` | - |
| | `ReachedIsObjectHolds` | `Spec => []ReachedIsObject` | - |
| | `OldTargetsAreExtremeHolds` | `Spec => []OldTargetsAreExtreme` | - |
| | `AbandonedIsLeftHolds` | `Spec => AbandonedIsLeft` | - |
| `ClusterProofs` | `SplittingIsSound` | every way in `Splits[K]` is a partition of `K` with no part too large, and there is one | `K` is not empty |
| `FrontierProofs` | `NoGhosts` | `Spec => []NoGhostInflation` | - |
| | `TargetsAreListed` | `Spec => KeptTargetIsListed` | - |
| | `TypesAreKept` | `Spec => []TypeOK /\ [](exploring => target \in Cell)` | - |
| | `ListsAndFlagsAgree` | `Spec => []ListsMatchFlags` | - |
| | `NothingIsForgotten` | `Spec => []NoFrontierForgotten` | one image per update, the margin exceeds the inflation |
| | `GivenUpForGood` | `Spec => ForcedStaysDormant` | - |
| `EpisodeRecordsProofs` | `TypeCorrect` | `Spec => []TypeOK` | - |
| | `NumbersMeanEpisodes` | `Spec => []EachNumberIsItsEpisode` | - |
| | `TotalsAddUp` | `Spec => []ContinueIsARunningTotal` | - |
| | `VideosFollowTotals` | `Spec => []VideosMatchTotals` | - |
| | `CountedIsDescribed` | `Spec => []RecordDescribesWhatIsCounted` | - |
| | `NothingCountedIsLost` | `Spec => []ResumesFromAllCounted` | - |
| | `NoEpisodeIsSkipped` | `Spec => []NeverSkipsAnEpisode` | - |
| | `FilesAreALedger` | `Spec => ImplementsLedger` | - |
| `RealRobotProofs` | `TypeCorrect` | `Spec => []TypeOK` | - |
| | `CommandStaysCurrent` | `Spec => []CommandIsCurrent` | - |
| | `WatchedIsFollowed` | `Spec => []WatchesWhatItFollows` | - |
| | `CondemnedStaysAbandoned` | `Spec => []CondemnedIsAbandoned` | - |
| | `PlansFollowTheRobot` | `Spec => []PlansFromWhatItFollows` | - |

**Type correctness** of the protocol is not inductive alone: counting a step needs that the limit
has not been reached (`StepsLeft`), and publishing an action that one has been
chosen (`ActionChosen`).

**Episodes do not mix.** `EpisodeInv` adds two parts to the types:

* `ThisEpisode`: while an episode runs, the planner's incarnation, every action
  in the topic, in the slot or being executed belong to it, and no
  `EPISODE_FINISH` is under way (so that the planner cannot re-initialise itself
  in its middle);
* `Awaited`: while a planner in `INIT` or `WAIT_TRIGGER` has an episode to start,
  the evaluator is waiting for it, and every `/ros/state` still to be heard is a
  waiting one, so that the wait does not end early.

Both are established at the reset, where `SettledReset` enters, and every other step
keeps them whatever the order of delivery and the watchdog do. `NoStaleAction` and
`ReadyForThisEpisode` follow.

**One turn.** `OneTurn` says that the set of places where a turn can be (an
announcement in `/habitat/state`, the planner, an action on its way, the slot,
the executing main thread) has at most one element. The inductive invariant
`TurnInv` states it place by place (`LoneTurn`) and adds to `EpisodeInv`:

* `Untriggered`: a planner in `INIT` or `WAIT_TRIGGER` could be triggered into a
  turn of its own, so there must be none: either the evaluator is waiting for it
  and nothing is under way, or no episode runs and the planner lacks
  the confidence threshold, so that it cannot even leave `INIT`.

The other assumptions enter where one expects: `InOrderDelivery` when `EPISODE_FINISH`
is handled (no threshold message of the old episode can follow it) and
`AccurateWatchdog` at the heartbeat. One lemma per
group of actions shows that the invariant is preserved; lemmas about bounded
topics (publishing, delivering, dropping the oldest messages) carry the sequence
reasoning.

**Freshness.** Two topics of one node meet at the other one; both invariants follow
the newest message of a topic, received or not (`Newest`). `PoseInv`: the newest
pose is the one the last executed action led to; before the first action, and
whenever the planner plans, there is no other (`Located`), since an
`ACTION_FINISH` finds every pose delivered and no action is executed while the
planner plans (`LoneTurn`). `VerdictInv` cannot use that there is one turn: it
assumes nothing of the watchdog, so several actions may be on their way or be
overwritten in the slot. It counts instead. The newest decision is the planner's last
one (`Decided`). As long as the evaluator has no decision of this episode, the
actions it has executed and received, together with those on their way while
nothing has been decided, are at most the scripted turns begun (`OnlyScripted`), so
that an episode that ends at the limit, which exceeds the script
(`StepsAssumption`), has heard a decision. A STOP that is not the limit's is a
planner's in `FINISH`, whose decision arrives before it (`Stopped`).

**Refinement.** `MapInv` adds to `TurnInv` how an episode starts (no step taken,
not over) and that an infeasible one executes nothing (`EpisodeStart`); this is
what `Start` and `Abort` of `Lockstep` require. `SamePlace` covers every step in
which the evaluator stays where it is: such a step may at most hand over the
turn. The initial states map to the initial state (`MapInit`) and every step to a
step or a stutter (`MapStep`). A lost action would hand the turn back, so the
theorem excludes loss, while `OneTurnHolds` does not.

**Planning call.** `PlannerInv` adds to the types what relates the last verdict,
the last result and the shared `next_pos_`: a target called a frontier is one of
this episode, a target called an object is not a frontier (`TargetMatches`), a
target just given up is gone from the frontier map, a verdict to go on comes with
a path and with counters below their limits, and an escape under way knows where
it began (`Ready`). `PlanTargets` says that each result of `planNextBestPoint`
describes its target; the restored target satisfies the same because it is only
restored for a frontier, after a frontier.

**Grid.** `NoGhostInflation` is inductive together with the types of the grid: what
an image leaves inflated lies either outside the discs cleared, where its obstacle
cannot have turned free since every freed cell is cleared, or in a disc of an
obstacle in the box. `TargetsAreListed` strengthens the property to `TargetInv`: while
the planner explores, and no re-plan is due, and no loss went unheeded, its target
is the average of a listed cluster. A frontier update that reports no change and
releases nothing keeps the lists (`QuietUpdateKeepsLists`), and what is forced
dormant sets the flag that makes the next call choose anew.

**Clusters.** The other four properties of the grid rest on what recursive
functions return: the breadth-first search (`Component`), the sums behind an
average, the splitting, the combination of ways to split. `ClusterProofs` proves
this for every grid. An induction is cited there in first-order form: the set of
counterexamples, if it is not empty, has a minimal member (`MinimalMember`, and
`NumbersFromZero` for numbers), from the well-foundedness theorems of the
library. A recursive definition is the choice of a function that satisfies its
equation, so each needs one that does, for arguments of a rank
(`RecursiveFunctionExists`) or sets (`SetFunctionExists`). On this rest

* a search goes on for long enough: what it reaches is closed under neighbours
  within the cells searched, and nothing less is (`ComponentIsClosed`,
  `ComponentIsLeast`); so two searches find the same group or disjoint ones;
* the rounded mean of cells is a cell of the grid (`AverageIsCell`), because the
  sums are bounded by the grid's size (`SumBound`);
* a cluster too large has a half that is neither empty nor all of it
  (`TooLargeHasHalves`): the offsets from the mean cancel, so along a direction
  in which one is not zero there are cells on both sides. Hence the recursion of
  `splitHorizontally` ends, and what it returns is a partition.

**Frontiers.** `TypeInv` adds to `TypeOK` that no cluster is empty and the target of
an exploration a cell, which needs `AverageIsCell`. `ListsMatchFlags` is then
inductive: a listed cluster that was not released has no cell among the
candidates of a search (`KeptIsApart`), so the new clusters are apart from it, and
from each other since they are a partition of disjoint groups (`NewClusters`).

`NoFrontierForgotten` speaks of the moment after a search; the invariant
`OverlookedInv` of every state. `Overlooked` are the frontier cells in no cluster
that the next search will not look at (after an image, those outside of its box
and margin), but for those released unseen; every group of them is smaller than
a cluster. An image adds none: occupancy changes in the box only, inflation is
removed only around cells of the box, so a cell that becomes a frontier is
within the margin if that exceeds the inflation radius (`ImageOverlooksNothing`;
1 m against the robot's radius in the code, `frontier_map2d.cpp:84` and
`sdf_map2d.cpp:73`). Fewer cells make smaller groups
(`FewerAreSmall`), so a failed escape or a forced cluster does no harm. A search
finds each group it looks at, all of it, and of any other group every cell was
overlooked before (`SearchOverlooksSmall`). The theorem assumes
`ScansPerUpdate = 1`, since with two images the first box is lost (section 2), and
the hypothesis on the margin, without which inflation that is cleared beyond the
search uncovers frontiers unseen.

**Records.** Numbers, totals and contents of the files are one induction each, over
the places of the write under way: what `content` holds while a file is open
is what the file will hold. The arithmetic of the fast-forward (the n-th
episode's successor is the (n+1)-th, taken cyclically) is in `RemainderIsUnique`
and `NextIsNext`. `NoEpisodeIsSkipped` follows from the history of finished episodes: a
block is written only after its episode. `VideosFollowTotals` counts the videos, with
`need_video` on in some runs and off in others: `VideosInv` compares the
folders with the totals of a running evaluator or, when none runs, with those the
next one will resume from, so that a death raises the difference by the one
episode it may cost. A finished episode adds at most one video (`NewVideo`); a
success counted on disk has one with a number that was counted too, or is counted
in `unfilmed` (`VideoOrUnfilmed`). For the
refinement, `LedgerInv` says that the totals of a running evaluator are those of
the promise or, between the end of an episode and the close of the continue file,
one episode ahead of it; `LedgerStep` then maps every step but `WriteContinue` and a
death inside that write to a stutter.

**Real-world mode.** Goal poses come in any state, so nothing orders what is sent by
its id. What holds of every trajectory at the server or on its way (`Sound`): it is
no newer than the local one, has the start time its id stands for, and has started
unless the state machine still waits for that start. `CommandInv` adds that a base
that follows a trajectory will hear of its end, so that `CommandIsCurrent` follows.
`WatchInv` says where the trajectory sent last is while the planner takes the robot to
be moving: it is the last message, or at the server with no other trajectory behind
it. An emergency stop ends that, which is why it sets `static_state_`
(`PlansFromWhatItFollows`). `StopInv` says where the stop of a condemned trajectory
is, behind every message it is for or applied; it is what an overtaking message
would break (`overtaken`), or a goal pose that sends the trajectory again (`revived`).

**Only model-checked:** the liveness properties `AllEpisodesEvaluated`,
`StuckRobotStops`, `EvaluationFinishes` and `FinishComesToRest`: the prover has
neither `ENABLED` nor liveness under fairness. Every safety invariant and action
property of the passing runs is a theorem.

Two remarks for whoever extends the proofs. TLC and the prover read
`UNION S \ T` differently, hence the parentheses around `UNION Removed` in
`FrontierCycle`. And the prover's induction theorems that take an operator cannot be used;
`MinimalMember` in `ClusterProofs` takes their place.

## 5. What is not modelled

Besides the components marked so in section 1:

* numerical content (poses, distances, probabilities, confidence values, the
  distance field, trajectories' shapes) is represented by the choices it leads to;
* the fusion of detections into objects and the over-depth hysteresis of
  `map_ros.cpp`: both are decided by point clouds, and the planner's model takes
  every outcome;
* the virtual ground and the number of the current image in `sdf_map2d.cpp` (a
  `char` that wraps after 256 images, so that a ray may be skipped): the images of
  `SDFMap` show arbitrary cells, so a skipped ray is an image that crosses less;
* loss of a STOP, which the code has no answer to: with
  `LossyActions = {"STOP"}` the evaluator polls forever, since the watchdog only
  serves `WAIT_ACTION_FINISH`;
* the single-episode mode of the evaluator (`flag_once`), which writes no records,
  and the rotation of the trajectory server at start-up (`need_init`), which every
  launch file switches off;
* `tryPlanPoisonedGoalRegionAction` and `src/VIRUS`: an experimental overlay that every
  configuration in `config/` leaves off;
* `src/ros_py39_shim`, by far the largest part of the Python files, is a copy of the
  ROS packages and generated message classes. The models use what the rest of
  the code needs of it, topics with queues, and mark those definitions external.

## 6. Plan

Done: the episode protocol with its abstract specification, the planning call, the
grid and the frontiers, the records, the real-world mode. Left, in the order of
their importance:

1. The over-depth hysteresis as part of `ActionPlanner`'s observations.
2. Composition: `EpisodeProtocol` with `ActionPlanner` in place of its arbitrary
   planning call, and `ActionPlanner` with `FrontierMap` in place of its abstract
   clusters. Both products are beyond TLC at sizes where something happens, so
   this asks for refinements, proved, rather than runs.
3. `AStar`: search on a small graph with its time limit and node pool against a
   reference definition of reachability.
