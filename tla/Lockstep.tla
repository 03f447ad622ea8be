------------------------------ MODULE Lockstep ------------------------------
(***************************************************************************)
(* What the episode protocol promises: within an episode the planner and   *)
(* the evaluator alternate strictly.  Every executed action was issued by  *)
(* the planner after the previous one had been executed, and an episode    *)
(* ends by an executed action or, before the first one, because its target *)
(* is on another floor.                                                    *)
(***************************************************************************)
EXTENDS Naturals

CONSTANTS MaxEpisodes, MaxSteps

VARIABLES
  episode, \* number of the current episode, 0 before the first
  steps,   \* actions executed in it
  turn     \* "idle": no episode runs; "plan": the planner is to issue an
           \* action; "act": the evaluator is to execute it; "over"

vars == <<episode, steps, turn>>

Init == episode = 0 /\ steps = 0 /\ turn = "idle"

Open ==
  /\ turn = "idle" /\ episode < MaxEpisodes
  /\ episode' = episode + 1 /\ steps' = 0 /\ turn' = "idle"

(* The evaluator may notice the planner only after its first action.       *)
Start ==
  /\ turn = "idle" /\ steps = 0
  /\ turn' \in {"plan", "act"}
  /\ UNCHANGED <<episode, steps>>

Issue ==
  /\ turn = "plan"
  /\ turn' = "act"
  /\ UNCHANGED <<episode, steps>>

Execute ==
  /\ turn = "act" /\ steps < MaxSteps
  /\ steps' = steps + 1
  /\ turn' = "over" \/ (turn' = "plan" /\ steps' < MaxSteps)
  /\ UNCHANGED episode

Abort ==
  /\ turn \in {"plan", "act"} /\ steps = 0
  /\ turn' = "over"
  /\ UNCHANGED <<episode, steps>>

Close ==
  /\ turn = "over"
  /\ turn' = "idle"
  /\ UNCHANGED <<episode, steps>>

Next == Open \/ Start \/ Issue \/ Execute \/ Abort \/ Close

Spec == Init /\ [][Next]_vars
=============================================================================
