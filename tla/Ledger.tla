------------------------------- MODULE Ledger -------------------------------
(***************************************************************************)
(* What the files of an evaluation promise to the next run of it.  The     *)
(* next run takes up a number of finished episodes and of successes, which *)
(* grow by one episode at a time.  Dying evaluators cost it nothing, but   *)
(* for one that dies while it rewrites the file: then the totals may be    *)
(* back at zero, or they cannot be read and no run follows.                *)
(***************************************************************************)
EXTENDS Naturals

VARIABLES
  total,      \* finished episodes the next run goes on from
  successes,  \* successes among them
  legible     \* the next run can read them

vars == <<total, successes, legible>>

Init == total = 0 /\ successes = 0 /\ legible = TRUE

\* One more episode, a success or not, is counted.
Count ==
  /\ total' = total + 1
  /\ successes' \in {successes, successes + 1}

Record == legible /\ Count /\ UNCHANGED legible

\* The entry is written so far that it counts, but not to its end.
Spoil == legible /\ Count /\ legible' = FALSE

\* Nothing is left of the file.
Forget ==
  /\ legible
  /\ total' = 0 /\ successes' = 0
  /\ UNCHANGED legible

Next == Record \/ Spoil \/ Forget

Spec == Init /\ [][Next]_vars
=============================================================================
