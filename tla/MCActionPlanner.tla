-------------------------- MODULE MCActionPlanner --------------------------
(* Instances of ActionPlanner for TLC: the .cfg files give the values.     *)
EXTENDS ActionPlannerProperties

(* Near place "a" there is one frontier; objects are reached at "b".       *)
DistanceTable ==
  [pt \in Places \X Ids |->
     CASE pt[1] = "a" /\ pt[2] \in Frontiers -> IF pt[2] = "f" THEN 30 ELSE 100
       [] pt[1] = "a" -> 40
       [] pt[1] # "a" /\ pt[2] \in Frontiers -> 100
       [] OTHER -> 10]
=============================================================================
