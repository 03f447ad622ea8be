---------------------------- MODULE MCRealRobot ----------------------------
(* Instances of RealRobot for TLC. *)
EXTENDS RealProperties
=============================================================================
