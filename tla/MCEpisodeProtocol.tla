------------------------- MODULE MCEpisodeProtocol -------------------------
(* Instances of EpisodeProtocol for TLC: the .cfg files give the values.   *)
EXTENDS EpisodeProperties
=============================================================================
