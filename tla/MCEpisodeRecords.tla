------------------------- MODULE MCEpisodeRecords -------------------------
(* Instances of EpisodeRecords for TLC. *)
EXTENDS EpisodeRecords
=============================================================================
