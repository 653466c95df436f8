-------------------------- MODULE MusicPlaybackMC --------------------------
(***************************************************************************)
(* The instance of MusicPlayback that TLC checks: three requests, of       *)
(* either kind.                                                            *)
(***************************************************************************)
EXTENDS MusicPlayback
=============================================================================
