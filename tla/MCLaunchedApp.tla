---------------------------- MODULE MCLaunchedApp ----------------------------
(* Small instances of LaunchedApp. *)
EXTENDS LaunchedApp
=============================================================================
